------------------------------ MODULE Sessions ------------------------------
(***************************************************************************)
(* The refresh-session store of backend/sessions.py: one row per session,  *)
(* holding the current token, exactly one predecessor and, for a short     *)
(* grace window, the successor handed to a double submit.                  *)
(*                                                                         *)
(* Every public function runs under the module lock, so each is one        *)
(* action.  What is not atomic with it is the disk: a function changes the *)
(* cached table first and saves it afterwards, the save may fail (the call *)
(* then raises and the table keeps the change), and the process may be     *)
(* restarted, which reloads whatever the last successful save wrote.       *)
(*                                                                         *)
(* A token is a number handed out by a counter (256 random bits never      *)
(* collide) and its hash is the token.  A session id is the number of the  *)
(* session's first token, so the order of ids is the insertion order of    *)
(* the dict, which is what breaks ties in the eviction's stable sort.      *)
(* The times a row keeps are absolute; user agent and address are display. *)
(***************************************************************************)
EXTENDS Integers, FiniteSets

CONSTANTS
    Users,      \* lower-cased usernames
    MaxPerUser, \* MAX_SESSIONS_PER_USER
    Ttl,        \* REFRESH_TTL_SECONDS
    Grace,      \* ROTATION_GRACE_SECONDS
    SaveMayFail \* whether write_json_atomic may raise

ASSUME MaxPerUserAssumption == MaxPerUser \in Nat \ {0}
ASSUME WindowAssumption     == Ttl \in Nat \ {0} /\ Grace \in Nat
ASSUME SaveAssumption       == SaveMayFail \in BOOLEAN

VARIABLES
    table,      \* _cache: session id -> row
    disk,       \* sessions.json
    now,        \* time.time()
    nextToken,  \* the next number secrets.token_urlsafe returns
    held,       \* tokens some client was given
    reply,      \* the last call, its answer, the token given out and for which
    chain,      \* history: the session each token was issued for
    ended       \* history: sessions ended by a sign-out that returned

vars == <<table, disk, now, nextToken, held, reply, chain, ended>>
history == <<chain, ended>>

NoToken == 0
NoTable == [s \in {} |-> {}]

Row == [user : Users, current : Nat, prev : Nat, rotatedAt : Nat,
        successor : Nat, lastUsed : Nat, expires : Nat]

Call == {"none", "create", "rotate", "revoke", "revoke_session", "revoke_all"}
Answer == {"ok", "unknown", "expired", "reuse", "raised"}

-----------------------------------------------------------------------------
(* Helpers over a table t. *)

Mine(t, u) == {s \in DOMAIN t : t[s].user = u}
Only(t, S) == [s \in S |-> t[s]]
Without(t, S) == Only(t, DOMAIN t \ S)

\* _find_locked: the rows a token resolves to, as current or predecessor.
Matches(t, tok) == {s \in DOMAIN t : tok \in {t[s].current, t[s].prev}}

\* _prune_locked: expired rows go, and a successor past its window is let go.
InGrace(row) == now - row.rotatedAt <= Grace
PrunedAtOnce(t) ==
    [s \in {x \in DOMAIN t : t[x].expires > now} |->
        [t[s] EXCEPT !.successor = NoToken]]

Pruned(t) ==
    [s \in {x \in DOMAIN t : t[x].expires > now} |->
        IF t[s].prev # NoToken /\ ~InGrace(t[s])
        THEN [t[s] EXCEPT !.successor = NoToken]
        ELSE t[s]]

\* Least recently used first; the older row first among equals.
UsedAfter(t, a, b) == t[a].lastUsed > t[b].lastUsed

UsedBefore(t, a, b) ==
    \/ t[a].lastUsed < t[b].lastUsed
    \/ t[a].lastUsed = t[b].lastUsed /\ a < b

\* _evict_surplus_locked: the D least recently used of u's rows go.
NoSurplus(t, u, D) == D = {}

IsSurplus(t, u, D) ==
    /\ D \subseteq Mine(t, u)
    /\ IF Cardinality(Mine(t, u)) > MaxPerUser
       THEN Cardinality(D) = Cardinality(Mine(t, u)) - MaxPerUser
       ELSE D = {}
    /\ \A d \in D, k \in Mine(t, u) \ D : UsedBefore(t, d, k)

\* _save, the last thing a mutating call does; the table keeps the change
\* either way, and only a call that saved returns its answer.
Save(call, tok, answer, given) ==
    \/ /\ disk' = table'
       /\ reply' = [call |-> call, token |-> tok, answer |-> answer,
                    given |-> given]
       /\ held' = held \cup ({given} \ {NoToken})
    \/ /\ SaveMayFail
       /\ reply' = [call |-> call, token |-> NoToken, answer |-> "raised",
                    given |-> NoToken]
       /\ UNCHANGED <<disk, held>>

Return(call, tok, answer, given) ==
    /\ reply' = [call |-> call, token |-> tok, answer |-> answer,
                 given |-> given]
    /\ held' = held \cup ({given} \ {NoToken})

\* The history: a call that returned ended the sessions S; the next token
\* was issued for session s.
Ends(S) ==
    /\ ended' = IF reply'.answer = "raised" THEN ended ELSE ended \cup S
    /\ UNCHANGED chain

Issues(s) ==
    /\ chain' = [tok \in 1..nextToken |-> IF tok = nextToken THEN s ELSE chain[tok]]
    /\ UNCHANGED ended

-----------------------------------------------------------------------------
Init ==
    /\ table = NoTable
    /\ disk = NoTable
    /\ now = 1
    /\ nextToken = 1
    /\ held = {}
    /\ reply = [call |-> "none", token |-> NoToken, answer |-> "ok",
                given |-> NoToken]
    /\ chain = NoTable
    /\ ended = {}

\* create(): insert, prune, evict the surplus, save, return the token.
NewRow(u, tok) ==
    [user |-> u, current |-> tok, prev |-> NoToken, rotatedAt |-> 0,
     successor |-> NoToken, lastUsed |-> now, expires |-> now + Ttl]

Inserted(u) ==
    [s \in DOMAIN table \cup {nextToken} |->
        IF s = nextToken THEN NewRow(u, nextToken) ELSE table[s]]

Create(u) ==
    /\ \E D \in SUBSET Mine(Pruned(Inserted(u)), u) :
          /\ IsSurplus(Pruned(Inserted(u)), u, D)
          /\ table' = Without(Pruned(Inserted(u)), D)
    /\ nextToken' = nextToken + 1
    /\ Save("create", NoToken, "ok", nextToken)
    /\ Issues(nextToken)
    /\ UNCHANGED now

\* rotate(): the four ways a presented token is answered.
RotateUnknown(tok) ==
    /\ Matches(table, tok) = {}
    /\ Return("rotate", NoToken, "unknown", NoToken)
    /\ UNCHANGED <<table, disk, now, nextToken, history>>

RotateExpired(tok) ==
    /\ \E s \in Matches(table, tok) :
          /\ table[s].expires <= now
          /\ table' = Without(table, {s})
    /\ Save("rotate", NoToken, "expired", NoToken)
    /\ UNCHANGED <<now, nextToken, history>>

\* A predecessor: the existing successor inside the grace window, otherwise
\* ReuseDetected.  The row is left as it is; the caller revokes it.
RotatePredecessor(tok) ==
    \E s \in Matches(table, tok) :
        /\ table[s].expires > now
        /\ tok # table[s].current
        /\ IF InGrace(table[s]) /\ table[s].successor # NoToken
           THEN Return("rotate", tok, "ok", table[s].successor)
           ELSE Return("rotate", NoToken, "reuse", NoToken)
        /\ UNCHANGED <<table, disk, now, nextToken, history>>

RotatedRowSliding(row) ==
    [row EXCEPT !.prev = row.current, !.rotatedAt = now,
                !.successor = nextToken, !.current = nextToken,
                !.lastUsed = now, !.expires = now + Ttl]

RotatedRowEchoing(row) ==
    [row EXCEPT !.prev = row.current, !.rotatedAt = now,
                !.successor = row.current, !.current = nextToken,
                !.lastUsed = now]

RotatedRow(row) ==
    [row EXCEPT !.prev = row.current, !.rotatedAt = now,
                !.successor = nextToken, !.current = nextToken,
                !.lastUsed = now]

RowPerToken(s) ==
    [x \in DOMAIN table \cup {nextToken} |->
        IF x = nextToken THEN RotatedRow(table[s]) ELSE table[x]]

Rotated(s) ==
    [x \in DOMAIN table |-> IF x = s THEN RotatedRow(table[s]) ELSE table[x]]

RotateCurrent(tok) ==
    /\ \E s \in Matches(table, tok) :
          /\ table[s].expires > now
          /\ tok = table[s].current
          /\ table' = Pruned(Rotated(s))
          /\ Issues(s)
    /\ nextToken' = nextToken + 1
    /\ Save("rotate", tok, "ok", nextToken)
    /\ UNCHANGED now

Rotate(tok) ==
    \/ RotateUnknown(tok)
    \/ RotateExpired(tok)
    \/ RotatePredecessor(tok)
    \/ RotateCurrent(tok)

\* revoke(): the session this token belongs to, expired or not.
Revoke(tok) ==
    IF Matches(table, tok) = {}
    THEN /\ Return("revoke", NoToken, "unknown", NoToken)
         /\ UNCHANGED <<table, disk, now, nextToken, history>>
    ELSE \E s \in Matches(table, tok) :
         /\ table' = Without(table, {s})
         /\ Save("revoke", NoToken, "ok", NoToken)
         /\ Ends({s})
         /\ UNCHANGED <<now, nextToken>>

\* revoke_session(): one named session, only for its owner.
RevokeSession(u, s) ==
    IF s \notin Mine(table, u)
    THEN /\ Return("revoke_session", NoToken, "unknown", NoToken)
         /\ UNCHANGED <<table, disk, now, nextToken, history>>
    ELSE /\ table' = Without(table, {s})
         /\ Save("revoke_session", NoToken, "ok", NoToken)
         /\ Ends({s})
         /\ UNCHANGED <<now, nextToken>>

\* revoke_all(): saves only when there was something to delete.
RevokeAllUnsaved(u) ==
    /\ table' = Without(table, Mine(table, u))
    /\ Return("revoke_all", NoToken, "ok", NoToken)
    /\ Ends(Mine(table, u))
    /\ UNCHANGED <<disk, now, nextToken>>

RevokeAll(u) ==
    /\ table' = Without(table, Mine(table, u))
    /\ IF Mine(table, u) = {}
       THEN /\ Return("revoke_all", NoToken, "ok", NoToken)
            /\ UNCHANGED disk
       ELSE Save("revoke_all", NoToken, "ok", NoToken)
    /\ Ends(Mine(table, u))
    /\ UNCHANGED <<now, nextToken>>

\* The process restarts and loads the file again; time passes.
Restart ==
    /\ table' = disk
    /\ UNCHANGED <<disk, now, nextToken, held, reply, history>>

Tick ==
    /\ now' = now + 1
    /\ UNCHANGED <<table, disk, nextToken, held, reply, history>>

Next ==
    \/ \E u \in Users : Create(u) \/ RevokeAll(u)
    \/ \E tok \in held : Rotate(tok) \/ Revoke(tok)
    \/ \E u \in Users, s \in DOMAIN table : RevokeSession(u, s)
    \/ Restart
    \/ Tick

Spec == Init /\ [][Next]_vars

-----------------------------------------------------------------------------
TypeOK ==
    /\ table \in [DOMAIN table -> Row] /\ DOMAIN table \subseteq 1..(nextToken - 1)
    /\ disk \in [DOMAIN disk -> Row] /\ DOMAIN disk \subseteq 1..(nextToken - 1)
    /\ now \in Nat \ {0}
    /\ nextToken \in Nat \ {0}
    /\ held \subseteq 1..(nextToken - 1)
    /\ reply \in [call : Call, token : Nat, answer : Answer, given : Nat]
    /\ chain \in [1..(nextToken - 1) -> 1..(nextToken - 1)]
    /\ ended \subseteq 1..(nextToken - 1)

\* A token resolves to the session it was issued for and to no other, so the
\* linear scan of _find_locked cannot answer for somebody else's row, whichever
\* it meets first, in the cached table and in the file it may be reloaded from.
TokenNamesOneRow ==
    \A t \in {table, disk}, tok \in held : Matches(t, tok) \subseteq {chain[tok]}

\* For the whole grace window after a rotation the row still holds the
\* successor, and it is the current token: a second tab, or a client that
\* never got the first response, is always answered with the live chain.
GraceHonoured ==
    \A s \in DOMAIN table :
        table[s].prev # NoToken /\ InGrace(table[s])
            => table[s].successor = table[s].current

\* No account holds more sessions than MAX_SESSIONS_PER_USER between calls,
\* in the table or in the file.
SessionBound ==
    \A t \in {table, disk}, u \in Users : Cardinality(Mine(t, u)) <= MaxPerUser

\* What a sign-out that returned has ended never comes back, through later
\* calls, failing saves or a restart: it is in neither the table nor the file.
EndedStaysEnded ==
    ended \cap (DOMAIN table \cup DOMAIN disk) = {}

\* A login's token is live when the login returns: eviction never takes the
\* session that was just created, even when every other one was used in the
\* same instant.
CreatedIsLive ==
    [][reply' # reply /\ reply'.call = "create" /\ reply'.answer = "ok"
         => \E s \in DOMAIN table' : table'[s].current = reply'.given]_vars

\* The chain never forks: whatever token rotate() gives out is the session's
\* one current token, and the presented token is its direct predecessor.
ChainNeverForks ==
    [][reply' # reply /\ reply'.call = "rotate" /\ reply'.answer = "ok"
         => \E s \in DOMAIN table' : /\ table'[s].current = reply'.given
                                    /\ table'[s].prev = reply'.token]_vars

\* Using a session never prolongs it and never changes whose it is: thirty
\* days after the login it is over, however often it was rotated, saved,
\* lost to a failed save or reloaded.
UseNeverProlongs ==
    [][\A s \in DOMAIN table \cap DOMAIN table' :
          /\ table'[s].expires = table[s].expires
          /\ table'[s].user = table[s].user]_vars
=============================================================================
