--------------------------- MODULE SessionsProofs ---------------------------
(***************************************************************************)
(* What holds of Sessions for every set of users, every limit and window,  *)
(* and whether or not saves fail.                                          *)
(*                                                                         *)
(* The inductive invariant says of each row, in the table and in the file, *)
(* that its current token and its predecessor were issued for that row's   *)
(* own session (the history variable chain), that its times are not in the *)
(* future, and that its successor is either let go, which only happens     *)
(* after the grace window, or is the current token.                        *)
(*                                                                         *)
(* Then the same under the handlers of routes/auth.py and the deactivation *)
(* of routes/admin.py (AuthFlow), for every number of threads and links.   *)
(* They use the store as Sessions describes it: they only present tokens   *)
(* some client was given and only act for users there are, so every        *)
(* theorem about the store holds with all of them at work.  Last, the      *)
(* accounts: a thread that has looked at an active account has it noted,   *)
(* and each mailed link, while it lies in a mailbox and while its bearer   *)
(* is at the form, stands for one password still to be set.                *)
(***************************************************************************)
EXTENDS AuthFlow, FiniteSetTheorems, TLAPS

\* The invariant of one row of session s, at time clock, when the tokens below
\* n have been issued for the sessions ch names.
RowOK(row, s, clock, n, ch) ==
    /\ row \in Row
    /\ row.current \in 1..(n - 1) /\ ch[row.current] = s
    /\ row.prev # NoToken => row.prev \in 1..(n - 1) /\ ch[row.prev] = s
    /\ row.lastUsed <= clock
    /\ row.rotatedAt <= clock
    /\ row.successor \in {NoToken, row.current}
    /\ row.prev # NoToken /\ clock - row.rotatedAt <= Grace
          => row.successor = row.current

TableOK(t, clock, n, ch) ==
    /\ t \in [DOMAIN t -> Row]
    /\ DOMAIN t \subseteq 1..(n - 1)
    /\ \A s \in DOMAIN t : RowOK(t[s], s, clock, n, ch)

BoundOK(t) == \A u \in Users : Cardinality(Mine(t, u)) <= MaxPerUser

Stored ==
    /\ TableOK(table, now, nextToken, chain)
    /\ TableOK(disk, now, nextToken, chain)
    /\ BoundOK(table) /\ BoundOK(disk)

IInv == TypeOK /\ Stored

-----------------------------------------------------------------------------
(* Facts about tables. *)

\* A table only has finitely many rows of a user.
LEMMA MineFinite ==
    ASSUME NEW t, NEW u, NEW n \in Nat, DOMAIN t \subseteq 1..(n - 1)
    PROVE  IsFiniteSet(Mine(t, u))
<1>1. IsFiniteSet(1..(n - 1))
  BY FS_Interval
<1>2. Mine(t, u) \subseteq 1..(n - 1)
  BY DEF Mine
<1> QED BY <1>1, <1>2, FS_Subset

\* Time passing, and further tokens being issued, leave a good table good.
LEMMA TableOKPersists ==
    ASSUME NEW t, NEW clock \in Nat, NEW clock2 \in Nat, clock <= clock2,
           NEW n \in Nat, NEW n2 \in Nat, n <= n2,
           NEW ch, NEW ch2, \A tok \in 1..(n - 1) : ch2[tok] = ch[tok],
           TableOK(t, clock, n, ch)
    PROVE  TableOK(t, clock2, n2, ch2)
<1>1. ASSUME NEW s \in DOMAIN t PROVE RowOK(t[s], s, clock2, n2, ch2)
  <2>1. RowOK(t[s], s, clock, n, ch)
    BY DEF TableOK
  <2>2. t[s].current \in 1..(n - 1) /\ t[s].rotatedAt \in Nat /\ t[s].lastUsed \in Nat
    BY <2>1 DEF RowOK, Row
  <2> QED BY <2>1, <2>2, WindowAssumption DEF RowOK, NoToken
<1>2. DOMAIN t \subseteq 1..(n2 - 1)
  BY DEF TableOK
<1> QED BY <1>1, <1>2 DEF TableOK

\* Removing rows leaves a good table good.
LEMMA OnlyOK ==
    ASSUME NEW t, NEW clock \in Nat, NEW n \in Nat, NEW ch,
           TableOK(t, clock, n, ch), NEW K \in SUBSET DOMAIN t
    PROVE  TableOK(Only(t, K), clock, n, ch)
  BY DEF TableOK, Only

LEMMA OnlyBound ==
    ASSUME NEW t, NEW n \in Nat, DOMAIN t \subseteq 1..(n - 1),
           BoundOK(t), NEW K \in SUBSET DOMAIN t
    PROVE  BoundOK(Only(t, K))
<1>1. ASSUME NEW u \in Users PROVE Cardinality(Mine(Only(t, K), u)) <= MaxPerUser
  <2>1. Mine(Only(t, K), u) \subseteq Mine(t, u)
    BY DEF Mine, Only
  <2>2. IsFiniteSet(Mine(t, u))
    BY MineFinite
  <2>3. /\ Cardinality(Mine(Only(t, K), u)) <= Cardinality(Mine(t, u))
        /\ Cardinality(Mine(t, u)) \in Nat
        /\ Cardinality(Mine(Only(t, K), u)) \in Nat
    BY <2>1, <2>2, FS_Subset, FS_CardinalityType
  <2> QED BY <2>3, MaxPerUserAssumption DEF BoundOK
<1> QED BY <1>1 DEF BoundOK

\* _prune_locked leaves a good table good and adds no row.
LEMMA PrunedDomain ==
    ASSUME NEW t
    PROVE  /\ DOMAIN Pruned(t) \subseteq DOMAIN t
           /\ \A s \in DOMAIN Pruned(t) :
                 Pruned(t)[s] \in {t[s], [t[s] EXCEPT !.successor = NoToken]}
  BY DEF Pruned

LEMMA PrunedOK ==
    ASSUME NEW t, NEW n \in Nat, NEW ch, now \in Nat, TableOK(t, now, n, ch)
    PROVE  TableOK(Pruned(t), now, n, ch)
<1>1. ASSUME NEW s \in DOMAIN Pruned(t) PROVE RowOK(Pruned(t)[s], s, now, n, ch)
  <2>1. s \in DOMAIN t /\ RowOK(t[s], s, now, n, ch)
    BY PrunedDomain DEF TableOK
  <2>2. CASE t[s].prev # NoToken /\ ~InGrace(t[s])
    <3>1. Pruned(t)[s] = [t[s] EXCEPT !.successor = NoToken]
      BY <2>2 DEF Pruned
    <3> QED BY <2>1, <2>2, <3>1 DEF RowOK, Row, InGrace, NoToken
  <2>3. CASE ~(t[s].prev # NoToken /\ ~InGrace(t[s]))
    <3>1. Pruned(t)[s] = t[s]
      BY <2>3 DEF Pruned
    <3> QED BY <2>1, <3>1
  <2> QED BY <2>2, <2>3
<1>2. Pruned(t) \in [DOMAIN Pruned(t) -> Row]
  <2>1. \A s \in DOMAIN Pruned(t) : Pruned(t)[s] \in Row
    BY <1>1 DEF RowOK
  <2> QED BY <2>1 DEF Pruned
<1>3. DOMAIN Pruned(t) \subseteq 1..(n - 1)
  BY PrunedDomain DEF TableOK
<1> QED BY <1>1, <1>2, <1>3 DEF TableOK

LEMMA PrunedMine ==
    ASSUME NEW t, NEW u, t \in [DOMAIN t -> Row]
    PROVE  Mine(Pruned(t), u) \subseteq Mine(t, u)
<1>1. ASSUME NEW s \in DOMAIN Pruned(t) PROVE s \in DOMAIN t /\ Pruned(t)[s].user = t[s].user
  <2>1. s \in DOMAIN t /\ Pruned(t)[s] \in {t[s], [t[s] EXCEPT !.successor = NoToken]}
    BY PrunedDomain
  <2>2. t[s] \in Row
    BY <2>1
  <2> QED BY <2>1, <2>2 DEF Row
<1> QED BY <1>1 DEF Mine

LEMMA PrunedBound ==
    ASSUME NEW t, NEW n \in Nat, NEW ch, NEW clock, TableOK(t, clock, n, ch), BoundOK(t)
    PROVE  BoundOK(Pruned(t))
<1>1. ASSUME NEW u \in Users PROVE Cardinality(Mine(Pruned(t), u)) <= MaxPerUser
  <2>1. Mine(Pruned(t), u) \subseteq Mine(t, u)
    BY PrunedMine DEF TableOK
  <2>2. IsFiniteSet(Mine(t, u))
    BY MineFinite DEF TableOK
  <2>3. /\ Cardinality(Mine(Pruned(t), u)) <= Cardinality(Mine(t, u))
        /\ Cardinality(Mine(t, u)) \in Nat
        /\ Cardinality(Mine(Pruned(t), u)) \in Nat
    BY <2>1, <2>2, FS_Subset, FS_CardinalityType
  <2> QED BY <2>3, MaxPerUserAssumption DEF BoundOK
<1> QED BY <1>1 DEF BoundOK

\* What eviction keeps of a user's rows is within the limit.
LEMMA SurplusBound ==
    ASSUME NEW t, NEW n \in Nat, DOMAIN t \subseteq 1..(n - 1),
           NEW u, NEW D, IsSurplus(t, u, D)
    PROVE  Cardinality(Mine(t, u) \ D) <= MaxPerUser
<1>1. IsFiniteSet(Mine(t, u)) /\ D \subseteq Mine(t, u)
  BY MineFinite DEF IsSurplus
<1>2. /\ Cardinality(Mine(t, u)) \in Nat
      /\ IsFiniteSet(D) /\ Cardinality(D) \in Nat
  BY <1>1, FS_Subset, FS_CardinalityType
<1>3. Cardinality(Mine(t, u) \ D) = Cardinality(Mine(t, u)) - Cardinality(D)
  <2>1. Mine(t, u) \cap D = D
    BY <1>1
  <2> QED BY <1>1, <2>1, FS_Difference
<1>4. CASE Cardinality(Mine(t, u)) > MaxPerUser
  BY <1>2, <1>3, <1>4, MaxPerUserAssumption DEF IsSurplus
<1>5. CASE ~(Cardinality(Mine(t, u)) > MaxPerUser)
  <2>1. Mine(t, u) \ D = Mine(t, u)
    BY <1>5 DEF IsSurplus
  <2> QED BY <1>2, <1>5, <2>1, MaxPerUserAssumption
<1> QED BY <1>4, <1>5

\* The row create() inserts, and the row rotate() rewrites, are good once the
\* next token counts as issued for that session.
LEMMA InsertedOK ==
    ASSUME TypeOK, TableOK(table, now, nextToken, chain), NEW u \in Users,
           NEW ch, \A tok \in 1..(nextToken - 1) : ch[tok] = chain[tok],
           ch[nextToken] = nextToken
    PROVE  TableOK(Inserted(u), now, nextToken + 1, ch)
<1> USE DEF TypeOK
<1>0. TableOK(table, now, nextToken + 1, ch)
  BY TableOKPersists
<1>1. DOMAIN Inserted(u) = DOMAIN table \cup {nextToken}
  BY DEF Inserted
<1>2. ASSUME NEW s \in DOMAIN Inserted(u)
      PROVE  RowOK(Inserted(u)[s], s, now, nextToken + 1, ch)
  <2>1. CASE s = nextToken
    <3>1. Inserted(u)[s] = NewRow(u, nextToken)
      BY <2>1 DEF Inserted
    <3> QED BY <2>1, <3>1, WindowAssumption DEF NewRow, RowOK, Row, NoToken
  <2>2. CASE s # nextToken
    <3>1. s \in DOMAIN table /\ Inserted(u)[s] = table[s]
      BY <1>1, <2>2 DEF Inserted
    <3> QED BY <1>0, <3>1 DEF TableOK
  <2> QED BY <2>1, <2>2
<1>3. Inserted(u) \in [DOMAIN Inserted(u) -> Row]
  <2>1. \A s \in DOMAIN Inserted(u) : Inserted(u)[s] \in Row
    BY <1>2 DEF RowOK
  <2> QED BY <2>1 DEF Inserted
<1>4. DOMAIN Inserted(u) \subseteq 1..(nextToken + 1 - 1)
  BY <1>1
<1> QED BY <1>2, <1>3, <1>4 DEF TableOK

LEMMA RotatedOK ==
    ASSUME TypeOK, TableOK(table, now, nextToken, chain), NEW s \in DOMAIN table,
           NEW ch, \A tok \in 1..(nextToken - 1) : ch[tok] = chain[tok],
           ch[nextToken] = s
    PROVE  TableOK(Rotated(s), now, nextToken + 1, ch)
<1> USE DEF TypeOK
<1>0. TableOK(table, now, nextToken + 1, ch)
  BY TableOKPersists
<1>1. DOMAIN Rotated(s) = DOMAIN table
  BY DEF Rotated
<1>2. ASSUME NEW x \in DOMAIN table
      PROVE  RowOK(Rotated(s)[x], x, now, nextToken + 1, ch)
  <2>0. RowOK(table[x], x, now, nextToken + 1, ch)
    BY <1>0 DEF TableOK
  <2>1. CASE x = s
    <3> DEFINE r == table[x]
               r2 == RotatedRow(r)
    <3>1. Rotated(s)[x] = r2
      BY <2>1 DEF Rotated
    <3>2. r \in Row /\ r.current \in 1..(nextToken - 1) /\ chain[r.current] = x
      BY DEF TableOK, RowOK
    <3>3. /\ r2 \in Row
          /\ r2.current = nextToken /\ r2.prev = r.current
          /\ r2.lastUsed = now /\ r2.rotatedAt = now /\ r2.successor = nextToken
      BY <3>2 DEF RotatedRow, Row
    <3> QED BY <2>1, <3>1, <3>2, <3>3 DEF RowOK, NoToken
  <2>2. CASE x # s
    BY <2>0, <2>2 DEF Rotated
  <2> QED BY <2>1, <2>2
<1>3. Rotated(s) \in [DOMAIN Rotated(s) -> Row]
  <2>1. \A x \in DOMAIN table : Rotated(s)[x] \in Row
    BY <1>2 DEF RowOK
  <2> QED BY <2>1, <1>1 DEF Rotated
<1> QED BY <1>0, <1>1, <1>2, <1>3 DEF TableOK

\* Rotation changes nobody's number of sessions.
LEMMA RotatedBound ==
    ASSUME TypeOK, BoundOK(table), NEW s \in DOMAIN table
    PROVE  BoundOK(Rotated(s))
<1>1. ASSUME NEW x \in DOMAIN table PROVE Rotated(s)[x].user = table[x].user
  <2>1. table[x] \in Row
    BY DEF TypeOK
  <2> QED BY <2>1 DEF Rotated, RotatedRow, Row
<1>2. ASSUME NEW u PROVE Mine(Rotated(s), u) = Mine(table, u)
  <2>1. DOMAIN Rotated(s) = DOMAIN table
    BY DEF Rotated
  <2> QED BY <1>1, <2>1 DEF Mine
<1> QED BY <1>2 DEF BoundOK

\* Evicting u's surplus from t leaves everybody within the limit, when t has no
\* row of another user that the bounded table b had not.
LEMMA KeptBound ==
    ASSUME NEW t, NEW u \in Users, NEW D, NEW n \in Nat, DOMAIN t \subseteq 1..(n - 1),
           IsSurplus(t, u, D),
           NEW b, NEW m \in Nat, DOMAIN b \subseteq 1..(m - 1), BoundOK(b),
           \A v \in Users \ {u} : Mine(t, v) \subseteq Mine(b, v)
    PROVE  BoundOK(Without(t, D))
<1>1. Cardinality(Mine(Without(t, D), u)) <= MaxPerUser
  <2>1. Mine(Without(t, D), u) = Mine(t, u) \ D
    BY DEF Without, Only, Mine
  <2> QED BY <2>1, SurplusBound
<1>2. ASSUME NEW v \in Users \ {u} PROVE Cardinality(Mine(Without(t, D), v)) <= MaxPerUser
  <2>1. Mine(Without(t, D), v) \subseteq Mine(t, v)
    BY DEF Without, Only, Mine
  <2>2. Mine(Without(t, D), v) \subseteq Mine(b, v) /\ IsFiniteSet(Mine(b, v))
    BY <2>1, MineFinite
  <2>3. /\ Cardinality(Mine(Without(t, D), v)) <= Cardinality(Mine(b, v))
        /\ Cardinality(Mine(b, v)) \in Nat
        /\ Cardinality(Mine(Without(t, D), v)) \in Nat
    BY <2>2, FS_Subset, FS_CardinalityType
  <2> QED BY <2>3, MaxPerUserAssumption DEF BoundOK
<1> QED BY <1>1, <1>2 DEF BoundOK

\* create() leaves the table good and everybody within the limit.
LEMMA CreatedOK ==
    ASSUME TypeOK, BoundOK(table), TableOK(table, now, nextToken, chain),
           NEW u \in Users, NEW D, IsSurplus(Pruned(Inserted(u)), u, D),
           NEW ch, \A tok \in 1..(nextToken - 1) : ch[tok] = chain[tok],
           ch[nextToken] = nextToken
    PROVE  /\ TableOK(Without(Pruned(Inserted(u)), D), now, nextToken + 1, ch)
           /\ BoundOK(Without(Pruned(Inserted(u)), D))
<1>0. now \in Nat /\ nextToken \in Nat /\ nextToken + 1 \in Nat
      /\ DOMAIN table \subseteq 1..(nextToken - 1)
  BY DEF TypeOK
<1>1. TableOK(Inserted(u), now, nextToken + 1, ch)
  BY InsertedOK
<1>2. SUFFICES ASSUME NEW P, P = Pruned(Inserted(u))
      PROVE TableOK(Without(P, D), now, nextToken + 1, ch) /\ BoundOK(Without(P, D))
  OBVIOUS
<1>3. TableOK(P, now, nextToken + 1, ch)
  BY <1>0, <1>1, <1>2, PrunedOK
<1>4. IsSurplus(P, u, D) /\ DOMAIN P \subseteq 1..(nextToken + 1 - 1)
  <2>1. IsSurplus(P, u, D)
    BY <1>2
  <2>2. DOMAIN P \subseteq 1..(nextToken + 1 - 1)
    BY <1>0, <1>3 DEF TableOK
  <2> QED BY <2>1, <2>2
<1>5. TableOK(Without(P, D), now, nextToken + 1, ch)
  BY <1>0, <1>3, OnlyOK DEF Without
<1>6. ASSUME NEW v \in Users \ {u} PROVE Mine(P, v) \subseteq Mine(table, v)
  <2>1. Inserted(u) \in [DOMAIN Inserted(u) -> Row]
    BY <1>1 DEF TableOK
  <2>2. Mine(P, v) \subseteq Mine(Inserted(u), v)
    BY <1>2, <2>1, PrunedMine
  <2>3. Mine(Inserted(u), v) \subseteq Mine(table, v)
    BY DEF Mine, Inserted, NewRow
  <2> QED BY <2>2, <2>3
<1>7. BoundOK(Without(P, D))
  BY <1>0, <1>4, <1>6, KeptBound
<1> QED BY <1>5, <1>7

-----------------------------------------------------------------------------
(* Every step keeps the invariant. *)

\* It is enough that a step leaves the table good, saves it or leaves the file,
\* and lets neither the clock nor the tokens go back.
LEMMA StoredPersists ==
    ASSUME IInv, now' \in Nat, now <= now', nextToken' \in Nat, nextToken <= nextToken',
           \A tok \in 1..(nextToken - 1) : chain'[tok] = chain[tok],
           disk' \in {table', disk},
           TableOK(table', now', nextToken', chain'), BoundOK(table')
    PROVE  Stored'
<1>1. /\ now \in Nat /\ nextToken \in Nat
      /\ TableOK(disk, now, nextToken, chain) /\ BoundOK(disk)
  BY DEF IInv, TypeOK, Stored
<1>2. TableOK(disk, now', nextToken', chain')
  BY <1>1, TableOKPersists
<1> QED BY <1>1, <1>2 DEF Stored

\* A step that only removes rows.
LEMMA RemovalKeeps ==
    ASSUME IInv, NEW K \in SUBSET DOMAIN table, table' = Only(table, K),
           disk' \in {table', disk}, UNCHANGED <<now, nextToken, chain>>
    PROVE  Stored'
<1>1. /\ now \in Nat /\ nextToken \in Nat /\ DOMAIN table \subseteq 1..(nextToken - 1)
      /\ TableOK(table, now, nextToken, chain) /\ BoundOK(table)
  BY DEF IInv, TypeOK, Stored
<1>2. TableOK(Only(table, K), now, nextToken, chain) /\ BoundOK(Only(table, K))
  BY <1>1, OnlyOK, OnlyBound
<1> QED BY <1>1, <1>2, StoredPersists

\* With good tables, what is left of the type invariant.
LEMMA TypeFromStored ==
    ASSUME Stored', now' \in Nat \ {0}, nextToken' \in Nat \ {0},
           held' \subseteq 1..(nextToken' - 1),
           reply' \in [call : Call, token : Nat, answer : Answer, given : Nat],
           chain' \in [1..(nextToken' - 1) -> 1..(nextToken' - 1)],
           ended' \subseteq 1..(nextToken' - 1)
    PROVE  IInv'
  BY DEF IInv, Stored, TypeOK, TableOK

\* Answering keeps the types of reply and held.
LEMMA SaveTypes ==
    ASSUME NEW call \in Call, NEW tok \in Nat, NEW answer \in Answer, NEW given \in Nat,
           Save(call, tok, answer, given)
    PROVE  /\ reply' \in [call : Call, token : Nat, answer : Answer, given : Nat]
           /\ held' \subseteq held \cup ({given} \ {NoToken})
           /\ disk' \in {table', disk}
           /\ reply'.answer \in {answer, "raised"}
  BY DEF Save, Call, Answer, NoToken

LEMMA ReturnTypes ==
    ASSUME NEW call \in Call, NEW tok \in Nat, NEW answer \in Answer, NEW given \in Nat,
           Return(call, tok, answer, given)
    PROVE  /\ reply' \in [call : Call, token : Nat, answer : Answer, given : Nat]
           /\ held' = held \cup ({given} \ {NoToken})
  BY DEF Return

LEMMA IssuesTypes ==
    ASSUME TypeOK, NEW s \in 1..nextToken, Issues(s)
    PROVE  /\ chain' \in [1..nextToken -> 1..nextToken]
           /\ \A tok \in 1..(nextToken - 1) : chain'[tok] = chain[tok]
           /\ chain'[nextToken] = s
           /\ ended' = ended
  BY DEF Issues, TypeOK

\* A step that only answers.
LEMMA AnswerKeeps ==
    ASSUME IInv, UNCHANGED <<table, disk, now, nextToken, history>>,
           held' \subseteq 1..(nextToken - 1),
           reply' \in [call : Call, token : Nat, answer : Answer, given : Nat]
    PROVE  IInv'
<1>1. /\ now \in Nat \ {0} /\ nextToken \in Nat \ {0}
      /\ ended \subseteq 1..(nextToken - 1)
      /\ chain \in [1..(nextToken - 1) -> 1..(nextToken - 1)]
      /\ TableOK(table, now, nextToken, chain) /\ BoundOK(table)
  BY DEF IInv, TypeOK, Stored
<1>2. UNCHANGED <<table, disk, now, nextToken, chain, ended>>
  BY DEF history
<1>3. Stored'
  BY <1>1, <1>2, StoredPersists
<1> QED BY <1>1, <1>2, <1>3, TypeFromStored

LEMMA CreateKeeps ==
    ASSUME IInv, NEW u \in Users, Create(u)
    PROVE  IInv'
<1>0. /\ TypeOK /\ Stored
      /\ now \in Nat \ {0} /\ nextToken \in Nat \ {0} /\ held \subseteq 1..(nextToken - 1)
      /\ ended \subseteq 1..(nextToken - 1)
  BY DEF IInv, TypeOK
<1>1. Issues(nextToken) /\ nextToken' = nextToken + 1 /\ now' = now
  BY DEF Create
<1>2. /\ chain' \in [1..nextToken -> 1..nextToken]
      /\ \A tok \in 1..(nextToken - 1) : chain'[tok] = chain[tok]
      /\ chain'[nextToken] = nextToken
      /\ ended' = ended
  BY <1>0, <1>1, IssuesTypes
<1>3. PICK D : /\ IsSurplus(Pruned(Inserted(u)), u, D)
               /\ table' = Without(Pruned(Inserted(u)), D)
  BY DEF Create
<1>4. TableOK(table', now, nextToken + 1, chain') /\ BoundOK(table')
  BY <1>0, <1>2, <1>3, CreatedOK DEF Stored
<1>5. /\ reply' \in [call : Call, token : Nat, answer : Answer, given : Nat]
      /\ held' \subseteq held \cup ({nextToken} \ {NoToken})
      /\ disk' \in {table', disk}
  <2>1. Save("create", NoToken, "ok", nextToken)
    BY DEF Create
  <2>2. "create" \in Call /\ "ok" \in Answer /\ NoToken \in Nat
    BY DEF Call, Answer, NoToken
  <2> QED BY <1>0, <2>1, <2>2, SaveTypes
<1>6. Stored'
  BY <1>0, <1>1, <1>2, <1>4, <1>5, StoredPersists
<1> QED BY <1>0, <1>1, <1>2, <1>5, <1>6, TypeFromStored

LEMMA RotateCurrentKeeps ==
    ASSUME IInv, NEW tok \in held, RotateCurrent(tok)
    PROVE  IInv'
<1>0. /\ TypeOK /\ Stored
      /\ now \in Nat \ {0} /\ nextToken \in Nat \ {0} /\ held \subseteq 1..(nextToken - 1)
      /\ ended \subseteq 1..(nextToken - 1) /\ DOMAIN table \subseteq 1..(nextToken - 1)
  BY DEF IInv, TypeOK
<1>1. PICK s \in Matches(table, tok) : table' = Pruned(Rotated(s)) /\ Issues(s)
  BY DEF RotateCurrent
<1>2. s \in DOMAIN table /\ nextToken' = nextToken + 1 /\ now' = now
  BY DEF RotateCurrent, Matches
<1>8. s \in 1..nextToken /\ nextToken' - 1 = nextToken
  BY <1>0, <1>2
<1>3. /\ chain' \in [1..nextToken -> 1..nextToken]
      /\ \A x \in 1..(nextToken - 1) : chain'[x] = chain[x]
      /\ chain'[nextToken] = s
      /\ ended' = ended
  BY <1>0, <1>1, <1>8, IssuesTypes
<1>4. TableOK(Rotated(s), now, nextToken + 1, chain') /\ BoundOK(Rotated(s))
  BY <1>0, <1>2, <1>3, RotatedOK, RotatedBound DEF Stored
<1>5. TableOK(table', now, nextToken + 1, chain') /\ BoundOK(table')
  BY <1>0, <1>1, <1>4, PrunedOK, PrunedBound
<1>6. /\ reply' \in [call : Call, token : Nat, answer : Answer, given : Nat]
      /\ held' \subseteq held \cup ({nextToken} \ {NoToken})
      /\ disk' \in {table', disk}
  <2>1. Save("rotate", tok, "ok", nextToken)
    BY DEF RotateCurrent
  <2>2. "rotate" \in Call /\ "ok" \in Answer /\ tok \in Nat
    BY <1>0 DEF Call, Answer
  <2> QED BY <1>0, <2>1, <2>2, SaveTypes
<1>7. Stored'
  BY <1>0, <1>2, <1>3, <1>5, <1>6, StoredPersists
<1>9. chain' \in [1..(nextToken' - 1) -> 1..(nextToken' - 1)]
  BY <1>3, <1>8
<1>10. /\ held' \subseteq 1..(nextToken' - 1) /\ ended' \subseteq 1..(nextToken' - 1)
       /\ now' \in Nat \ {0} /\ nextToken' \in Nat \ {0}
  <2>1. now' \in Nat \ {0} /\ nextToken' \in Nat \ {0}
    BY <1>0, <1>2
  <2>2. 1..(nextToken - 1) \subseteq 1..nextToken /\ nextToken \in 1..nextToken
    BY <1>0
  <2> QED BY <1>0, <1>3, <1>6, <1>8, <2>1, <2>2
<1> QED BY <1>6, <1>7, <1>9, <1>10, TypeFromStored

LEMMA RotateOthersKeep ==
    ASSUME IInv, NEW tok \in held,
           RotateUnknown(tok) \/ RotateExpired(tok) \/ RotatePredecessor(tok)
    PROVE  IInv'
<1>0. /\ TypeOK /\ Stored
      /\ now \in Nat \ {0} /\ nextToken \in Nat \ {0} /\ held \subseteq 1..(nextToken - 1)
      /\ tok \in Nat
      /\ ended \subseteq 1..(nextToken - 1)
      /\ chain \in [1..(nextToken - 1) -> 1..(nextToken - 1)]
  BY DEF IInv, TypeOK
<1>1. /\ "rotate" \in Call /\ NoToken \in Nat
      /\ "ok" \in Answer /\ "unknown" \in Answer /\ "expired" \in Answer /\ "reuse" \in Answer
  BY DEF Call, Answer, NoToken
<1>2. CASE RotateUnknown(tok)
  <2>1. /\ Return("rotate", NoToken, "unknown", NoToken)
        /\ UNCHANGED <<table, disk, now, nextToken, history>>
    BY <1>2 DEF RotateUnknown
  <2>2. /\ reply' \in [call : Call, token : Nat, answer : Answer, given : Nat]
        /\ held' = held \cup ({NoToken} \ {NoToken})
    BY <1>0, <1>1, <2>1, ReturnTypes
  <2> QED BY <1>0, <2>1, <2>2, AnswerKeeps
<1>3. CASE RotateExpired(tok)
  <2>1. PICK s \in Matches(table, tok) : table' = Without(table, {s})
    BY <1>3 DEF RotateExpired
  <2>2. /\ Save("rotate", NoToken, "expired", NoToken)
        /\ UNCHANGED <<now, nextToken, history>>
    BY <1>3 DEF RotateExpired
  <2>3. /\ reply' \in [call : Call, token : Nat, answer : Answer, given : Nat]
        /\ held' \subseteq held
        /\ disk' \in {table', disk}
    BY <1>0, <1>1, <2>2, SaveTypes
  <2>4. Stored'
    BY <2>1, <2>2, <2>3, RemovalKeeps DEF Without, history
  <2> QED BY <1>0, <2>2, <2>3, <2>4, TypeFromStored DEF history
<1>4. CASE RotatePredecessor(tok)
  <2>1. PICK s \in Matches(table, tok) :
            /\ IF InGrace(table[s]) /\ table[s].successor # NoToken
               THEN Return("rotate", tok, "ok", table[s].successor)
               ELSE Return("rotate", NoToken, "reuse", NoToken)
            /\ UNCHANGED <<table, disk, now, nextToken, history>>
    BY <1>4 DEF RotatePredecessor
  <2>2. RowOK(table[s], s, now, nextToken, chain)
    BY <1>0 DEF Matches, Stored, TableOK
  <2>3. /\ table[s].successor \in Nat
        /\ {table[s].successor} \ {NoToken} \subseteq 1..(nextToken - 1)
    BY <1>0, <2>2 DEF RowOK, Row, NoToken
  <2>4. /\ reply' \in [call : Call, token : Nat, answer : Answer, given : Nat]
        /\ held' \subseteq 1..(nextToken - 1)
    <3>1. CASE InGrace(table[s]) /\ table[s].successor # NoToken
      <4>1. Return("rotate", tok, "ok", table[s].successor)
        BY <2>1, <3>1
      <4>2. /\ reply' \in [call : Call, token : Nat, answer : Answer, given : Nat]
            /\ held' = held \cup ({table[s].successor} \ {NoToken})
        BY <1>0, <1>1, <2>3, <4>1, ReturnTypes
      <4> QED BY <1>0, <2>3, <4>2
    <3>2. CASE ~(InGrace(table[s]) /\ table[s].successor # NoToken)
      <4>1. Return("rotate", NoToken, "reuse", NoToken)
        BY <2>1, <3>2
      <4>2. /\ reply' \in [call : Call, token : Nat, answer : Answer, given : Nat]
            /\ held' = held \cup ({NoToken} \ {NoToken})
        BY <1>0, <1>1, <4>1, ReturnTypes
      <4> QED BY <1>0, <4>2
    <3> QED BY <3>1, <3>2
  <2> QED BY <2>1, <2>4, AnswerKeeps
<1> QED BY <1>2, <1>3, <1>4

\* The three kinds of sign-out remove rows of the table.
LEMMA SignOutKeeps ==
    ASSUME IInv, NEW K \in SUBSET DOMAIN table, table' = Only(table, K),
           NEW call \in Call, NEW tok \in Nat, NEW S \in SUBSET DOMAIN table,
           \/ Save(call, tok, "ok", NoToken)
           \/ Return(call, tok, "ok", NoToken) /\ UNCHANGED disk,
           Ends(S), UNCHANGED <<now, nextToken>>
    PROVE  IInv'
<1>0. /\ now \in Nat \ {0} /\ nextToken \in Nat \ {0} /\ held \subseteq 1..(nextToken - 1)
      /\ ended \subseteq 1..(nextToken - 1)
      /\ chain \in [1..(nextToken - 1) -> 1..(nextToken - 1)]
      /\ S \subseteq 1..(nextToken - 1)
  BY DEF IInv, TypeOK
<1>1. "ok" \in Answer /\ NoToken \in Nat
  BY DEF Answer, NoToken
<1>2. /\ reply' \in [call : Call, token : Nat, answer : Answer, given : Nat]
      /\ held' \subseteq held
      /\ disk' \in {table', disk}
  BY <1>1, SaveTypes, ReturnTypes
<1>3. chain' = chain /\ ended' \subseteq ended \cup S
  BY DEF Ends
<1>4. Stored'
  BY <1>2, <1>3, RemovalKeeps
<1> QED BY <1>0, <1>2, <1>3, <1>4, TypeFromStored

\* A sign-out that finds nothing only says so.
LEMMA SignOutOfNothingKeeps ==
    ASSUME IInv, NEW call \in Call, NEW tok \in Nat, Return(call, tok, "unknown", NoToken),
           UNCHANGED <<table, disk, now, nextToken, history>>
    PROVE  IInv'
<1>1. "unknown" \in Answer /\ NoToken \in Nat
  BY DEF Answer, NoToken
<1>2. /\ reply' \in [call : Call, token : Nat, answer : Answer, given : Nat]
      /\ held' = held \cup ({NoToken} \ {NoToken})
  BY <1>1, ReturnTypes
<1>3. held \subseteq 1..(nextToken - 1)
  BY DEF IInv, TypeOK
<1> QED BY <1>2, <1>3, AnswerKeeps

LEMMA InitIInv == Init => IInv
<1> SUFFICES ASSUME Init PROVE IInv
  OBVIOUS
<1>1. /\ table = NoTable /\ disk = NoTable /\ now = 1 /\ nextToken = 1 /\ held = {}
      /\ chain = NoTable /\ ended = {}
      /\ reply \in [call : Call, token : Nat, answer : Answer, given : Nat]
  BY DEF Init, Call, Answer, NoToken
<1>2. DOMAIN NoTable = {} /\ \A T : NoTable \in [{} -> T]
  BY DEF NoTable
<1>3. TableOK(NoTable, 1, 1, NoTable)
  BY <1>2 DEF TableOK
<1>4. BoundOK(NoTable)
  <2>1. ASSUME NEW u \in Users PROVE Mine(NoTable, u) = {}
    BY <1>2 DEF Mine
  <2> QED BY <2>1, FS_EmptySet, MaxPerUserAssumption DEF BoundOK
<1>5. Stored
  BY <1>1, <1>3, <1>4 DEF Stored
<1>6. 1..(nextToken - 1) = {}
  BY <1>1
<1> QED BY <1>1, <1>2, <1>5, <1>6 DEF IInv, TypeOK

LEMMA StepIInv == IInv /\ [Next]_vars => IInv'
<1> SUFFICES ASSUME IInv, [Next]_vars PROVE IInv'
  OBVIOUS
<1>0. /\ held \subseteq Nat /\ NoToken \in Nat
      /\ {"revoke", "revoke_session", "revoke_all"} \subseteq Call
  BY DEF IInv, TypeOK, NoToken, Call
<1>1. ASSUME NEW u \in Users, Create(u) PROVE IInv'
  BY <1>1, CreateKeeps
<1>2. ASSUME NEW u \in Users, RevokeAll(u) PROVE IInv'
  <2>1. DOMAIN table \ Mine(table, u) \in SUBSET DOMAIN table
    OBVIOUS
  <2>2. Mine(table, u) \in SUBSET DOMAIN table
    BY DEF Mine
  <2>3. /\ table' = Only(table, DOMAIN table \ Mine(table, u))
        /\ \/ Save("revoke_all", NoToken, "ok", NoToken)
           \/ Return("revoke_all", NoToken, "ok", NoToken) /\ UNCHANGED disk
        /\ Ends(Mine(table, u))
        /\ UNCHANGED <<now, nextToken>>
    BY <1>2 DEF RevokeAll, Without
  <2>4. "revoke_all" \in Call
    BY <1>0
  <2> QED BY <1>0, <2>1, <2>2, <2>3, <2>4, SignOutKeeps
<1>3. ASSUME NEW tok \in held, Rotate(tok) PROVE IInv'
  BY <1>3, RotateCurrentKeeps, RotateOthersKeep DEF Rotate
<1>4. ASSUME NEW tok \in held, Revoke(tok) PROVE IInv'
  <2>0. NoToken \in Nat /\ "revoke" \in Call
    BY <1>0
  <2>1. CASE Matches(table, tok) = {}
    <3>1. /\ Return("revoke", NoToken, "unknown", NoToken)
          /\ UNCHANGED <<table, disk, now, nextToken, history>>
      BY <1>4, <2>1 DEF Revoke
    <3> QED BY <2>0, <3>1, SignOutOfNothingKeeps
  <2>2. CASE Matches(table, tok) # {}
    <3>1. PICK s \in Matches(table, tok) :
              /\ table' = Without(table, {s})
              /\ Save("revoke", NoToken, "ok", NoToken)
              /\ Ends({s})
              /\ UNCHANGED <<now, nextToken>>
      BY <1>4, <2>2 DEF Revoke
    <3>2. /\ DOMAIN table \ {s} \in SUBSET DOMAIN table
          /\ table' = Only(table, DOMAIN table \ {s})
          /\ {s} \in SUBSET DOMAIN table
      BY <3>1 DEF Without, Matches
    <3> QED BY <2>0, <3>1, <3>2, SignOutKeeps
  <2> QED BY <2>1, <2>2
<1>5. ASSUME NEW u \in Users, NEW s \in DOMAIN table, RevokeSession(u, s) PROVE IInv'
  <2>0. "revoke_session" \in Call
    BY <1>0
  <2>1. CASE s \notin Mine(table, u)
    <3>1. /\ Return("revoke_session", NoToken, "unknown", NoToken)
          /\ UNCHANGED <<table, disk, now, nextToken, history>>
      BY <1>5, <2>1 DEF RevokeSession
    <3> QED BY <1>0, <2>0, <3>1, SignOutOfNothingKeeps
  <2>2. CASE s \in Mine(table, u)
    <3>1. /\ table' = Only(table, DOMAIN table \ {s})
          /\ Save("revoke_session", NoToken, "ok", NoToken)
          /\ Ends({s})
          /\ UNCHANGED <<now, nextToken>>
      BY <1>5, <2>2 DEF RevokeSession, Without
    <3>2. /\ DOMAIN table \ {s} \in SUBSET DOMAIN table
          /\ {s} \in SUBSET DOMAIN table
      BY <1>5
    <3> QED BY <1>0, <2>0, <3>1, <3>2, SignOutKeeps
  <2> QED BY <2>1, <2>2
<1>6. CASE Restart
  BY <1>6 DEF Restart, IInv, Stored, TypeOK, history
<1>7. CASE Tick
  <2>1. /\ now \in Nat \ {0} /\ nextToken \in Nat \ {0} /\ now' = now + 1
        /\ UNCHANGED <<table, disk, nextToken, held, reply, chain, ended>>
        /\ TypeOK /\ Stored
    BY <1>7 DEF Tick, history, IInv, TypeOK
  <2>2. TableOK(table, now', nextToken, chain) /\ TableOK(disk, now', nextToken, chain)
    BY <2>1, TableOKPersists DEF Stored
  <2> QED BY <2>1, <2>2 DEF IInv, TypeOK, Stored
<1>8. CASE UNCHANGED vars
  BY <1>8 DEF vars, IInv, Stored, TypeOK
<1> QED BY <1>1, <1>2, <1>3, <1>4, <1>5, <1>6, <1>7, <1>8 DEF Next

-----------------------------------------------------------------------------
(* The theorems. *)

\* Every behaviour keeps the inductive invariant.
THEOREM Invariance == Spec => []IInv
  BY InitIInv, StepIInv, PTL DEF Spec

\* Type correctness, for the table, the file and the histories alike.
THEOREM TypeCorrect == Spec => []TypeOK
<1>1. IInv => TypeOK
  BY DEF IInv
<1> QED BY <1>1, Invariance, PTL

\* rotate() and revoke() act on the one session a token was issued for.
THEOREM TokenNamesOneRowAlways == Spec => []TokenNamesOneRow
<1>1. ASSUME IInv PROVE TokenNamesOneRow
  <2>1. ASSUME NEW t, TableOK(t, now, nextToken, chain), NEW tok \in held
        PROVE  Matches(t, tok) \subseteq {chain[tok]}
    <3>1. tok # NoToken
      BY <1>1 DEF IInv, TypeOK, NoToken
    <3> QED BY <2>1, <3>1 DEF Matches, TableOK, RowOK
  <2> QED BY <1>1, <2>1 DEF TokenNamesOneRow, IInv, Stored
<1> QED BY <1>1, Invariance, PTL

\* A double submit within the window is answered with the live chain.
THEOREM GraceHonouredAlways == Spec => []GraceHonoured
<1>1. IInv => GraceHonoured
  BY DEF IInv, Stored, TableOK, RowOK, GraceHonoured, InGrace
<1> QED BY <1>1, Invariance, PTL

\* No account ever holds more sessions than the limit.
THEOREM SessionBoundAlways == Spec => []SessionBound
<1>1. IInv => SessionBound
  BY DEF IInv, Stored, BoundOK, SessionBound
<1> QED BY <1>1, Invariance, PTL

\* Which call an answer names.
LEMMA AnswerNames ==
    ASSUME NEW call, NEW tok, NEW answer, NEW given,
           Save(call, tok, answer, given) \/ Return(call, tok, answer, given)
    PROVE  reply'.call = call /\ reply'.answer \in {answer, "raised"}
  BY DEF Save, Return

LEMMA ActionNames ==
    /\ \A u : Create(u) => reply'.call = "create"
    /\ \A u : RevokeAll(u) => reply'.call = "revoke_all"
    /\ \A tok : Revoke(tok) => reply'.call = "revoke"
    /\ \A u, s : RevokeSession(u, s) => reply'.call = "revoke_session"
    /\ \A tok : Rotate(tok) => reply'.call = "rotate"
    /\ \A tok : RotateUnknown(tok) \/ RotateExpired(tok) => reply'.answer # "ok"
    /\ Restart \/ Tick \/ UNCHANGED vars => reply' = reply
<1>1. ASSUME NEW u, Create(u) PROVE reply'.call = "create"
  <2>1. Save("create", NoToken, "ok", nextToken)
    BY <1>1 DEF Create
  <2> QED BY <2>1, AnswerNames
<1>2. ASSUME NEW u, RevokeAll(u) PROVE reply'.call = "revoke_all"
  <2>1. \/ Save("revoke_all", NoToken, "ok", NoToken)
        \/ Return("revoke_all", NoToken, "ok", NoToken)
    BY <1>2 DEF RevokeAll
  <2> QED BY <2>1, AnswerNames
<1>3. ASSUME NEW tok, Revoke(tok) PROVE reply'.call = "revoke"
  <2>1. \/ Save("revoke", NoToken, "ok", NoToken)
        \/ Return("revoke", NoToken, "unknown", NoToken)
    BY <1>3 DEF Revoke
  <2> QED BY <2>1, AnswerNames
<1>4. ASSUME NEW u, NEW s, RevokeSession(u, s) PROVE reply'.call = "revoke_session"
  <2>1. \/ Save("revoke_session", NoToken, "ok", NoToken)
        \/ Return("revoke_session", NoToken, "unknown", NoToken)
    BY <1>4 DEF RevokeSession
  <2> QED BY <2>1, AnswerNames
<1>5. ASSUME NEW tok, RotateUnknown(tok) \/ RotateExpired(tok)
      PROVE  reply'.call = "rotate" /\ reply'.answer # "ok"
  <2>1. \/ Return("rotate", NoToken, "unknown", NoToken)
        \/ Save("rotate", NoToken, "expired", NoToken)
    BY <1>5 DEF RotateUnknown, RotateExpired
  <2>2. CASE Return("rotate", NoToken, "unknown", NoToken)
    BY <2>2, AnswerNames
  <2>3. CASE Save("rotate", NoToken, "expired", NoToken)
    BY <2>3, AnswerNames
  <2> QED BY <2>1, <2>2, <2>3
<1>6. ASSUME NEW tok, RotatePredecessor(tok) \/ RotateCurrent(tok) PROVE reply'.call = "rotate"
  <2>1. \/ Save("rotate", tok, "ok", nextToken)
        \/ Return("rotate", NoToken, "reuse", NoToken)
        \/ \E given : Return("rotate", tok, "ok", given)
    BY <1>6 DEF RotatePredecessor, RotateCurrent
  <2> QED BY <2>1, AnswerNames
<1>7. Restart \/ Tick \/ UNCHANGED vars => reply' = reply
  BY DEF Restart, Tick, vars
<1> QED BY <1>1, <1>2, <1>3, <1>4, <1>5, <1>6, <1>7 DEF Rotate

\* A row that is alive is kept by _prune_locked, tokens and all.
LEMMA PrunedKeeps ==
    ASSUME NEW t, NEW s \in DOMAIN t, t[s] \in Row, t[s].expires > now
    PROVE  /\ s \in DOMAIN Pruned(t)
           /\ Pruned(t)[s].current = t[s].current
           /\ Pruned(t)[s].prev = t[s].prev
  BY DEF Pruned, Row

\* What rotate() gives out is the session's current token, and the token it was
\* given for is the direct predecessor: two tabs share one chain.
THEOREM ChainNeverForksAlways == Spec => ChainNeverForks
<1> DEFINE Shares == reply' # reply /\ reply'.call = "rotate" /\ reply'.answer = "ok"
               => \E s \in DOMAIN table' : /\ table'[s].current = reply'.given
                                          /\ table'[s].prev = reply'.token
<1>1. ASSUME IInv, [Next]_vars PROVE [Shares]_vars
  <2> SUFFICES ASSUME reply' # reply, reply'.call = "rotate", reply'.answer = "ok"
      PROVE  \E s \in DOMAIN table' : /\ table'[s].current = reply'.given
                                     /\ table'[s].prev = reply'.token
    OBVIOUS
  <2>1. PICK tok \in held : RotatePredecessor(tok) \/ RotateCurrent(tok)
    <3>1. "rotate" \notin {"create", "revoke", "revoke_session", "revoke_all"}
      OBVIOUS
    <3> QED BY <1>1, <3>1, ActionNames DEF Next, Rotate
  <2>2. tok # NoToken /\ TableOK(table, now, nextToken, chain)
    BY <1>1 DEF IInv, TypeOK, Stored, NoToken
  <2>3. CASE RotatePredecessor(tok)
    <3>1. PICK s \in Matches(table, tok) :
              /\ tok # table[s].current
              /\ IF InGrace(table[s]) /\ table[s].successor # NoToken
                 THEN Return("rotate", tok, "ok", table[s].successor)
                 ELSE Return("rotate", NoToken, "reuse", NoToken)
              /\ table' = table
      BY <2>3 DEF RotatePredecessor
    <3>2. /\ reply'.given = table[s].successor /\ reply'.token = tok
          /\ table[s].successor # NoToken
      BY <3>1 DEF Return
    <3>3. RowOK(table[s], s, now, nextToken, chain) /\ s \in DOMAIN table
      BY <2>2 DEF TableOK, Matches
    <3>4. table[s].successor = table[s].current /\ table[s].prev = tok
      BY <3>1, <3>2, <3>3 DEF RowOK, Matches
    <3> QED BY <3>1, <3>2, <3>3, <3>4
  <2>4. CASE RotateCurrent(tok)
    <3>1. PICK s \in Matches(table, tok) : /\ table[s].expires > now
                                          /\ tok = table[s].current
                                          /\ table' = Pruned(Rotated(s))
      BY <2>4 DEF RotateCurrent
    <3>2. reply'.given = nextToken /\ reply'.token = tok
      BY <2>4 DEF RotateCurrent, Save
    <3>3. s \in DOMAIN table /\ table[s] \in Row /\ nextToken \in Nat
      BY <1>1 DEF Matches, IInv, TypeOK
    <3>4. s \in DOMAIN Rotated(s) /\ Rotated(s)[s] = RotatedRow(table[s])
      BY <3>3 DEF Rotated
    <3>5. /\ RotatedRow(table[s]) \in Row
          /\ RotatedRow(table[s]).expires = table[s].expires
          /\ RotatedRow(table[s]).current = nextToken
          /\ RotatedRow(table[s]).prev = table[s].current
      BY <1>1, <3>3 DEF RotatedRow, Row, IInv, TypeOK
    <3>6. /\ s \in DOMAIN table'
          /\ table'[s].current = nextToken /\ table'[s].prev = table[s].current
      BY <3>1, <3>4, <3>5, PrunedKeeps
    <3> QED BY <3>1, <3>2, <3>6
  <2> QED BY <2>1, <2>3, <2>4
<1> QED BY <1>1, Invariance, PTL DEF Spec, ChainNeverForks

\* The session create() opens outlives its own eviction: however many others
\* were used in the same instant, some other row is dropped first.
THEOREM CreatedIsLiveAlways == Spec => CreatedIsLive
<1> DEFINE Lives == reply' # reply /\ reply'.call = "create" /\ reply'.answer = "ok"
               => \E s \in DOMAIN table' : table'[s].current = reply'.given
<1>1. ASSUME IInv, [Next]_vars PROVE [Lives]_vars
  <2> SUFFICES ASSUME reply' # reply, reply'.call = "create", reply'.answer = "ok"
      PROVE  \E s \in DOMAIN table' : table'[s].current = reply'.given
    OBVIOUS
  <2>1. PICK u \in Users : Create(u)
    <3>1. "create" \notin {"rotate", "revoke", "revoke_session", "revoke_all"}
      OBVIOUS
    <3> QED BY <1>1, <3>1, ActionNames DEF Next
  <2>2. SUFFICES ASSUME NEW P, P = Pruned(Inserted(u)), NEW D,
                        IsSurplus(P, u, D), table' = Without(P, D)
        PROVE  \E s \in DOMAIN table' : table'[s].current = reply'.given
    BY <2>1 DEF Create
  <2>3. reply'.given = nextToken
    BY <2>1 DEF Create, Save
  <2>4. /\ now \in Nat /\ nextToken \in Nat \ {0} /\ DOMAIN table \subseteq 1..(nextToken - 1)
        /\ TableOK(table, now, nextToken, chain)
    BY <1>1 DEF IInv, TypeOK, Stored
  <2>5. /\ nextToken \in DOMAIN Inserted(u)
        /\ Inserted(u)[nextToken] = NewRow(u, nextToken)
        /\ NewRow(u, nextToken) \in Row
        /\ NewRow(u, nextToken).expires > now
    BY <2>4, WindowAssumption DEF Inserted, NewRow, Row, NoToken
  <2>6. nextToken \in DOMAIN P /\ P[nextToken].current = nextToken
    BY <2>2, <2>5, PrunedKeeps DEF NewRow
  <2>7. P[nextToken].lastUsed = now
    <3>1. P[nextToken] \in {Inserted(u)[nextToken],
                           [Inserted(u)[nextToken] EXCEPT !.successor = NoToken]}
      BY <2>2, <2>6, PrunedDomain
    <3> QED BY <2>5, <3>1 DEF NewRow
  <2>8. ASSUME NEW k \in DOMAIN P, k # nextToken
        PROVE  k < nextToken /\ P[k].lastUsed <= now /\ P[k].lastUsed \in Nat
    <3>1. /\ k \in DOMAIN Inserted(u)
          /\ P[k] \in {Inserted(u)[k], [Inserted(u)[k] EXCEPT !.successor = NoToken]}
      BY <2>2, PrunedDomain
    <3>2. k \in DOMAIN table /\ Inserted(u)[k] = table[k]
      BY <2>8, <3>1 DEF Inserted
    <3>3. RowOK(table[k], k, now, nextToken, chain)
      BY <2>4, <3>2 DEF TableOK
    <3>4. P[k].lastUsed = table[k].lastUsed
      BY <3>1, <3>2, <3>3 DEF RowOK, Row
    <3> QED BY <2>4, <3>2, <3>3, <3>4 DEF RowOK, Row
  <2>9. nextToken \notin D
    <3>1. SUFFICES ASSUME nextToken \in D PROVE FALSE
      OBVIOUS
    <3>2. DOMAIN P \subseteq 1..(nextToken + 1 - 1)
      <4>1. DOMAIN P \subseteq DOMAIN table \cup {nextToken}
        BY <2>2, PrunedDomain DEF Inserted
      <4> QED BY <2>4, <4>1
    <3>3. IsFiniteSet(Mine(P, u)) /\ Cardinality(Mine(P, u)) \in Nat
      <4>1. PICK n \in Nat : DOMAIN P \subseteq 1..(n - 1)
        BY <2>4, <3>2
      <4>2. IsFiniteSet(Mine(P, u))
        BY <4>1, MineFinite
      <4> QED BY <4>2, FS_CardinalityType
    <3>4. D \subseteq Mine(P, u) /\ D # Mine(P, u)
      <4>1. D # {}
        BY <3>1
      <4>2. Cardinality(Mine(P, u)) > MaxPerUser
            /\ Cardinality(D) = Cardinality(Mine(P, u)) - MaxPerUser
        BY <2>2, <4>1 DEF IsSurplus
      <4>3. Cardinality(D) # Cardinality(Mine(P, u))
        BY <3>3, <4>2, MaxPerUserAssumption
      <4> QED BY <2>2, <4>3 DEF IsSurplus
    <3>5. PICK k \in Mine(P, u) : k \notin D
      BY <3>4
    <3>6. UsedBefore(P, nextToken, k)
      BY <2>2, <3>1, <3>5 DEF IsSurplus
    <3>7. k \in DOMAIN P /\ k # nextToken
      BY <3>1, <3>5 DEF Mine
    <3>8. k < nextToken /\ P[k].lastUsed <= now /\ P[k].lastUsed \in Nat /\ k \in Nat
      BY <2>4, <2>8, <3>2, <3>7
    <3> QED BY <2>4, <2>7, <3>6, <3>8 DEF UsedBefore
  <2> QED BY <2>2, <2>3, <2>6, <2>9 DEF Without, Only
<1> QED BY <1>1, Invariance, PTL DEF Spec, CreatedIsLive

\* What a sign-out ended is in neither the table nor the file, and no step puts
\* it back: whether or not a save fails, the file afterwards is the old one or
\* the table, and a sign-out only counts once its save succeeded.
LEMMA EndedStep ==
    ASSUME IInv, EndedStaysEnded, [Next]_vars
    PROVE  EndedStaysEnded'
<1>0. nextToken \notin ended /\ nextToken \in Nat
  BY DEF IInv, TypeOK
<1>1. ASSUME NEW call, NEW tok, NEW answer, NEW given, Save(call, tok, answer, given)
      PROVE  \/ disk' = table'
             \/ disk' = disk /\ reply'.answer = "raised"
  BY <1>1 DEF Save
<1>2. ASSUME NEW u \in Users, Create(u) PROVE EndedStaysEnded'
  <2>1. DOMAIN table' \subseteq DOMAIN table \cup {nextToken}
    <3>1. DOMAIN Pruned(Inserted(u)) \subseteq DOMAIN table \cup {nextToken}
      BY PrunedDomain DEF Inserted
    <3> QED BY <1>2, <3>1 DEF Create, Without, Only
  <2>2. Save("create", NoToken, "ok", nextToken) /\ Issues(nextToken)
    BY <1>2 DEF Create
  <2> QED BY <1>0, <1>1, <2>1, <2>2 DEF EndedStaysEnded, Issues
<1>3. ASSUME NEW u \in Users, RevokeAll(u) PROVE EndedStaysEnded'
  <2>1. table' = Without(table, Mine(table, u)) /\ Ends(Mine(table, u))
    BY <1>3 DEF RevokeAll
  <2>2. DOMAIN table' = DOMAIN table \ Mine(table, u)
    BY <2>1 DEF Without, Only
  <2>3. CASE Mine(table, u) = {}
    BY <1>3, <2>1, <2>2, <2>3 DEF RevokeAll, Ends, EndedStaysEnded
  <2>4. CASE Mine(table, u) # {}
    <3>1. Save("revoke_all", NoToken, "ok", NoToken)
      BY <1>3, <2>4 DEF RevokeAll
    <3> QED BY <1>1, <2>1, <2>2, <3>1 DEF Ends, EndedStaysEnded
  <2> QED BY <2>3, <2>4
<1>4. ASSUME NEW tok \in held, Rotate(tok) PROVE EndedStaysEnded'
  <2>1. CASE RotateUnknown(tok) \/ RotatePredecessor(tok)
    BY <2>1 DEF RotateUnknown, RotatePredecessor, EndedStaysEnded, history
  <2>2. CASE RotateExpired(tok)
    <3>1. PICK s : table' = Without(table, {s})
      BY <2>2 DEF RotateExpired
    <3>2. Save("rotate", NoToken, "expired", NoToken) /\ ended' = ended
      BY <2>2 DEF RotateExpired, history
    <3>3. DOMAIN table' \subseteq DOMAIN table
      BY <3>1 DEF Without, Only
    <3> QED BY <1>1, <3>2, <3>3 DEF EndedStaysEnded
  <2>3. CASE RotateCurrent(tok)
    <3>1. PICK s : table' = Pruned(Rotated(s)) /\ Issues(s)
      BY <2>3 DEF RotateCurrent
    <3>2. Save("rotate", tok, "ok", nextToken)
      BY <2>3 DEF RotateCurrent
    <3>3. DOMAIN table' \subseteq DOMAIN table
      BY <3>1, PrunedDomain DEF Rotated
    <3> QED BY <1>1, <3>1, <3>2, <3>3 DEF EndedStaysEnded, Issues
  <2> QED BY <1>4, <2>1, <2>2, <2>3 DEF Rotate
<1>5. ASSUME NEW s, NEW call, NEW tok, table' = Without(table, {s}), Ends({s}),
             Save(call, tok, "ok", NoToken)
      PROVE  EndedStaysEnded'
  <2>1. DOMAIN table' = DOMAIN table \ {s}
    BY <1>5 DEF Without, Only
  <2>2. CASE reply'.answer = "raised"
    <3>1. ended' = ended /\ disk' \in {table', disk}
      BY <1>1, <1>5, <2>2 DEF Ends
    <3> QED BY <2>1, <3>1 DEF EndedStaysEnded
  <2>3. CASE reply'.answer # "raised"
    <3>1. ended' = ended \cup {s} /\ disk' = table'
      BY <1>1, <1>5, <2>3 DEF Ends
    <3> QED BY <2>1, <3>1 DEF EndedStaysEnded
  <2> QED BY <2>2, <2>3
<1>6. ASSUME NEW tok \in held, Revoke(tok) PROVE EndedStaysEnded'
  <2>1. CASE Matches(table, tok) = {}
    BY <1>6, <2>1 DEF Revoke, EndedStaysEnded, history
  <2>2. CASE Matches(table, tok) # {}
    <3>1. PICK s : /\ table' = Without(table, {s})
                   /\ Save("revoke", NoToken, "ok", NoToken) /\ Ends({s})
      BY <1>6, <2>2 DEF Revoke
    <3> QED BY <1>5, <3>1
  <2> QED BY <2>1, <2>2
<1>7. ASSUME NEW u \in Users, NEW s \in DOMAIN table, RevokeSession(u, s) PROVE EndedStaysEnded'
  <2>1. CASE s \notin Mine(table, u)
    BY <1>7, <2>1 DEF RevokeSession, EndedStaysEnded, history
  <2>2. CASE s \in Mine(table, u)
    <3>1. /\ table' = Without(table, {s})
          /\ Save("revoke_session", NoToken, "ok", NoToken) /\ Ends({s})
      BY <1>7, <2>2 DEF RevokeSession
    <3> QED BY <1>5, <3>1
  <2> QED BY <2>1, <2>2
<1>8. CASE Restart \/ Tick \/ UNCHANGED vars
  BY <1>8 DEF Restart, Tick, vars, history, EndedStaysEnded
<1> QED BY <1>2, <1>3, <1>4, <1>6, <1>7, <1>8 DEF Next

\* Signing out is for good: no session that a sign-out ended is ever in the table
\* or the file again, whichever saves fail and restarts included.
THEOREM EndedStaysEndedAlways == Spec => []EndedStaysEnded
<1>1. Init => EndedStaysEnded
  BY DEF Init, EndedStaysEnded
<1>2. IInv /\ EndedStaysEnded /\ [Next]_vars => EndedStaysEnded'
  BY EndedStep
<1> QED BY <1>1, <1>2, Invariance, PTL DEF Spec

-----------------------------------------------------------------------------
(* How long a session lasts and whose it is. *)

SameTerms(row, old) == row.expires = old.expires /\ row.user = old.user

\* The table and the file never disagree about it: they may hold different
\* tokens of a session after a failed save, but not different terms.
Agree == \A s \in DOMAIN table \cap DOMAIN disk : SameTerms(table[s], disk[s])

\* Each row of t is one of the table's on the same terms, or a new session's.
FromTable(t) ==
    \A s \in DOMAIN t :
        s # nextToken => s \in DOMAIN table /\ SameTerms(t[s], table[s])

LEMMA OnlyFromTable ==
    ASSUME NEW t, FromTable(t), NEW K \in SUBSET DOMAIN t
    PROVE  FromTable(Only(t, K))
  BY DEF FromTable, Only

LEMMA PrunedFromTable ==
    ASSUME NEW t, FromTable(t), \A s \in DOMAIN t : t[s] \in Row
    PROVE  FromTable(Pruned(t))
<1>1. ASSUME NEW s \in DOMAIN Pruned(t) PROVE s \in DOMAIN t /\ SameTerms(Pruned(t)[s], t[s])
  <2>1. s \in DOMAIN t /\ Pruned(t)[s] \in {t[s], [t[s] EXCEPT !.successor = NoToken]}
    BY PrunedDomain
  <2>2. t[s] \in Row
    BY <2>1
  <2> QED BY <2>1, <2>2 DEF Row, SameTerms
<1> QED BY <1>1 DEF FromTable, SameTerms

\* A row create() inserts is new; a row rotate() rewrites keeps its terms.
LEMMA InsertedFromTable ==
    ASSUME IInv, NEW u \in Users
    PROVE  /\ FromTable(Inserted(u))
           /\ \A s \in DOMAIN Inserted(u) : Inserted(u)[s] \in Row
<1>1. FromTable(Inserted(u))
  BY DEF FromTable, Inserted, SameTerms
<1>2. NewRow(u, nextToken) \in Row
  BY WindowAssumption DEF IInv, TypeOK, NewRow, Row, NoToken
<1> QED BY <1>1, <1>2 DEF Inserted, IInv, TypeOK

LEMMA RotatedFromTable ==
    ASSUME IInv, NEW s \in DOMAIN table
    PROVE  /\ FromTable(Rotated(s))
           /\ \A x \in DOMAIN Rotated(s) : Rotated(s)[x] \in Row
<1>1. table[s] \in Row /\ now \in Nat /\ nextToken \in Nat
  BY DEF IInv, TypeOK
<1>2. RotatedRow(table[s]) \in Row /\ SameTerms(RotatedRow(table[s]), table[s])
  BY <1>1 DEF RotatedRow, Row, SameTerms
<1> QED BY <1>2 DEF Rotated, FromTable, SameTerms, IInv, TypeOK

\* Every call leaves rows of the table on the terms they had, and saves the
\* table or leaves the file.
LEMMA CallsKeepTerms ==
    ASSUME IInv, [Next]_vars, ~Restart
    PROVE  FromTable(table') /\ disk' \in {table', disk}
<1>0. FromTable(table)
  BY DEF FromTable, SameTerms
<1>1. ASSUME NEW call, NEW tok, NEW answer, NEW given, Save(call, tok, answer, given)
      PROVE  disk' \in {table', disk}
  BY <1>1 DEF Save
<1>2. ASSUME NEW K, table' = Without(table, K) PROVE FromTable(table')
  BY <1>0, <1>2, OnlyFromTable DEF Without
<1>3. ASSUME NEW u \in Users, Create(u) PROVE FromTable(table') /\ disk' \in {table', disk}
  <2>1. PICK D : table' = Without(Pruned(Inserted(u)), D)
    BY <1>3 DEF Create
  <2>2. FromTable(Pruned(Inserted(u)))
    BY InsertedFromTable, PrunedFromTable
  <2>3. Save("create", NoToken, "ok", nextToken)
    BY <1>3 DEF Create
  <2> QED BY <1>1, <2>1, <2>2, <2>3, OnlyFromTable DEF Without
<1>4. ASSUME NEW u \in Users, RevokeAll(u) PROVE FromTable(table') /\ disk' \in {table', disk}
  <2>1. table' = Without(table, Mine(table, u))
    BY <1>4 DEF RevokeAll
  <2>2. Save("revoke_all", NoToken, "ok", NoToken) \/ disk' = disk
    BY <1>4 DEF RevokeAll
  <2> QED BY <1>1, <1>2, <2>1, <2>2
<1>5. ASSUME NEW tok \in held, Rotate(tok) PROVE FromTable(table') /\ disk' \in {table', disk}
  <2>1. CASE RotateUnknown(tok) \/ RotatePredecessor(tok)
    BY <1>0, <2>1 DEF RotateUnknown, RotatePredecessor
  <2>2. CASE RotateExpired(tok)
    <3>1. PICK s : table' = Without(table, {s})
      BY <2>2 DEF RotateExpired
    <3>2. Save("rotate", NoToken, "expired", NoToken)
      BY <2>2 DEF RotateExpired
    <3> QED BY <1>1, <1>2, <3>1, <3>2
  <2>3. CASE RotateCurrent(tok)
    <3>1. PICK s \in DOMAIN table : table' = Pruned(Rotated(s))
      BY <2>3 DEF RotateCurrent, Matches
    <3>2. FromTable(Pruned(Rotated(s)))
      BY RotatedFromTable, PrunedFromTable
    <3>3. Save("rotate", tok, "ok", nextToken)
      BY <2>3 DEF RotateCurrent
    <3> QED BY <1>1, <3>1, <3>2, <3>3
  <2> QED BY <1>5, <2>1, <2>2, <2>3 DEF Rotate
<1>6. ASSUME NEW tok \in held, Revoke(tok) PROVE FromTable(table') /\ disk' \in {table', disk}
  <2>1. CASE Matches(table, tok) = {}
    BY <1>0, <1>6, <2>1 DEF Revoke
  <2>2. CASE Matches(table, tok) # {}
    <3>1. PICK s : table' = Without(table, {s}) /\ Save("revoke", NoToken, "ok", NoToken)
      BY <1>6, <2>2 DEF Revoke
    <3> QED BY <1>1, <1>2, <3>1
  <2> QED BY <2>1, <2>2
<1>7. ASSUME NEW u \in Users, NEW s \in DOMAIN table, RevokeSession(u, s)
      PROVE  FromTable(table') /\ disk' \in {table', disk}
  <2>1. CASE s \notin Mine(table, u)
    BY <1>0, <1>7, <2>1 DEF RevokeSession
  <2>2. CASE s \in Mine(table, u)
    <3>1. table' = Without(table, {s}) /\ Save("revoke_session", NoToken, "ok", NoToken)
      BY <1>7, <2>2 DEF RevokeSession
    <3> QED BY <1>1, <1>2, <3>1
  <2> QED BY <2>1, <2>2
<1>8. CASE Tick \/ UNCHANGED vars
  BY <1>0, <1>8 DEF Tick, vars
<1> QED BY <1>3, <1>4, <1>5, <1>6, <1>7, <1>8 DEF Next

\* So the table and the file go on agreeing, and a reload changes no terms.
LEMMA TermsStep ==
    ASSUME IInv, Agree, [Next]_vars
    PROVE  /\ Agree'
           /\ \A s \in DOMAIN table \cap DOMAIN table' : SameTerms(table'[s], table[s])
<1>1. nextToken \notin DOMAIN table /\ nextToken \notin DOMAIN disk
  BY DEF IInv, TypeOK
<1>2. CASE Restart
  BY <1>2 DEF Restart, Agree, SameTerms
<1>3. CASE ~Restart
  <2>1. FromTable(table') /\ disk' \in {table', disk}
    BY <1>3, CallsKeepTerms
  <2>2. \A s \in DOMAIN table \cap DOMAIN table' : SameTerms(table'[s], table[s])
    BY <1>1, <2>1 DEF FromTable
  <2>3. CASE disk' = table'
    BY <2>2, <2>3 DEF Agree, SameTerms
  <2>4. CASE disk' = disk
    <3>1. ASSUME NEW s \in DOMAIN table' \cap DOMAIN disk PROVE SameTerms(table'[s], disk[s])
      <4>1. s \in DOMAIN table /\ SameTerms(table'[s], table[s])
        BY <1>1, <2>1 DEF FromTable
      <4>2. SameTerms(table[s], disk[s])
        BY <4>1 DEF Agree
      <4> QED BY <4>1, <4>2 DEF SameTerms
    <3> QED BY <2>2, <2>4, <3>1 DEF Agree
  <2> QED BY <2>1, <2>2, <2>3, <2>4
<1> QED BY <1>2, <1>3

\* A session ends when its login said it would: neither rotating it, nor a save
\* that failed, nor a restart that brings back an older row of it prolongs it or
\* gives it to another user.
THEOREM UseNeverProlongsAlways == Spec => UseNeverProlongs
<1> DEFINE Kept == \A s \in DOMAIN table \cap DOMAIN table' :
                      /\ table'[s].expires = table[s].expires
                      /\ table'[s].user = table[s].user
<1>1. Init => Agree
  BY DEF Init, Agree, NoTable
<1>2. IInv /\ Agree /\ [Next]_vars => Agree'
  BY TermsStep
<1>3. ASSUME IInv, Agree, [Next]_vars PROVE [Kept]_vars
  <2>1. \A s \in DOMAIN table \cap DOMAIN table' : SameTerms(table'[s], table[s])
    BY <1>3, TermsStep
  <2> QED BY <2>1 DEF SameTerms
<1> QED BY <1>1, <1>2, <1>3, Invariance, PTL DEF Spec, UseNeverProlongs

-----------------------------------------------------------------------------
(* The handlers. *)


\* Where a thread carries a refresh token.
Rotating == {"refresh_user", "refresh_reuse", "refresh_inactive"}

\* Where the handler has already looked at an active account.
Decided == {"login_create", "accept_revoke", "accept_create"}

\* The invariant of one thread t, with the accounts acc and the tokens h handed out.
ThreadOK(t, acc, h) ==
    /\ t \in Worker
    /\ t.pc # "idle" => t.user \in Users
    /\ t.pc \in Rotating => t.token \in h
    /\ t.pc # "idle" /\ acc[t.user].active => t.sawActive
    /\ t.pc \in Decided => t.sawActive
    /\ t.answer = "granted" => t.sawActive

Threads ==
    /\ account \in [Users -> Account]
    /\ links \subseteq Link
    /\ nextLink \in Nat
    /\ worker \in [Workers -> Worker]
    /\ delivered \subseteq held
    /\ \A w \in Workers : ThreadOK(worker[w], account, held)

FlowIInv == IInv /\ Threads

-----------------------------------------------------------------------------
(* What a handler may rely on when a call of the store returns. *)

LEMMA HeldGrows ==
    ASSUME [Next]_vars
    PROVE  held \subseteq held'
<1> USE DEF Save, Return
<1>1. ASSUME NEW u \in Users, Create(u) PROVE held \subseteq held'
  BY <1>1 DEF Create
<1>2. ASSUME NEW u \in Users, RevokeAll(u) PROVE held \subseteq held'
  BY <1>2 DEF RevokeAll
<1>3. ASSUME NEW tok \in held, Rotate(tok) PROVE held \subseteq held'
  BY <1>3 DEF Rotate, RotateUnknown, RotateExpired, RotatePredecessor, RotateCurrent
<1>4. ASSUME NEW tok \in held, Revoke(tok) PROVE held \subseteq held'
  BY <1>4 DEF Revoke
<1>5. ASSUME NEW u \in Users, NEW s \in DOMAIN table, RevokeSession(u, s) PROVE held \subseteq held'
  BY <1>5 DEF RevokeSession
<1>6. CASE Restart \/ Tick \/ UNCHANGED vars
  BY <1>6 DEF Restart, Tick, vars
<1> QED BY <1>1, <1>2, <1>3, <1>4, <1>5, <1>6 DEF Next

\* A presented token that a row matches belongs to that row's user, who exists.
LEMMA OwnerOfToken ==
    ASSUME IInv, NEW tok \in held, Matches(table, tok) # {}
    PROVE  table[chain[tok]].user \in Users
<1>1. PICK s \in DOMAIN table : tok \in {table[s].current, table[s].prev}
  BY DEF Matches
<1>2. RowOK(table[s], s, now, nextToken, chain) /\ tok # NoToken
  BY DEF IInv, TypeOK, Stored, TableOK, NoToken
<1>3. chain[tok] = s /\ table[s] \in Row
  BY <1>1, <1>2 DEF RowOK
<1> QED BY <1>3 DEF Row

\* create() gives out a token the client then holds, unless it raises ...
LEMMA CreateGives ==
    ASSUME IInv, NEW u, Create(u), ~Raised
    PROVE  reply'.given \in held'
<1>1. nextToken # NoToken
  BY DEF IInv, TypeOK, NoToken
<1>2. Save("create", NoToken, "ok", nextToken)
  BY DEF Create
<1> QED BY <1>1, <1>2 DEF Save, Raised

\* ... and so does rotate() when it answers; it only answers or finds a reuse when
\* it knows the token.
LEMMA RotateGives ==
    ASSUME IInv, NEW tok \in held, Rotate(tok), reply'.answer \in {"ok", "reuse"}
    PROVE  /\ Matches(table, tok) # {}
           /\ reply'.answer = "ok" => reply'.given \in held'
<1>1. nextToken # NoToken
  BY DEF IInv, TypeOK, NoToken
<1>2. ~RotateUnknown(tok)
  BY DEF RotateUnknown, Return
<1>3. ~RotateExpired(tok)
  BY DEF RotateExpired, Save
<1>4. CASE RotatePredecessor(tok)
  BY <1>4 DEF RotatePredecessor, Return
<1>5. CASE RotateCurrent(tok)
  <2>1. Matches(table, tok) # {} /\ Save("rotate", tok, "ok", nextToken)
    BY <1>5 DEF RotateCurrent
  <2> QED BY <1>1, <2>1 DEF Save
<1> QED BY <1>2, <1>3, <1>4, <1>5 DEF Rotate

-----------------------------------------------------------------------------
(* The store is only ever used as Sessions allows. *)

\* A thread at work has a user to work for.
LEMMA AtWork ==
    ASSUME Threads, NEW w \in Workers, Step(w)
    PROVE  User(w) \in Users /\ ~At(w, "idle")
<1>1. ~At(w, "idle")
  BY DEF Step, At, LoginCreate, RefreshUser, RefreshRevoke, ForgotIssue, AcceptReset, AcceptTooShort,
     AcceptUser, AcceptRevoke, AcceptCreate, DeactivateRevoke, DeactivateLinks
<1>2. ThreadOK(worker[w], account, held)
  BY DEF Threads
<1> QED BY <1>1, <1>2 DEF ThreadOK, At, User

LEMMA StoreUse ==
    ASSUME FlowIInv, [FlowNext]_flowVars
    PROVE  [Next]_vars
<1>1. ASSUME NEW w \in Workers, Step(w) PROVE [Next]_vars
  <2>1. /\ User(w) \in Users
        /\ worker[w].pc \in Rotating => worker[w].token \in held
    BY <1>1, AtWork DEF FlowIInv, Threads, ThreadOK
  <2>2. CASE LoginCreate(w) \/ AcceptCreate(w)
    <3>1. Create(User(w))
      BY <2>2 DEF LoginCreate, AcceptCreate
    <3> QED BY <2>1, <3>1 DEF Next
  <2>3. CASE AcceptRevoke(w) \/ DeactivateRevoke(w)
    <3>1. RevokeAll(User(w))
      BY <2>3 DEF AcceptRevoke, DeactivateRevoke
    <3> QED BY <2>1, <3>1 DEF Next
  <2>4. CASE RefreshRevoke(w)
    <3>1. Revoke(worker[w].token) /\ worker[w].token \in held
      BY <2>1, <2>4 DEF RefreshRevoke, At, Rotating
    <3> QED BY <3>1 DEF Next
  <2>5. CASE \/ RefreshUser(w) \/ ForgotIssue(w) \/ AcceptReset(w) \/ AcceptTooShort(w)
             \/ AcceptUser(w) \/ DeactivateLinks(w)
    BY <2>5 DEF RefreshUser, ForgotIssue, AcceptReset, AcceptTooShort, AcceptUser,
       DeactivateLinks, store
  <2> QED BY <1>1, <2>2, <2>3, <2>4, <2>5 DEF Step
<1>2. ASSUME NEW w \in Workers, Request(w) PROVE [Next]_vars
  <2>1. delivered \subseteq held
    BY DEF FlowIInv, Threads
  <2>2. CASE \E u \in Users : Login(w, u) \/ Forgot(w, u) \/ Deactivate(w, u)
    BY <2>2 DEF Login, Forgot, Deactivate, store
  <2>3. CASE \E u \in Users : LogoutAll(w, u)
    BY <2>3 DEF LogoutAll, Next
  <2>4. CASE \E u \in Users, s \in DOMAIN table : EndDevice(w, u, s)
    BY <2>4 DEF EndDevice, Next
  <2>5. CASE \E tok \in delivered : Refresh(w, tok) \/ Logout(w, tok)
    BY <2>1, <2>5 DEF Refresh, Logout, Next
  <2>6. CASE \E l \in links : Accept(w, l)
    BY <2>6 DEF Accept, store
  <2> QED BY <1>2, <2>2, <2>3, <2>4, <2>5, <2>6 DEF Request
<1>3. CASE (\E u \in Users : Toggle(u)) \/ UNCHANGED flowVars
  BY <1>3 DEF Toggle, store, flowVars
<1>4. CASE Clock
  BY <1>4 DEF Clock, Next
<1> QED BY <1>1, <1>2, <1>3, <1>4 DEF FlowNext

LEMMA StoreStep ==
    ASSUME FlowIInv, [FlowNext]_flowVars
    PROVE  IInv' /\ held \subseteq held'
  BY StoreUse, HeldGrows, StepIInv DEF FlowIInv

-----------------------------------------------------------------------------
(* What a step does to the thread that takes it. *)

Changed(w) ==
    /\ worker' = [worker EXCEPT ![w] = worker'[w]]
    /\ ThreadOK(worker'[w], account', held')

\* No account became active.
NoneRaised == \A u \in Users : account'[u].active => account[u].active

LEMMA StartChanges ==
    ASSUME Threads, NEW w \in Workers, NEW pc \in Steps, NEW u \in Users,
           NEW token \in Nat, NEW password \in Nat,
           Start(w, pc, u, token, password), NoneRaised,
           pc \in Rotating => token \in held',
           pc \in Decided => account[u].active
    PROVE  Changed(w)
<1> DEFINE t == [pc |-> pc, user |-> u, token |-> token, password |-> password,
                 sawActive |-> account[u].active, answer |-> "none"]
<1>1. worker \in [Workers -> Worker] /\ account[u].active \in BOOLEAN
  BY DEF Threads, Account
<1>2. worker' = [worker EXCEPT ![w] = t]
  BY DEF Start
<1>3. worker'[w] = t
  BY <1>1, <1>2
<1>4. t \in Worker
  BY <1>1 DEF Worker
<1>5. ThreadOK(t, account', held')
  <2>1. account'[u].active => account[u].active
    BY DEF NoneRaised
  <2> QED BY <1>4, <2>1 DEF ThreadOK
<1> HIDE DEF t
<1> QED BY <1>2, <1>3, <1>5 DEF Changed

LEMMA GoToChanges ==
    ASSUME Threads, NEW w \in Workers, NEW pc \in Steps, GoTo(w, pc), ~At(w, "idle"),
           NoneRaised, pc \in Rotating => worker[w].token \in held',
           pc \in Decided => worker[w].sawActive
    PROVE  Changed(w)
<1> DEFINE t == [worker[w] EXCEPT !.pc = pc]
<1>1. worker \in [Workers -> Worker] /\ ThreadOK(worker[w], account, held)
  BY DEF Threads
<1>2. worker' = [worker EXCEPT ![w] = t]
  BY DEF GoTo
<1>3. worker'[w] = t
  BY <1>1, <1>2
<1>4. t \in Worker /\ worker[w].user \in Users
  BY <1>1 DEF Worker, ThreadOK, At
<1>5. ThreadOK(t, account', held')
  <2>1. /\ t.pc = pc /\ t.token = worker[w].token /\ t.user = worker[w].user
        /\ t.sawActive = worker[w].sawActive /\ t.answer = worker[w].answer
    BY <1>1 DEF Worker
  <2>2. account'[t.user].active => account[worker[w].user].active
    BY <1>4, <2>1 DEF NoneRaised
  <2> QED BY <1>1, <1>4, <2>1, <2>2 DEF ThreadOK, At
<1> HIDE DEF t
<1> QED BY <1>2, <1>3, <1>5 DEF Changed

LEMMA AnswerChanges ==
    ASSUME Threads, NEW w \in Workers, NEW answer \in {"none", "granted"},
           Answers(w, answer),
           answer = "granted" => worker[w].sawActive
    PROVE  Changed(w)
<1> DEFINE t == [worker[w] EXCEPT !.pc = "idle", !.user = Nobody, !.token = 0, !.password = 0,
                                  !.answer = answer]
<1>1. worker \in [Workers -> Worker]
  BY DEF Threads
<1>2. worker' = [worker EXCEPT ![w] = t]
  BY DEF Answers
<1>3. worker'[w] = t
  BY <1>1, <1>2
<1>4. t \in Worker /\ t.pc = "idle" /\ t.answer = answer /\ t.sawActive = worker[w].sawActive
  BY <1>1 DEF Worker, Steps
<1>5. ThreadOK(t, account', held')
  BY <1>4 DEF ThreadOK, Rotating, Decided
<1> HIDE DEF t
<1> QED BY <1>2, <1>3, <1>5 DEF Changed

\* The other threads are as they were: none loses its token, and nobody's account
\* became active behind its back.
LEMMA OneThread ==
    ASSUME Threads, NEW w \in Workers, Changed(w), NoneRaised, held \subseteq held',
           account' \in [Users -> Account], links' \subseteq Link, nextLink' \in Nat,
           delivered' \subseteq held'
    PROVE  Threads'
<1>1. worker' \in [Workers -> Worker]
  BY DEF Threads, Changed, ThreadOK
<1>2. ASSUME NEW x \in Workers PROVE ThreadOK(worker'[x], account', held')
  <2>1. CASE x = w
    BY <2>1 DEF Changed
  <2>2. CASE x # w
    <3>1. worker'[x] = worker[x]
      BY <2>2 DEF Changed, Threads
    <3>2. ThreadOK(worker[x], account, held)
      BY DEF Threads
    <3>3. worker[x].pc # "idle" /\ account'[worker[x].user].active => account[worker[x].user].active
      BY <3>2 DEF NoneRaised, ThreadOK
    <3> QED BY <3>1, <3>2, <3>3 DEF ThreadOK
  <2> QED BY <2>1, <2>2
<1> QED BY <1>1, <1>2 DEF Threads

\* What most handlers leave alone.
SameAccounts == UNCHANGED <<account, links, nextLink>>

LEMMA SameKeeps ==
    ASSUME FlowIInv, [FlowNext]_flowVars, NEW w \in Workers, Changed(w), SameAccounts,
           delivered' \subseteq held'
    PROVE  Threads'
<1>1. NoneRaised /\ account' \in [Users -> Account] /\ links' \subseteq Link /\ nextLink' \in Nat
  BY DEF FlowIInv, Threads, SameAccounts, NoneRaised
<1> QED BY <1>1, StoreStep, OneThread DEF FlowIInv

\* A new session's token reaches the client that the handler answers.
LEMMA GrantKeeps ==
    ASSUME FlowIInv, [FlowNext]_flowVars, NEW w \in Workers, At(w, "login_create") \/ At(w, "accept_create"),
           Create(User(w)), GrantNew(w), SameAccounts
    PROVE  Threads'
<1>1. Threads /\ worker[w].sawActive /\ held \subseteq held' /\ delivered \subseteq held
  BY StoreStep DEF FlowIInv, Threads, ThreadOK, Decided, At
<1>2. CASE Raised
  <2>1. Answers(w, "none") /\ delivered' = delivered
    BY <1>2 DEF GrantNew
  <2>2. Changed(w)
    BY <1>1, <2>1, AnswerChanges
  <2> QED BY <1>1, <2>1, <2>2, SameKeeps
<1>3. CASE ~Raised
  <2>1. Answers(w, "granted") /\ delivered' = delivered \cup {reply'.given}
    BY <1>3 DEF GrantNew, Grant
  <2>2. Changed(w)
    BY <1>1, <2>1, AnswerChanges
  <2>3. reply'.given \in held'
    BY <1>3, CreateGives DEF FlowIInv
  <2> QED BY <1>1, <2>1, <2>2, <2>3, SameKeeps
<1> QED BY <1>2, <1>3

\* After a store call that ends sessions the handler goes on, or answers an error.
LEMMA ProceedKeeps ==
    ASSUME FlowIInv, [FlowNext]_flowVars, NEW w \in Workers, NEW pc \in Steps \ Rotating, ~At(w, "idle"),
           Proceed(w, pc), pc \in Decided => worker[w].sawActive, SameAccounts,
           delivered' = delivered
    PROVE  Threads'
<1>1. Threads /\ held \subseteq held' /\ delivered' \subseteq held' /\ NoneRaised
  BY StoreStep DEF FlowIInv, Threads, SameAccounts, NoneRaised
<1>2. Changed(w)
  <2>1. CASE Raised
    BY <1>1, <2>1, AnswerChanges DEF Proceed
  <2>2. CASE ~Raised
    BY <1>1, <2>2, GoToChanges DEF Proceed
  <2> QED BY <2>1, <2>2
<1> QED BY <1>1, <1>2, SameKeeps

\* The steps of the requests under way.
LEMMA StepKeeps ==
    ASSUME FlowIInv, [FlowNext]_flowVars, NEW w \in Workers, Step(w)
    PROVE  Threads'
<1>0. /\ Threads /\ ThreadOK(worker[w], account, held) /\ held \subseteq held'
      /\ delivered \subseteq held /\ links \subseteq Link /\ nextLink \in Nat
      /\ account \in [Users -> Account] /\ worker \in [Workers -> Worker]
      /\ User(w) \in Users
  BY StoreStep, AtWork DEF FlowIInv, Threads
<1>1. CASE LoginCreate(w) \/ AcceptCreate(w)
  BY <1>1, GrantKeeps DEF LoginCreate, AcceptCreate, SameAccounts
<1>2. CASE RefreshUser(w)
  <2>0. SameAccounts /\ NoneRaised /\ At(w, "refresh_user") /\ worker[w].token \in held
    BY <1>0, <1>2 DEF RefreshUser, SameAccounts, NoneRaised, ThreadOK, At, Rotating
  <2>1. CASE account[User(w)].active
    <3>1. Answers(w, "granted") /\ delivered' = delivered \cup {worker[w].token}
      BY <1>2, <2>1 DEF RefreshUser, Grant
    <3>2. worker[w].sawActive
      BY <1>0, <2>0, <2>1 DEF ThreadOK, At, User
    <3>3. Changed(w)
      BY <1>0, <3>1, <3>2, AnswerChanges
    <3> QED BY <1>0, <2>0, <3>1, <3>3, SameKeeps
  <2>2. CASE ~account[User(w)].active
    <3>1. GoTo(w, "refresh_inactive") /\ delivered' = delivered
      BY <1>2, <2>2 DEF RefreshUser
    <3>2. Changed(w)
      <4>1. "refresh_inactive" \in Steps /\ "refresh_inactive" \notin Decided /\ ~At(w, "idle")
        BY <2>0 DEF Steps, Decided, At
      <4> QED BY <1>0, <2>0, <3>1, <4>1, GoToChanges
    <3> QED BY <1>0, <2>0, <3>1, <3>2, SameKeeps
  <2> QED BY <2>1, <2>2
<1>3. CASE RefreshRevoke(w)
  <2>1. SameAccounts /\ delivered' = delivered
    BY <1>3 DEF RefreshRevoke, SameAccounts
  <2>2. Answers(w, "none")
    BY <1>3 DEF RefreshRevoke
  <2>3. Changed(w)
    BY <1>0, <2>2, AnswerChanges
  <2> QED BY <1>0, <2>1, <2>3, SameKeeps
<1>4. CASE ForgotIssue(w)
  <2>1. /\ Answers(w, "none") /\ account' = account /\ delivered' = delivered
        /\ links' \subseteq Link /\ nextLink' \in Nat
    BY <1>0, <1>4 DEF ForgotIssue, Link
  <2>2. Changed(w) /\ NoneRaised
    BY <1>0, <2>1, AnswerChanges DEF NoneRaised
  <2> QED BY <1>0, <2>1, <2>2, OneThread
<1>5. CASE AcceptReset(w)
  <2> DEFINE set == account[User(w)].password + 1
             t == [worker[w] EXCEPT !.pc = "accept_user", !.password = set]
  <2>0. set \in Nat
    BY <1>0 DEF Account
  <2>1. /\ At(w, "accept_reset") /\ delivered' = delivered /\ links' = links /\ nextLink' = nextLink
        /\ account' = [account EXCEPT ![User(w)].password = set]
        /\ worker' = [worker EXCEPT ![w].pc = "accept_user", ![w].password = set]
    BY <1>5 DEF AcceptReset
  <2>2. NoneRaised /\ account' \in [Users -> Account]
    <3>1. [account[User(w)] EXCEPT !.password = set] \in Account
          /\ [account[User(w)] EXCEPT !.password = set].active = account[User(w)].active
      BY <1>0, <2>0 DEF Account
    <3>2. account' = [account EXCEPT ![User(w)] = [account[User(w)] EXCEPT !.password = set]]
      BY <2>1
    <3> QED BY <1>0, <3>1, <3>2 DEF NoneRaised
  <2>3. worker' = [worker EXCEPT ![w] = t] /\ worker'[w] = t
    BY <1>0, <2>1 DEF Worker
  <2>4. /\ t \in Worker /\ t.pc = "accept_user" /\ t.user = User(w)
        /\ t.sawActive = worker[w].sawActive /\ t.answer = worker[w].answer
    BY <1>0, <2>0 DEF Worker, Steps, User
  <2>5. ThreadOK(t, account', held')
    <3>1. account'[User(w)].active => worker[w].sawActive
      BY <1>0, <2>1, <2>2 DEF NoneRaised, ThreadOK, At, User
    <3> QED BY <1>0, <2>4, <3>1 DEF ThreadOK, Rotating, Decided
  <2> HIDE DEF set, t
  <2>6. Changed(w)
    BY <2>3, <2>5 DEF Changed
  <2> QED BY <1>0, <2>1, <2>2, <2>6, OneThread
<1>6. CASE AcceptTooShort(w)
  <2>1. Answers(w, "none") /\ SameAccounts /\ delivered' = delivered
    BY <1>6 DEF AcceptTooShort, SameAccounts
  <2>2. Changed(w)
    BY <1>0, <2>1, AnswerChanges
  <2> QED BY <1>0, <2>1, <2>2, SameKeeps
<1>7. CASE AcceptUser(w)
  <2>1. At(w, "accept_user") /\ SameAccounts /\ delivered' = delivered
    BY <1>7 DEF AcceptUser, SameAccounts
  <2>2. CASE account[User(w)].active
    <3>1. worker[w].sawActive /\ ~At(w, "idle") /\ NoneRaised
      BY <1>0, <2>1, <2>2 DEF ThreadOK, At, User, SameAccounts, NoneRaised
    <3>2. GoTo(w, "accept_revoke") /\ "accept_revoke" \in Steps \ Rotating
      BY <1>7, <2>2 DEF AcceptUser, Steps, Rotating
    <3>3. Changed(w)
      BY <1>0, <3>1, <3>2, GoToChanges
    <3> QED BY <1>0, <2>1, <3>3, SameKeeps
  <2>3. CASE ~account[User(w)].active
    <3>1. Answers(w, "none")
      BY <1>7, <2>3 DEF AcceptUser
    <3>2. Changed(w)
      BY <1>0, <3>1, AnswerChanges
    <3> QED BY <1>0, <2>1, <3>2, SameKeeps
  <2> QED BY <2>2, <2>3
<1>8. CASE AcceptRevoke(w)
  <2>1. /\ Proceed(w, "accept_create") /\ SameAccounts /\ delivered' = delivered
        /\ ~At(w, "idle") /\ worker[w].sawActive /\ "accept_create" \in Steps \ Rotating
    BY <1>0, <1>8 DEF AcceptRevoke, SameAccounts, At, ThreadOK, Decided, Steps, Rotating
  <2> QED BY <2>1, ProceedKeeps
<1>9. CASE DeactivateRevoke(w)
  <2>1. /\ Proceed(w, "deact_links") /\ SameAccounts /\ delivered' = delivered
        /\ ~At(w, "idle") /\ "deact_links" \in Steps \ Rotating /\ "deact_links" \notin Decided
    BY <1>0, <1>9 DEF DeactivateRevoke, SameAccounts, At, Decided, Steps, Rotating
  <2> QED BY <2>1, ProceedKeeps
<1>10. CASE DeactivateLinks(w)
  <2>1. /\ Answers(w, "none") /\ account' = account /\ delivered' = delivered
        /\ links' \subseteq Link /\ nextLink' = nextLink
    BY <1>0, <1>10 DEF DeactivateLinks
  <2>2. Changed(w) /\ NoneRaised
    BY <1>0, <2>1, AnswerChanges DEF NoneRaised
  <2> QED BY <1>0, <2>1, <2>2, OneThread
<1> QED BY <1>1, <1>2, <1>3, <1>4, <1>5, <1>6, <1>7, <1>8, <1>9, <1>10 DEF Step

\* A presented refresh token: the thread goes on with a token some client holds,
\* for a user there is, or answers at once.
LEMMA RefreshKeeps ==
    ASSUME FlowIInv, [FlowNext]_flowVars, NEW w \in Workers, NEW tok \in delivered, Refresh(w, tok)
    PROVE  Threads'
<1> DEFINE u == table[chain[tok]].user
<1>0. /\ Threads /\ IInv /\ tok \in held /\ tok \in Nat /\ held \subseteq held' /\ held' \subseteq Nat
      /\ delivered \subseteq held
  <2>1. Threads /\ IInv /\ IInv' /\ held \subseteq held' /\ delivered \subseteq held
    BY StoreStep DEF FlowIInv, Threads
  <2>2. held' \subseteq 1..(nextToken' - 1)
    BY <2>1 DEF IInv, TypeOK
  <2>3. held' \subseteq Nat
    BY <2>2
  <2> QED BY <2>1, <2>3
<1>1. /\ Rotate(tok) /\ SameAccounts /\ NoneRaised /\ delivered' = delivered
  BY DEF Refresh, SameAccounts, NoneRaised
<1>2. Changed(w)
  <2>1. CASE reply'.answer = "ok"
    <3>1. reply'.given \in held' /\ u \in Users
      BY <1>0, <1>1, <2>1, RotateGives, OwnerOfToken
    <3>2. Start(w, "refresh_user", u, reply'.given, 0)
      BY <2>1 DEF Refresh
    <3>3. "refresh_user" \in Steps /\ "refresh_user" \notin Decided /\ reply'.given \in Nat
      BY <1>0, <3>1 DEF Steps, Decided
    <3> HIDE DEF u
    <3> QED BY <1>0, <1>1, <3>1, <3>2, <3>3, StartChanges
  <2>2. CASE reply'.answer = "reuse"
    <3>1. u \in Users
      BY <1>0, <1>1, <2>2, RotateGives, OwnerOfToken
    <3>2. Start(w, "refresh_reuse", u, tok, 0)
      BY <2>2 DEF Refresh
    <3>3. "refresh_reuse" \in Steps /\ "refresh_reuse" \notin Decided /\ tok \in held'
      BY <1>0 DEF Steps, Decided
    <3> HIDE DEF u
    <3> QED BY <1>0, <1>1, <3>1, <3>2, <3>3, StartChanges
  <2>3. CASE reply'.answer \notin {"ok", "reuse"}
    <3>1. Answers(w, "none")
      BY <2>3 DEF Refresh
    <3> QED BY <1>0, <3>1, AnswerChanges
  <2> QED BY <2>1, <2>2, <2>3
<1> QED BY <1>0, <1>1, <1>2, SameKeeps

\* The beginnings of requests.
LEMMA RequestKeeps ==
    ASSUME FlowIInv, [FlowNext]_flowVars, NEW w \in Workers, Request(w)
    PROVE  Threads'
<1>0. /\ Threads /\ held \subseteq held' /\ delivered \subseteq held /\ links \subseteq Link
      /\ nextLink \in Nat /\ account \in [Users -> Account] /\ 0 \in Nat
  BY StoreStep DEF FlowIInv, Threads
<1>1. ASSUME NEW u \in Users, Login(w, u) PROVE Threads'
  <2>1. /\ Start(w, "login_create", u, 0, account[u].password) /\ account[u].active
        /\ SameAccounts /\ NoneRaised /\ delivered' = delivered
    BY <1>1 DEF Login, SameAccounts, NoneRaised
  <2>2. "login_create" \in Steps /\ "login_create" \notin Rotating /\ account[u].password \in Nat
    BY <1>0 DEF Steps, Rotating, Account
  <2>3. Changed(w)
    BY <1>0, <2>1, <2>2, StartChanges
  <2> QED BY <1>0, <2>1, <2>3, SameKeeps
<1>2. ASSUME NEW u \in Users, Forgot(w, u) PROVE Threads'
  <2>1. Start(w, "forgot_issue", u, 0, 0) /\ SameAccounts /\ NoneRaised /\ delivered' = delivered
    BY <1>2 DEF Forgot, SameAccounts, NoneRaised
  <2>2. "forgot_issue" \in Steps /\ "forgot_issue" \notin Rotating /\ "forgot_issue" \notin Decided
    BY DEF Steps, Rotating, Decided
  <2>3. Changed(w)
    BY <1>0, <2>1, <2>2, StartChanges
  <2> QED BY <1>0, <2>1, <2>3, SameKeeps
<1>3. ASSUME NEW u \in Users, Deactivate(w, u) PROVE Threads'
  <2>1. /\ Start(w, "deact_revoke", u, 0, 0) /\ delivered' = delivered
        /\ links' = links /\ nextLink' = nextLink
        /\ account' = [account EXCEPT ![u].active = FALSE]
    BY <1>3 DEF Deactivate
  <2>2. NoneRaised /\ account' \in [Users -> Account]
    <3>1. account' = [account EXCEPT ![u] = [account[u] EXCEPT !.active = FALSE]]
      BY <2>1
    <3>2. /\ [account[u] EXCEPT !.active = FALSE] \in Account
          /\ [account[u] EXCEPT !.active = FALSE].active = FALSE
      BY <1>0 DEF Account
    <3> QED BY <1>0, <3>1, <3>2 DEF NoneRaised
  <2>3. "deact_revoke" \in Steps /\ "deact_revoke" \notin Rotating /\ "deact_revoke" \notin Decided
    BY DEF Steps, Rotating, Decided
  <2>4. Changed(w)
    BY <1>0, <2>1, <2>2, <2>3, StartChanges
  <2> QED BY <1>0, <2>1, <2>2, <2>4, OneThread
<1>4. ASSUME NEW l \in links, Accept(w, l) PROVE Threads'
  <2>1. /\ Start(w, "accept_reset", l.user, 0, 0) /\ delivered' = delivered
        /\ links' \subseteq Link /\ nextLink' = nextLink /\ account' = account
        /\ l.user \in Users
    BY <1>0, <1>4 DEF Accept, Link
  <2>2. /\ "accept_reset" \in Steps /\ "accept_reset" \notin Rotating
        /\ "accept_reset" \notin Decided /\ NoneRaised
    BY <2>1 DEF Steps, Rotating, Decided, NoneRaised
  <2>3. Changed(w)
    BY <1>0, <2>1, <2>2, StartChanges
  <2> QED BY <1>0, <2>1, <2>2, <2>3, OneThread
<1>5. ASSUME Answers(w, "none"), SameAccounts, delivered' = delivered PROVE Threads'
  <2>1. Changed(w)
    BY <1>0, <1>5, AnswerChanges
  <2> QED BY <1>0, <1>5, <2>1, SameKeeps
<1>6. ASSUME NEW u \in Users, LogoutAll(w, u) PROVE Threads'
  BY <1>5, <1>6 DEF LogoutAll, SameAccounts
<1>7. ASSUME NEW u \in Users, NEW s, EndDevice(w, u, s) PROVE Threads'
  BY <1>5, <1>7 DEF EndDevice, SameAccounts
<1>8. ASSUME NEW tok \in delivered, Logout(w, tok) PROVE Threads'
  BY <1>5, <1>8 DEF Logout, SameAccounts
<1>9. ASSUME NEW tok \in delivered, Refresh(w, tok) PROVE Threads'
  BY <1>9, RefreshKeeps
<1> QED BY <1>1, <1>2, <1>3, <1>4, <1>6, <1>7, <1>8, <1>9 DEF Request

\* The admin's toggle notes an account it makes active with every request of it.
LEMMA ToggleKeeps ==
    ASSUME FlowIInv, [FlowNext]_flowVars, NEW u \in Users, Toggle(u)
    PROVE  Threads'
<1>0. /\ Threads /\ held \subseteq held' /\ delivered \subseteq held
      /\ account \in [Users -> Account] /\ worker \in [Workers -> Worker]
  BY StoreStep DEF FlowIInv, Threads
<1>1. links' = links /\ nextLink' = nextLink /\ delivered' = delivered
  BY DEF Toggle
<1>2. /\ account' \in [Users -> Account]
      /\ account'[u].active = ~account[u].active
      /\ \A x \in Users : x # u => account'[x] = account[x]
  <2>1. account' = [account EXCEPT ![u] = [account[u] EXCEPT !.active = ~account[u].active]]
    BY DEF Toggle
  <2>2. /\ [account[u] EXCEPT !.active = ~account[u].active] \in Account
        /\ [account[u] EXCEPT !.active = ~account[u].active].active = ~account[u].active
    BY <1>0 DEF Account
  <2> QED BY <1>0, <2>1, <2>2
<1>3. ASSUME NEW w \in Workers PROVE ThreadOK(worker'[w], account', held')
  <2>0. /\ ThreadOK(worker[w], account, held) /\ worker[w] \in Worker
        /\ worker[w].pc # "idle" => worker[w].user \in Users
    BY <1>0 DEF Threads, ThreadOK
  <2>1. CASE User(w) = u /\ ~account[u].active /\ ~At(w, "idle")
    <3> DEFINE t == [worker[w] EXCEPT !.sawActive = TRUE]
    <3>1. worker'[w] = t
      BY <2>1 DEF Toggle
    <3>2. /\ t \in Worker /\ t.sawActive = TRUE /\ t.pc = worker[w].pc
          /\ t.user = worker[w].user /\ t.token = worker[w].token
      BY <2>0 DEF Worker
    <3> HIDE DEF t
    <3> QED BY <1>0, <2>0, <3>1, <3>2 DEF ThreadOK
  <2>2. CASE ~(User(w) = u /\ ~account[u].active /\ ~At(w, "idle"))
    <3>1. worker'[w] = worker[w]
      BY <2>2 DEF Toggle
    <3>2. worker[w].pc # "idle" /\ account'[worker[w].user].active => account[worker[w].user].active
      BY <1>2, <2>0, <2>2 DEF User, At
    <3> QED BY <1>0, <2>0, <3>1, <3>2 DEF ThreadOK
  <2> QED BY <2>1, <2>2
<1>4. worker' \in [Workers -> Worker]
  <2>1. worker' = [w \in Workers |-> worker'[w]]
    BY DEF Toggle
  <2> QED BY <1>3, <2>1 DEF ThreadOK
<1> QED BY <1>0, <1>1, <1>2, <1>3, <1>4 DEF Threads

LEMMA FlowInitIInv == FlowInit => FlowIInv
<1> SUFFICES ASSUME FlowInit PROVE Threads
  BY InitIInv DEF FlowIInv, FlowInit
<1>1. /\ account = [u \in Users |-> [active |-> TRUE, password |-> 1]]
      /\ links = {} /\ nextLink = 1 /\ delivered = {}
  BY DEF FlowInit
<1>2. worker = [w \in Workers |->
           [pc |-> "idle", user |-> Nobody, token |-> 0, password |-> 0,
            sawActive |-> FALSE, answer |-> "none"]]
  BY DEF FlowInit
<1>3. account \in [Users -> Account]
  BY <1>1 DEF Account
<1>4. \A w \in Workers : ThreadOK(worker[w], account, held)
  BY <1>2 DEF ThreadOK, Worker, Steps, Rotating, Decided
<1>5. worker \in [Workers -> Worker]
  BY <1>2, <1>4 DEF ThreadOK
<1> QED BY <1>1, <1>3, <1>4, <1>5 DEF Threads

LEMMA FlowStepIInv == FlowIInv /\ [FlowNext]_flowVars => FlowIInv'
<1> SUFFICES ASSUME FlowIInv, [FlowNext]_flowVars PROVE Threads'
  BY StoreStep DEF FlowIInv
<1>1. CASE \E w \in Workers : Request(w) \/ Step(w)
  BY <1>1, RequestKeeps, StepKeeps
<1>2. CASE \E u \in Users : Toggle(u)
  BY <1>2, ToggleKeeps
<1>3. CASE Clock \/ UNCHANGED flowVars
  <2>1. UNCHANGED <<account, links, nextLink, worker, delivered>> /\ held' = held
    BY <1>3 DEF Clock, Tick, flowVars, store, vars
  <2> QED BY <2>1 DEF FlowIInv, Threads
<1> QED BY <1>1, <1>2, <1>3 DEF FlowNext

THEOREM FlowInvariance == FlowSpec => []FlowIInv
  BY FlowInitIInv, FlowStepIInv, PTL DEF FlowSpec

\* The handlers implement the store's own specification: whatever requests run
\* side by side, in whatever order their calls take the lock, the sessions behave
\* as Sessions says.
THEOREM StoreImplemented == FlowSpec => Spec
<1>1. FlowInit => Init
  BY DEF FlowInit
<1> QED BY <1>1, StoreUse, FlowInvariance, PTL DEF FlowSpec, Spec

\* The store, the accounts, the links and the threads keep their types, and a client
\* only ever holds tokens the store handed out.
THEOREM FlowTypeCorrect == FlowSpec => []FlowTypeOK
<1>1. FlowIInv => FlowTypeOK
  BY DEF FlowIInv, IInv, Threads, FlowTypeOK
<1> QED BY <1>1, FlowInvariance, PTL

\* A request that is granted an access token saw its account active while it ran,
\* by password, by cookie and by mailed link alike, whatever overtakes it.
THEOREM GrantedWasActiveAlways == FlowSpec => []GrantedWasActive
<1>1. FlowIInv => GrantedWasActive
  BY DEF FlowIInv, Threads, ThreadOK, GrantedWasActive
<1> QED BY <1>1, FlowInvariance, PTL

\* With every handler at work, what a sign-out or a deactivation has ended stays
\* ended, and no account holds more sessions than the limit.
THEOREM HandlersKeepTheStore ==
    FlowSpec => [](EndedStaysEnded /\ SessionBound /\ TokenNamesOneRow)
  BY StoreImplemented, EndedStaysEndedAlways, SessionBoundAlways, TokenNamesOneRowAlways, PTL

-----------------------------------------------------------------------------
(* Links and passwords: a link that lies in a mailbox, and a thread that has *)
(* spent one and not yet set the password, each stand for one password still *)
(* to be set, and together with those already set they are no more than the  *)
(* links ever mailed.                                                        *)

Resetting(wk, u) == {w \in Workers : wk[w].pc = "accept_reset" /\ wk[w].user = u}
Outstanding(ls, u) == {l \in ls : l.user = u}

BudgetOK(u, acc, wk, ls, n) ==
    /\ IsFiniteSet(Resetting(wk, u))
    /\ IsFiniteSet(Outstanding(ls, u))
    /\ acc[u].password + Cardinality(Resetting(wk, u)) + Cardinality(Outstanding(ls, u)) <= n

Budget == \A u \in Users : BudgetOK(u, account, worker, links, nextLink)

\* Spending moves one unit of the budget from a set S to a set T; nothing else adds.
LEMMA OneLess ==
    ASSUME NEW S, IsFiniteSet(S), NEW x \in S
    PROVE  IsFiniteSet(S \ {x}) /\ Cardinality(S \ {x}) = Cardinality(S) - 1 /\ Cardinality(S) \in Nat
  BY FS_RemoveElement, FS_CardinalityType

LEMMA OneMore ==
    ASSUME NEW S, IsFiniteSet(S), NEW x, x \notin S
    PROVE  IsFiniteSet(S \cup {x}) /\ Cardinality(S \cup {x}) = Cardinality(S) + 1 /\ Cardinality(S) \in Nat
  BY FS_AddElement, FS_CardinalityType

LEMMA NoMore ==
    ASSUME NEW S, NEW T, S \subseteq T, IsFiniteSet(T)
    PROVE  IsFiniteSet(S) /\ Cardinality(S) <= Cardinality(T) /\ Cardinality(S) \in Nat /\ Cardinality(T) \in Nat
  BY FS_Subset, FS_CardinalityType

\* An account whose password stays and for which no link and no bearer is added
\* keeps within its budget.
LEMMA QuietBudget ==
    ASSUME Threads, Threads', NEW u \in Users, BudgetOK(u, account, worker, links, nextLink),
           account'[u].password = account[u].password, nextLink' >= nextLink,
           Resetting(worker', u) \subseteq Resetting(worker, u),
           Outstanding(links', u) \subseteq Outstanding(links, u)
    PROVE  BudgetOK(u, account', worker', links', nextLink')
<1>1. account[u].password \in Nat /\ nextLink \in Nat /\ nextLink' \in Nat
  BY DEF Threads, Account
<1>2. /\ IsFiniteSet(Resetting(worker', u))
      /\ Cardinality(Resetting(worker', u)) <= Cardinality(Resetting(worker, u))
      /\ Cardinality(Resetting(worker', u)) \in Nat /\ Cardinality(Resetting(worker, u)) \in Nat
  BY NoMore DEF BudgetOK
<1>3. /\ IsFiniteSet(Outstanding(links', u))
      /\ Cardinality(Outstanding(links', u)) <= Cardinality(Outstanding(links, u))
      /\ Cardinality(Outstanding(links', u)) \in Nat /\ Cardinality(Outstanding(links, u)) \in Nat
  BY NoMore DEF BudgetOK
<1>4. account[u].password + Cardinality(Resetting(worker, u)) + Cardinality(Outstanding(links, u)) <= nextLink
  BY DEF BudgetOK
<1> QED BY <1>1, <1>2, <1>3, <1>4 DEF BudgetOK

\* Thread w goes to pc; the others stay where they are.
Moved(w, pc) ==
    /\ worker' = [worker EXCEPT ![w] = worker'[w]]
    /\ worker'[w].pc = pc

LEMMA Moves ==
    ASSUME Threads, NEW w \in Workers, NEW pc
    PROVE  /\ \A u, token, password : Start(w, pc, u, token, password) => Moved(w, pc) /\ worker'[w].user = u
           /\ GoTo(w, pc) => Moved(w, pc)
           /\ \A answer : Answers(w, answer) => Moved(w, "idle")
<1>0. worker \in [Workers -> Worker]
  BY DEF Threads
<1>1. ASSUME NEW u, NEW token, NEW password, Start(w, pc, u, token, password)
      PROVE  Moved(w, pc) /\ worker'[w].user = u
  BY <1>0, <1>1 DEF Start, Moved
<1>2. ASSUME GoTo(w, pc) PROVE Moved(w, pc)
  BY <1>0, <1>2 DEF GoTo, Moved, Worker
<1>3. ASSUME NEW answer, Answers(w, answer) PROVE Moved(w, "idle")
  BY <1>0, <1>3 DEF Answers, Moved, Worker
<1> QED BY <1>1, <1>2, <1>3

\* A thread that does not go to the form adds no bearer of a link.
LEMMA NoBearer ==
    ASSUME Threads, NEW w \in Workers, NEW pc, pc # "accept_reset", Moved(w, pc), NEW u \in Users
    PROVE  Resetting(worker', u) \subseteq Resetting(worker, u)
  BY DEF Threads, Moved, Resetting

\* So a step that moves a thread elsewhere and neither sets a password nor mails a
\* link keeps the budget.
LEMMA MovedBudget ==
    ASSUME Threads, Threads', Budget, NEW w \in Workers, NEW pc, pc # "accept_reset", Moved(w, pc),
           \A u \in Users : account'[u].password = account[u].password,
           links' \subseteq links, nextLink' = nextLink
    PROVE  Budget'
<1>1. ASSUME NEW u \in Users PROVE BudgetOK(u, account', worker', links', nextLink')
  <2>1. Outstanding(links', u) \subseteq Outstanding(links, u)
    BY DEF Outstanding
  <2>2. nextLink' >= nextLink
    BY DEF Threads
  <2> QED BY <2>1, <2>2, NoBearer, QuietBudget DEF Budget
<1> QED BY <1>1 DEF Budget

\* The form is sent: a bearer becomes a password.
LEMMA ResetBudget ==
    ASSUME Threads, Threads', Budget, NEW w \in Workers, AcceptReset(w)
    PROVE  Budget'
<1> DEFINE set == account[User(w)].password + 1
<1>0. /\ worker \in [Workers -> Worker] /\ User(w) \in Users /\ nextLink \in Nat
      /\ account \in [Users -> Account]
  BY AtWork DEF Threads, Step
<1>1. /\ At(w, "accept_reset") /\ links' = links /\ nextLink' = nextLink
      /\ account' = [account EXCEPT ![User(w)].password = set]
      /\ worker' = [worker EXCEPT ![w].pc = "accept_user", ![w].password = set]
  BY DEF AcceptReset
<1>2. Moved(w, "accept_user")
  BY <1>0, <1>1 DEF Moved, Worker
<1>3. ASSUME NEW u \in Users, u # User(w) PROVE BudgetOK(u, account', worker', links', nextLink')
  <2>1. account'[u].password = account[u].password /\ nextLink' >= nextLink
    BY <1>0, <1>1, <1>3
  <2>2. Resetting(worker', u) \subseteq Resetting(worker, u)
    BY <1>2, NoBearer
  <2>3. Outstanding(links', u) \subseteq Outstanding(links, u)
    BY <1>1
  <2> QED BY <2>1, <2>2, <2>3, QuietBudget DEF Budget
<1>4. BudgetOK(User(w), account', worker', links', nextLink')
  <2>0. BudgetOK(User(w), account, worker, links, nextLink)
    BY <1>0 DEF Budget
  <2>1. account'[User(w)].password = set /\ account[User(w)].password \in Nat
    BY <1>0, <1>1 DEF Account
  <2>2. w \in Resetting(worker, User(w))
    BY <1>1 DEF Resetting, At, User
  <2>3. Resetting(worker', User(w)) = Resetting(worker, User(w)) \ {w}
    BY <1>0, <1>2 DEF Resetting, Moved
  <2>4. /\ IsFiniteSet(Resetting(worker', User(w)))
        /\ Cardinality(Resetting(worker', User(w))) = Cardinality(Resetting(worker, User(w))) - 1
        /\ Cardinality(Resetting(worker, User(w))) \in Nat
    BY <2>0, <2>2, <2>3, OneLess DEF BudgetOK
  <2>5. /\ IsFiniteSet(Outstanding(links, User(w)))
        /\ Cardinality(Outstanding(links, User(w))) \in Nat
        /\ account[User(w)].password + Cardinality(Resetting(worker, User(w)))
             + Cardinality(Outstanding(links, User(w))) <= nextLink
    BY <2>0, FS_CardinalityType DEF BudgetOK
  <2>6. account'[User(w)].password + Cardinality(Resetting(worker', User(w)))
             + Cardinality(Outstanding(links, User(w))) <= nextLink
    BY <1>0, <2>1, <2>4, <2>5
  <2> QED BY <1>1, <2>4, <2>5, <2>6 DEF BudgetOK
<1> QED BY <1>3, <1>4 DEF Budget

\* A link is mailed: it replaces what was outstanding, under a new number.
LEMMA IssueBudget ==
    ASSUME Threads, Threads', Budget, NEW w \in Workers, ForgotIssue(w)
    PROVE  Budget'
<1> DEFINE new == [id |-> nextLink, user |-> User(w)]
<1>0. /\ worker \in [Workers -> Worker] /\ User(w) \in Users /\ nextLink \in Nat
      /\ account \in [Users -> Account] /\ account' = account
  BY AtWork DEF Threads, Step, ForgotIssue
<1>1. /\ links' = {l \in links : l.user # User(w)} \cup {new} /\ nextLink' = nextLink + 1
      /\ Answers(w, "none")
  BY DEF ForgotIssue
<1>2. Moved(w, "idle")
  BY <1>1, Moves
<1>3. \A u \in Users : Resetting(worker', u) \subseteq Resetting(worker, u)
  BY <1>2, NoBearer
<1>4. ASSUME NEW u \in Users, u # User(w) PROVE BudgetOK(u, account', worker', links', nextLink')
  <2>1. Outstanding(links', u) \subseteq Outstanding(links, u)
    BY <1>1, <1>4 DEF Outstanding
  <2>2. account'[u].password = account[u].password /\ nextLink' >= nextLink
    BY <1>0, <1>1
  <2> QED BY <1>3, <2>1, <2>2, QuietBudget DEF Budget
<1>5. BudgetOK(User(w), account', worker', links', nextLink')
  <2>0. /\ BudgetOK(User(w), account, worker, links, nextLink)
        /\ account[User(w)].password \in Nat
    BY <1>0 DEF Budget, Account
  <2>1. Outstanding(links', User(w)) = {new}
    BY <1>1 DEF Outstanding
  <2>2. IsFiniteSet(Outstanding(links', User(w))) /\ Cardinality(Outstanding(links', User(w))) = 1
    BY <2>1, FS_Singleton
  <2>3. /\ IsFiniteSet(Resetting(worker', User(w)))
        /\ Cardinality(Resetting(worker', User(w))) <= Cardinality(Resetting(worker, User(w)))
        /\ Cardinality(Resetting(worker', User(w))) \in Nat
        /\ Cardinality(Resetting(worker, User(w))) \in Nat
    BY <1>0, <1>3, <2>0, NoMore DEF BudgetOK
  <2>4. /\ Cardinality(Outstanding(links, User(w))) \in Nat
        /\ account[User(w)].password + Cardinality(Resetting(worker, User(w)))
             + Cardinality(Outstanding(links, User(w))) <= nextLink
    BY <2>0, FS_CardinalityType DEF BudgetOK
  <2>5. account'[User(w)].password + Cardinality(Resetting(worker', User(w))) + 1 <= nextLink'
    BY <1>0, <1>1, <2>0, <2>3, <2>4
  <2> QED BY <2>2, <2>3, <2>5 DEF BudgetOK
<1> QED BY <1>4, <1>5 DEF Budget

\* A link is spent: its bearer is at the form.
LEMMA AcceptBudget ==
    ASSUME Threads, Threads', Budget, NEW w \in Workers, NEW l \in links, Accept(w, l)
    PROVE  Budget'
<1>0. /\ worker \in [Workers -> Worker] /\ l.user \in Users /\ nextLink \in Nat
      /\ account \in [Users -> Account] /\ account' = account /\ nextLink' = nextLink
  BY DEF Threads, Link, Accept
<1>1. /\ links' = links \ {l} /\ At(w, "idle")
      /\ Moved(w, "accept_reset") /\ worker'[w].user = l.user
  BY Moves DEF Accept, Start
<1>2. ASSUME NEW u \in Users, u # l.user PROVE BudgetOK(u, account', worker', links', nextLink')
  <2>1. Outstanding(links', u) \subseteq Outstanding(links, u)
    BY <1>1 DEF Outstanding
  <2>2. Resetting(worker', u) \subseteq Resetting(worker, u)
    BY <1>0, <1>1, <1>2 DEF Resetting, Moved
  <2>3. account'[u].password = account[u].password /\ nextLink' >= nextLink
    BY <1>0
  <2> QED BY <2>1, <2>2, <2>3, QuietBudget DEF Budget
<1>3. BudgetOK(l.user, account', worker', links', nextLink')
  <2>0. /\ BudgetOK(l.user, account, worker, links, nextLink)
        /\ account[l.user].password \in Nat
    BY <1>0 DEF Budget, Account
  <2>1. l \in Outstanding(links, l.user) /\ Outstanding(links', l.user) = Outstanding(links, l.user) \ {l}
    BY <1>1 DEF Outstanding
  <2>2. w \notin Resetting(worker, l.user)
        /\ Resetting(worker', l.user) = Resetting(worker, l.user) \cup {w}
    BY <1>0, <1>1 DEF Resetting, Moved, At
  <2>3. /\ IsFiniteSet(Outstanding(links', l.user))
        /\ Cardinality(Outstanding(links', l.user)) = Cardinality(Outstanding(links, l.user)) - 1
        /\ Cardinality(Outstanding(links, l.user)) \in Nat
    BY <2>0, <2>1, OneLess DEF BudgetOK
  <2>4. /\ IsFiniteSet(Resetting(worker', l.user))
        /\ Cardinality(Resetting(worker', l.user)) = Cardinality(Resetting(worker, l.user)) + 1
        /\ Cardinality(Resetting(worker, l.user)) \in Nat
    BY <2>0, <2>2, OneMore DEF BudgetOK
  <2>5. account[l.user].password + Cardinality(Resetting(worker, l.user))
             + Cardinality(Outstanding(links, l.user)) <= nextLink
    BY <2>0 DEF BudgetOK
  <2>6. account'[l.user].password + Cardinality(Resetting(worker', l.user))
             + Cardinality(Outstanding(links', l.user)) <= nextLink'
    BY <1>0, <2>0, <2>3, <2>4, <2>5
  <2> QED BY <2>3, <2>4, <2>6 DEF BudgetOK
<1> QED BY <1>2, <1>3 DEF Budget

LEMMA BudgetStep ==
    ASSUME FlowIInv, Budget, [FlowNext]_flowVars
    PROVE  Budget'
<1>0. Threads /\ Threads' /\ account \in [Users -> Account]
  BY FlowStepIInv DEF FlowIInv, Threads
<1>1. ASSUME NEW w \in Workers, NEW pc, pc # "accept_reset", Moved(w, pc), SameAccounts
      PROVE  Budget'
  BY <1>0, <1>1, MovedBudget DEF SameAccounts
<1>2. ASSUME NEW w \in Workers, GrantNew(w), SameAccounts PROVE Budget'
  BY <1>0, <1>1, <1>2, Moves DEF GrantNew, Grant
<1>3. ASSUME NEW w \in Workers, NEW pc, pc # "accept_reset", Proceed(w, pc), SameAccounts PROVE Budget'
  BY <1>0, <1>1, <1>3, Moves DEF Proceed
<1>4. ASSUME NEW w \in Workers, Step(w) PROVE Budget'
  <2>1. CASE LoginCreate(w) \/ AcceptCreate(w)
    BY <1>2, <2>1 DEF LoginCreate, AcceptCreate, SameAccounts
  <2>2. CASE AcceptRevoke(w) \/ DeactivateRevoke(w)
    BY <1>3, <2>2 DEF AcceptRevoke, DeactivateRevoke, SameAccounts
  <2>3. CASE RefreshUser(w)
    <3>1. \/ Answers(w, "granted")
          \/ GoTo(w, "refresh_inactive")
      BY <2>3 DEF RefreshUser, Grant
    <3>2. SameAccounts
      BY <2>3 DEF RefreshUser, SameAccounts
    <3> QED BY <1>0, <1>1, <3>1, <3>2, Moves
  <2>4. CASE RefreshRevoke(w)
    <3>1. Answers(w, "none") /\ SameAccounts
      BY <2>4 DEF RefreshRevoke, SameAccounts
    <3> QED BY <1>0, <1>1, <3>1, Moves
  <2>5. CASE ForgotIssue(w)
    BY <1>0, <2>5, IssueBudget
  <2>6. CASE AcceptReset(w)
    BY <1>0, <2>6, ResetBudget
  <2>7. CASE AcceptTooShort(w)
    BY <1>0, <1>1, <2>7, Moves DEF AcceptTooShort, SameAccounts
  <2>8. CASE AcceptUser(w)
    <3>1. GoTo(w, "accept_revoke") \/ Answers(w, "none")
      BY <2>8 DEF AcceptUser
    <3>2. SameAccounts
      BY <2>8 DEF AcceptUser, SameAccounts
    <3> QED BY <1>0, <1>1, <3>1, <3>2, Moves
  <2>9. CASE DeactivateLinks(w)
    <3>1. Answers(w, "none") /\ links' \subseteq links /\ nextLink' = nextLink /\ account' = account
      BY <2>9 DEF DeactivateLinks
    <3>2. Moved(w, "idle")
      BY <1>0, <3>1, Moves
    <3> QED BY <1>0, <3>1, <3>2, MovedBudget
  <2> QED BY <1>4, <2>1, <2>2, <2>3, <2>4, <2>5, <2>6, <2>7, <2>8, <2>9 DEF Step
<1>5. ASSUME NEW w \in Workers, Request(w) PROVE Budget'
  <2>1. ASSUME NEW u \in Users, Login(w, u) \/ Forgot(w, u) PROVE Budget'
    <3>1. \E token, password : \E pc \in {"login_create", "forgot_issue"} : Start(w, pc, u, token, password)
      BY <2>1 DEF Login, Forgot
    <3>2. SameAccounts
      BY <2>1 DEF Login, Forgot, SameAccounts
    <3> QED BY <1>0, <1>1, <3>1, <3>2, Moves
  <2>2. ASSUME Answers(w, "none"), SameAccounts PROVE Budget'
    BY <1>0, <1>1, <2>2, Moves
  <2>3. ASSUME NEW u \in Users, LogoutAll(w, u) PROVE Budget'
    BY <2>2, <2>3 DEF LogoutAll, SameAccounts
  <2>4. ASSUME NEW u \in Users, NEW s, EndDevice(w, u, s) PROVE Budget'
    BY <2>2, <2>4 DEF EndDevice, SameAccounts
  <2>5. ASSUME NEW tok, Logout(w, tok) PROVE Budget'
    BY <2>2, <2>5 DEF Logout, SameAccounts
  <2>6. ASSUME NEW u \in Users, Deactivate(w, u) PROVE Budget'
    <3>1. /\ Start(w, "deact_revoke", u, 0, 0) /\ links' = links /\ nextLink' = nextLink
          /\ account' = [account EXCEPT ![u].active = FALSE]
      BY <2>6 DEF Deactivate
    <3>2. Moved(w, "deact_revoke")
      BY <1>0, <3>1, Moves
    <3>3. \A x \in Users : account'[x].password = account[x].password
      BY <1>0, <3>1 DEF Account
    <3> QED BY <1>0, <3>1, <3>2, <3>3, MovedBudget
  <2>7. ASSUME NEW l \in links, Accept(w, l) PROVE Budget'
    BY <1>0, <2>7, AcceptBudget
  <2>8. ASSUME NEW tok, Refresh(w, tok) PROVE Budget'
    <3>1. \/ \E u, token, password :
                \E pc \in {"refresh_user", "refresh_reuse"} : Start(w, pc, u, token, password)
          \/ Answers(w, "none")
      BY <2>8 DEF Refresh
    <3>2. SameAccounts
      BY <2>8 DEF Refresh, SameAccounts
    <3> QED BY <1>0, <1>1, <3>1, <3>2, Moves
  <2> QED BY <1>5, <2>1, <2>3, <2>4, <2>5, <2>6, <2>7, <2>8 DEF Request
<1>6. ASSUME NEW u \in Users, Toggle(u) PROVE Budget'
  <2>1. /\ links' = links /\ nextLink' = nextLink
        /\ account' = [account EXCEPT ![u].active = ~account[u].active]
    BY <1>6 DEF Toggle
  <2>2. ASSUME NEW w \in Workers PROVE worker'[w].pc = worker[w].pc /\ worker'[w].user = worker[w].user
    BY <1>0, <1>6 DEF Toggle, Threads, Worker
  <2>3. ASSUME NEW x \in Users PROVE BudgetOK(x, account', worker', links', nextLink')
    <3>1. Resetting(worker', x) \subseteq Resetting(worker, x)
      BY <2>2 DEF Resetting
    <3>2. account'[x].password = account[x].password
      BY <1>0, <2>1 DEF Account
    <3>3. Outstanding(links', x) \subseteq Outstanding(links, x) /\ nextLink' >= nextLink
      BY <1>0, <2>1 DEF Threads
    <3> QED BY <1>0, <3>1, <3>2, <3>3, QuietBudget DEF Budget
  <2> QED BY <2>3 DEF Budget
<1>7. CASE Clock \/ UNCHANGED flowVars
  BY <1>7 DEF Clock, flowVars, Budget
<1> QED BY <1>4, <1>5, <1>6, <1>7 DEF FlowNext

\* Each account's password has been set at most once per link ever mailed, for
\* every interleaving of requests, spending and mailing, and any number of threads
\* that hold a spent link.
THEOREM OnePasswordPerLinkAlways == FlowSpec => []OnePasswordPerLink
<1>1. ASSUME FlowInit PROVE Budget
  <2>1. account = [u \in Users |-> [active |-> TRUE, password |-> 1]] /\ links = {} /\ nextLink = 1
    BY <1>1 DEF FlowInit
  <2>2. \A u \in Users : Resetting(worker, u) = {} /\ Outstanding(links, u) = {}
    BY <1>1 DEF FlowInit, Resetting, Outstanding
  <2>3. IsFiniteSet({}) /\ Cardinality({}) = 0
    BY FS_EmptySet
  <2> QED BY <2>1, <2>2, <2>3 DEF Budget, BudgetOK
<1>2. ASSUME FlowIInv, Budget PROVE OnePasswordPerLink
  <2>1. ASSUME NEW u \in Users PROVE account[u].password <= nextLink
    <3>1. BudgetOK(u, account, worker, links, nextLink)
      BY <1>2 DEF Budget
    <3>2. Cardinality(Resetting(worker, u)) \in Nat /\ Cardinality(Outstanding(links, u)) \in Nat
      BY <3>1, FS_CardinalityType DEF BudgetOK
    <3>3. account[u].password \in Nat /\ nextLink \in Nat
      BY <1>2 DEF FlowIInv, Threads, Account
    <3> QED BY <3>1, <3>2, <3>3 DEF BudgetOK
  <2> QED BY <2>1 DEF OnePasswordPerLink
<1>3. FlowIInv /\ Budget /\ [FlowNext]_flowVars => Budget'
  BY BudgetStep
<1> QED BY <1>1, <1>2, <1>3, FlowInvariance, PTL DEF FlowSpec
=============================================================================
