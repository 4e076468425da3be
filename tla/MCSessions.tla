----------------------------- MODULE MCSessions -----------------------------
(***************************************************************************)
(* Small instances of the session store: alone, called in any order        *)
(* (Sessions), or under the request handlers, at work for one account      *)
(* (AuthFlow).  MaxTime bounds the clock, MaxToken the tokens ever issued  *)
(* and MaxLost the rows in which failed saves may leave the file different *)
(* from the table; the handlers have half the tokens.                      *)
(***************************************************************************)
EXTENDS AuthFlow, TLC

CONSTANTS MaxTime, MaxToken, MaxLost

VARIABLE runs   \* "store", or the account the handlers work for

accountVars == <<account, links, nextLink, worker, delivered, secret>>

Lost == {s \in DOMAIN table \cup DOMAIN disk :
            s \in DOMAIN table \cap DOMAIN disk => table[s] # disk[s]}

BothInit == FlowInit /\ runs \in {"store"} \cup Users

StoreNext ==
    /\ runs = "store"
    /\ Next
    /\ now' <= MaxTime
    /\ nextToken' <= MaxToken + 1
    /\ Cardinality(Lost') <= MaxLost
    /\ UNCHANGED <<accountVars, runs>>

HandlersNext ==
    /\ runs \in Users
    /\ FlowNext
    /\ now' <= MaxTime
    /\ nextToken' <= MaxToken \div 2 + 1
    /\ \A w \in Workers : User(w)' \in {runs, Nobody}
    /\ \A u \in Users \ {runs} : account'[u] = account[u]
    /\ UNCHANGED runs

BothSpec == BothInit /\ [][StoreNext \/ HandlersNext]_<<flowVars, runs>>

Symmetry == Permutations(Users) \cup Permutations(Workers)
=============================================================================
