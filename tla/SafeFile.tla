------------------------------- MODULE SafeFile -------------------------------
(***************************************************************************)
(* What lib/atomic.py promises of one JSON file, for AtomicFile to keep: a *)
(* write takes effect in one step or not at all, a crash takes back only   *)
(* what no write has returned from, and a reader is given the content.     *)
(* Once something else has mangled the file nothing is promised any more.  *)
(***************************************************************************)
CONSTANTS Values, Absent, Default, NoAnswer

VARIABLES
    content,    \* what the file holds
    mayBe,      \* what it may turn out to hold after a crash
    broken,     \* something else has mangled it
    answer      \* what the last read returned

vars == <<content, mayBe, broken, answer>>

Init ==
    /\ content \in Values \cup {Absent}
    /\ mayBe = {content} /\ broken = FALSE /\ answer = NoAnswer

\* A write takes effect; until it returns a crash may still take it back.
Write(v) ==
    /\ content' = v /\ mayBe' = mayBe \cup {v}
    /\ UNCHANGED answer

\* A write returns, or a crash happens: fewer contents stay possible, and the
\* file holds one of them.
Settle ==
    /\ content' \in mayBe' /\ mayBe' \subseteq mayBe
    /\ UNCHANGED answer

Read ==
    /\ answer' = IF content = Absent THEN Default ELSE content
    /\ UNCHANGED <<content, mayBe>>

Kept == (\E v \in Values : Write(v)) \/ Settle \/ Read
Next == broken' \/ (UNCHANGED broken /\ Kept)

Spec == Init /\ [][Next]_vars
=============================================================================
