------------------------------ MODULE AutoDeploy ------------------------------
(***************************************************************************)
(* The machine that updates itself (deploy/autodeploy.sh): a timer runs    *)
(* the script, one at a time; it fetches, checks out what is new, builds   *)
(* and starts it, waits until the backend is healthy, and otherwise goes   *)
(* back to the commit it left.  The machine may stop between any two of    *)
(* these.  Commits are numbered as they are pushed.                        *)
(***************************************************************************)
EXTENDS Naturals

CONSTANTS
    LastCommit,     \* bound
    Broken          \* commits that can never become healthy

VARIABLES
    origin, head,   \* the branch as pushed, and what is checked out
    deployed, up,   \* the commit of the containers, and whether the backend answers
    script,         \* what the script is at, with LOCAL and REMOTE
    cut             \* history: the script was killed, or gave up, and none has finished since

deployVars == <<origin, head, deployed, up, script, cut>>
Commits == 1..LastCommit
Waiting == [pc |-> "waiting", previous |-> 1, remote |-> 1]
At(pc) == script.pc = pc
GoesTo(pc) == script' = [script EXCEPT !.pc = pc]

DeployInit ==
    /\ origin = 1 /\ head = 1 /\ deployed = 1 /\ up = TRUE
    /\ script = Waiting /\ cut = FALSE

Push ==
    /\ origin < LastCommit
    /\ origin' = origin + 1
    /\ UNCHANGED <<head, deployed, up, script, cut>>

\* The timer: fetch, and nothing to do when HEAD is at origin.
Begin ==
    /\ At("waiting") /\ head # origin
    /\ script' = [pc |-> "checkout", previous |-> head, remote |-> origin]
    /\ UNCHANGED <<origin, head, deployed, up, cut>>

NothingNew == At("waiting") /\ head = origin /\ UNCHANGED deployVars

\* git reset --hard, whose failure is not looked at, to the branch as it was fetched
\* or to the commit that was left.
Checkout ==
    /\ At("checkout")
    /\ head' \in {script.remote, head}
    /\ GoesTo("build")
    /\ UNCHANGED <<origin, deployed, up, cut>>

GoBack ==
    /\ At("goBack")
    /\ head' \in {script.previous, head}
    /\ GoesTo("buildAgain")
    /\ UNCHANGED <<origin, deployed, up, cut>>

FailedForGood == script' = Waiting /\ UNCHANGED cut

\* bring_up: a build that fails leaves the containers that run; one that
\* succeeds replaces them, for better or worse.
Failed == IF At("build") \/ At("watch") THEN GoesTo("goBack") /\ UNCHANGED cut
          ELSE script' = Waiting /\ cut' = TRUE

Build ==
    /\ At("build") \/ At("buildAgain")
    /\ \/ Failed /\ UNCHANGED <<deployed, up>>
       \/ /\ deployed' = head /\ up' = FALSE
          /\ GoesTo(IF At("build") THEN "watch" ELSE "watchAgain") /\ UNCHANGED cut
    /\ UNCHANGED <<origin, head>>

Healthy ==
    /\ At("watch") \/ At("watchAgain")
    /\ deployed \notin Broken
    /\ up' = TRUE /\ script' = Waiting /\ cut' = FALSE
    /\ UNCHANGED <<origin, head, deployed>>

\* Unhealthy, or not healthy in time.
TimesOut ==
    /\ At("watch") \/ At("watchAgain")
    /\ Failed
    /\ UNCHANGED <<origin, head, deployed, up>>

\* The machine stops; its containers start again by themselves.
Killed ==
    /\ ~At("waiting")
    /\ script' = Waiting /\ cut' = TRUE
    /\ UNCHANGED <<origin, head, deployed, up>>

ScriptStep == Begin \/ Checkout \/ GoBack \/ Build \/ Healthy \/ TimesOut
DeployNext == Push \/ NothingNew \/ ScriptStep \/ Killed
DeploySpec == DeployInit /\ [][DeployNext]_deployVars

\* The timer fires, and what can be built and can become healthy is so in the end.
Builds == At("build") /\ Build /\ deployed' = head
DeployFairness ==
    /\ WF_deployVars(ScriptStep)
    /\ SF_deployVars(Checkout /\ head' = origin)
    /\ SF_deployVars(Builds /\ head = origin)
    /\ SF_deployVars(Healthy /\ deployed = origin)

-----------------------------------------------------------------------------
\* Between two runs of the script the backend answers and is what HEAD says, unless
\* the last run was killed or neither commit came up (autodeploy.sh:49-56, a deploy
\* gate and not "a deploy hope").
AnswersAsCheckedOut == At("waiting") /\ ~cut => up /\ deployed = head

\* A good commit at the tip of the branch runs in the end, whatever failed before it
\* (autodeploy.sh:10), unless a run was cut short when HEAD was at origin already:
\* then nobody looks again before the next push.
GoodCommitArrives ==
    origin = LastCommit /\ LastCommit \notin Broken
        ~> (up /\ deployed = origin) \/ (cut /\ head = origin)
=============================================================================
