------------------------------- MODULE MCLoops --------------------------------
(***************************************************************************)
(* Small instances of what goes on behind the requests: the polling loop   *)
(* (StreamIngest, where one symbol can never be priced), an answer in the  *)
(* response cache (SwrCache) and the deployment of three commits, the      *)
(* second of which cannot run (AutoDeploy).  One of the three runs, the    *)
(* others stay where they began; every constant is a bound already.        *)
(***************************************************************************)
EXTENDS StreamIngest, SwrCache, AutoDeploy

VARIABLE runs

allVars == <<vars, cacheVars, deployVars, runs>>

AllInit == runs \in {"ingest", "cache", "deploy"} /\ Init /\ CacheInit /\ DeployInit
OnIngest(A) == runs = "ingest" /\ A /\ UNCHANGED <<cacheVars, deployVars, runs>>
OnCache(A) == runs = "cache" /\ A /\ UNCHANGED <<vars, deployVars, runs>>
OnDeploy(A) == runs = "deploy" /\ A /\ UNCHANGED <<vars, cacheVars, runs>>
AllNext == OnIngest(Next) \/ OnCache(CacheNext) \/ OnDeploy(DeployNext)
AllSpec == AllInit /\ [][AllNext]_allVars

\* The fairness of each.  Only one of them runs, so that a disjunction of their
\* steps is as fair to it as its own step.
FairLoops ==
    /\ AllSpec
    /\ \A t \in Threads :
          WF_allVars(OnIngest(PollAnswer \/ PollFails) \/ OnCache(Runs(t)) \/ OnDeploy(ScriptStep))
    /\ \A t \in Workers :
          SF_allVars(OnIngest(PollStart) \/ OnCache(ProviderAnswers(t)) \/ OnDeploy(Checkout /\ head' = origin))
    /\ \A t \in Pool :
          SF_allVars(OnIngest(PollAnswer) \/ OnCache(ProviderAnswers(t)) \/ OnDeploy(Builds /\ head = origin))
    /\ SF_allVars(OnIngest(Tick) \/ OnCache(Lapse("fresh")) \/ OnDeploy(Healthy /\ deployed = origin))

\* As long as the passes keep up, every symbol somebody looks at is asked for again
\* and again; an answer that is asked for again and again is in the end what the
\* provider would say; and a good commit is in the end what runs, unless the run
\* that deployed it was cut short.
WorkGoesOn ==
    /\ runs = "ingest" => EveryonePolled
    /\ runs = "cache" => CatchesUp
    /\ runs = "deploy" => GoodCommitArrives
=============================================================================
