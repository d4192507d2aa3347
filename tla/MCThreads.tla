------------------------------ MODULE MCThreads ------------------------------
(* What runs in threads of its own, for TLC: the queries of one            *)
(* administrator tab and its detail pane, and the worker that scans the    *)
(* processes. They share nothing: a behaviour watches one (watched), the   *)
(* other stands.                                                           *)
EXTENDS AdminQueries

CONSTANTS MaxRounds, MaxDeaths, MaxRefusals

VARIABLES
    watched,
    main, scanner, worker, pending, asked, shown, requests, results,
    thread, hears, speaks, primed, deaths, refusals

C == INSTANCE ProcCollector

ASSUME CollectorAssumption == C!CollectorBounds

collectorVars == <<main, scanner, worker, pending, asked, shown, requests, results,
                   thread, hears, speaks, primed, deaths, refusals>>

\* One that is not watched stands in one of its initial states.
ThreadsInit ==
    /\ watched \in {"processes", "queries"}
    /\ Init /\ C!Init
    /\ watched = "processes" => ~helper /\ cred = "denied"

ThreadsNext ==
    \/ watched = "processes" /\ C!Next /\ UNCHANGED <<watched, vars>>
    \/ watched = "queries" /\ Next /\ UNCHANGED <<watched, collectorVars>>

ThreadsSpec ==
    /\ ThreadsInit /\ [][ThreadsNext]_<<watched, vars, collectorVars>>
    /\ watched = "processes" => C!Fairness
    /\ watched = "queries" => Fairness

\* What ProcCollector states; nothing is pending where it stands.
OneRoundAtATime == C!OneRoundAtATime
KeepsPromise == C!KeepsPromise
PendingEnds == C!PendingEnds
=============================================================================
