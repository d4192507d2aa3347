---------------------------- MODULE ProcCollector ---------------------------
(***************************************************************************)
(* The process list: the main thread asks for a round of /proc in          *)
(* SystemState::sample and never waits, one worker thread scans, a worker  *)
(* that dies is replaced, and a worker that cannot be started is replaced  *)
(* by a scan on the main thread.                                           *)
(*                                                                         *)
(* The main thread and the worker interleave at every channel operation.   *)
(* A round is known by its number and by whether its CPU figures had a     *)
(* previous round to be computed from.                                     *)
(***************************************************************************)
EXTENDS Naturals, Sequences

CONSTANTS
    MaxRounds,    \* bound: the rounds ever asked for
    MaxDeaths,    \* bound: panics of a worker
    MaxRefusals   \* bound: threads that the system refuses to start

CollectorBounds ==
    MaxRounds \in Nat /\ MaxDeaths \in Nat /\ MaxRefusals \in Nat

VARIABLES
    main,       \* the main thread is about to "poll" or to "request"
    scanner,    \* the scanner it keeps: "none", "fresh", "primed"
    worker,     \* it holds the two channels of a worker
    pending,
    asked,      \* number of the newest round asked for
    shown,      \* the round on the page
    requests,   \* channel to the worker
    results,    \* channel from the worker
    thread,     \* the worker: "none", "waiting", "scanning", "dead"
    hears,      \* the worker has not dropped its end of requests ...
    speaks,     \* ... nor its end of results
    primed,     \* the worker's scanner remembers a round
    deaths, refusals

mainVars == <<main, scanner, worker, pending, asked, shown>>
workerVars == <<thread, hears, speaks, primed>>
vars == <<mainVars, workerVars, requests, results, deaths, refusals>>

\* "default" is the empty list; "baseless" a list whose CPU figures are all 0.
Lists == {"default", "baseless", "full"}
RoundRecords == [round : 0..MaxRounds, list : Lists]

TypeOK ==
    /\ main \in {"poll", "request"}
    /\ scanner \in {"none", "fresh", "primed"}
    /\ worker \in BOOLEAN
    /\ pending \in BOOLEAN
    /\ asked \in 0..MaxRounds
    /\ shown \in RoundRecords
    /\ requests \in Seq(1..MaxRounds)
    /\ results \in Seq(RoundRecords)
    /\ thread \in {"none", "waiting", "scanning", "dead"}
    /\ hears \in BOOLEAN
    /\ speaks \in BOOLEAN
    /\ primed \in BOOLEAN
    /\ deaths \in 0..MaxDeaths
    /\ refusals \in 0..MaxRefusals

Init ==
    /\ main = "poll"
    /\ scanner = "fresh"
    /\ worker = FALSE
    /\ pending = FALSE
    /\ asked = 0
    /\ shown = [round |-> 0, list |-> "default"]
    /\ requests = <<>>
    /\ results = <<>>
    /\ thread = "none"
    /\ hears = FALSE
    /\ speaks = FALSE
    /\ primed = FALSE
    /\ deaths = 0
    /\ refusals = 0

-----------------------------------------------------------------------------
(* The worker *)

\* Scanner::scan: what a scan gives, and whether the scanner remembers a round
\* after it. A /proc that cannot be opened leaves the scanner as it was.
Scans(remembers) ==
    {[list |-> "default", primed |-> remembers],
     [list |-> IF remembers THEN "full" ELSE "baseless", primed |-> TRUE]}

WorkerReceives ==
    /\ thread = "waiting"
    /\ requests # <<>>
    /\ thread' = "scanning"
    /\ UNCHANGED <<mainVars, hears, speaks, primed, requests, results, deaths,
                   refusals>>

\* The request being scanned stays at the head of its channel until the scan
\* ends: nobody but the worker looks there.
WorkerScans ==
    /\ thread = "scanning"
    /\ \E s \in Scans(primed) :
          /\ results' = Append(results, [round |-> Head(requests), list |-> s.list])
          /\ primed' = s.primed
    /\ requests' = Tail(requests)
    /\ thread' = "waiting"
    /\ UNCHANGED <<mainVars, hears, speaks, deaths, refusals>>

WorkerPanics ==
    /\ thread = "scanning"
    /\ deaths < MaxDeaths
    /\ deaths' = deaths + 1
    /\ thread' = "dead"
    /\ requests' = Tail(requests)
    /\ UNCHANGED <<mainVars, hears, speaks, primed, results, refusals>>

\* Unwinding drops the captured ends of the channels, in an order the language
\* leaves open; the main thread may run in between.
DeadDropsRequests ==
    /\ thread = "dead" /\ hears
    /\ hears' = FALSE
    /\ requests' = <<>>
    /\ UNCHANGED <<mainVars, thread, speaks, primed, results, deaths, refusals>>

DeadDropsResults ==
    /\ thread = "dead" /\ speaks
    /\ speaks' = FALSE
    /\ UNCHANGED <<mainVars, thread, hears, primed, requests, results, deaths,
                   refusals>>

-----------------------------------------------------------------------------
(* The main thread: SystemState::sample polls, then requests if it is time *)

\* poll(): every result that is there replaces the list.
PollTakes ==
    /\ main = "poll" /\ worker
    /\ results # <<>>
    /\ shown' = Head(results)
    /\ results' = Tail(results)
    /\ pending' = FALSE
    /\ UNCHANGED <<main, scanner, worker, asked, workerVars, requests, deaths,
                   refusals>>

\* Slip: a closed channel ends the loop but leaves the round pending.
PollEndsWaiting ==
    /\ main = "poll"
    /\ worker => results = <<>>
    /\ main' = "request"
    /\ UNCHANGED <<scanner, worker, pending, asked, shown, workerVars, requests,
                   results, deaths, refusals>>

\* ... until the channel is empty, or closed: then the round is given up.
PollEnds ==
    /\ main = "poll"
    /\ worker => results = <<>>
    /\ pending' = (pending /\ (worker => speaks))
    /\ main' = "request"
    /\ UNCHANGED <<scanner, worker, asked, shown, workerVars, requests, results,
                   deaths, refusals>>

NotDue ==
    /\ main = "request"
    /\ main' = "poll"
    /\ UNCHANGED <<scanner, worker, pending, asked, shown, workerVars, requests,
                   results, deaths, refusals>>

\* A round is under way: the request is dropped.
RequestDropped ==
    /\ main = "request"
    /\ pending
    /\ main' = "poll"
    /\ UNCHANGED <<scanner, worker, pending, asked, shown, workerVars, requests,
                   results, deaths, refusals>>

\* Slip: request() does not look at pending.
MayRequestAlways ==
    /\ main = "request"
    /\ asked < MaxRounds

\* What every accepted request does.
MayRequest ==
    /\ main = "request"
    /\ ~pending
    /\ asked < MaxRounds

Asks ==
    /\ MayRequest
    /\ main' = "poll"
    /\ asked' = asked + 1

\* spawn_worker: a thread with new channels, asked for its first round.
Starts(remembers) ==
    /\ worker' = TRUE
    /\ pending' = TRUE
    /\ thread' = "waiting"
    /\ hears' = TRUE
    /\ speaks' = TRUE
    /\ primed' = remembers
    /\ requests' = <<asked'>>
    /\ results' = <<>>
    /\ UNCHANGED <<shown, deaths, refusals>>

Refused ==
    /\ refusals < MaxRefusals
    /\ refusals' = refusals + 1
    /\ UNCHANGED <<workerVars, requests, results, deaths>>

\* The first request hands the scanner over to a worker.
RequestStarts ==
    /\ Asks
    /\ ~worker
    /\ scanner' = "none"
    /\ Starts(scanner = "primed")

\* No thread: the scanner handed over is lost with the attempt, a new one
\* scans on the main thread.
RequestScansHere ==
    /\ Asks
    /\ ~worker
    /\ Refused
    /\ \E s \in Scans(FALSE) :
          /\ shown' = [round |-> asked', list |-> s.list]
          /\ scanner' = IF s.primed THEN "primed" ELSE "fresh"
    /\ UNCHANGED <<worker, pending>>

RequestSent ==
    /\ Asks
    /\ worker /\ hears
    /\ requests' = Append(requests, asked')
    /\ pending' = TRUE
    /\ UNCHANGED <<scanner, worker, shown, workerVars, results, deaths, refusals>>

\* The worker is dead: another one, with a scanner that remembers nothing.
RequestReplaces ==
    /\ Asks
    /\ worker /\ ~hears
    /\ UNCHANGED scanner
    /\ Starts(FALSE)

RequestLost ==
    /\ Asks
    /\ worker /\ ~hears
    /\ Refused
    /\ worker' = FALSE
    /\ pending' = FALSE
    /\ UNCHANGED <<scanner, shown>>

Request ==
    \/ RequestDropped
    \/ RequestStarts
    \/ RequestScansHere
    \/ RequestSent
    \/ RequestReplaces
    \/ RequestLost

Worker ==
    \/ WorkerReceives
    \/ WorkerScans
    \/ WorkerPanics
    \/ DeadDropsRequests
    \/ DeadDropsResults

Poll == PollTakes \/ PollEnds

Next == Worker \/ Poll \/ NotDue \/ Request

Spec == Init /\ [][Next]_vars

\* Nobody pauses the program for ever: the main loop comes back to sample()
\* again and again and the interval runs out again and again. The worker runs
\* on, and a scan ends.
Fairness ==
    /\ WF_vars(Poll)
    /\ WF_vars(NotDue \/ Request)
    /\ SF_vars(Request)
    /\ WF_vars(Worker)

FairSpec == Spec /\ Fairness

-----------------------------------------------------------------------------
(* What must hold *)

\* The rounds under way: asked of a thread that lives, being scanned, or
\* scanned and not taken.
UnderWay ==
    Len(results) + IF thread \in {"waiting", "scanning"} THEN Len(requests) ELSE 0

\* process.rs: "there is only ever one round being scanned (pending)". It is
\* pending from the request until its result is taken, and a worker that dies
\* or is replaced never leaves a second round behind it.
OneRoundAtATime ==
    /\ UnderWay <= 1
    /\ UnderWay = 1 => pending

\* The page is promised the newest round asked for, one at a time.
Promise == INSTANCE ScanPromise WITH busy <- pending, shown <- shown.round
KeepsPromise == Promise!Spec

\* A round asked for is not waited for for ever, not even if the worker dies
\* between the request and the result: the list on the page never freezes.
PendingEnds == pending ~> ~pending
=============================================================================
