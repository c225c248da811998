---------------------------- MODULE VenueFanout ----------------------------
(***************************************************************************)
(* MultiVenueMarket (src/market/multi_venue_market.py): every scan hands   *)
(* one job per backend to a thread pool that all scans share, and merges   *)
(* the quotes in the order the jobs end.  A job that is still running when *)
(* its scan has given up keeps its worker; the jobs of later scans queue   *)
(* behind it.  A job's quotes are known by the job that brought them.      *)
(***************************************************************************)
EXTENDS Naturals, Sequences, FiniteSets

CONSTANTS
    Backends,   \* the sequence of backends, by name
    MaxScans    \* bound: calls of get_quotes

\* The entry points wire venues of different names.
ASSUME FanoutAssumption ==
    /\ Backends \in Seq({Backends[i] : i \in DOMAIN Backends})
    /\ Len(Backends) > 0
    /\ \A i, j \in DOMAIN Backends : Backends[i] = Backends[j] => i = j
    /\ MaxScans \in Nat

VARIABLES
    fanScan,    \* calls of get_quotes so far
    fanStage,   \* what the caller is doing: "idle", "collecting"
    fanQueue,   \* the pool's work queue
    fanRunning, \* jobs the workers have in hand
    fanDone,    \* futures that are done, with their outcome
    fanYielded, \* jobs of this scan as_completed has yielded
    fanOut,     \* quotes merged so far
    fanResult,  \* what the last call came to
    fanTimings  \* last_venue_timings_ms: the venues timed in this scan

fanVars == <<fanScan, fanStage, fanQueue, fanRunning, fanDone, fanYielded, fanOut, fanResult, fanTimings>>

Jobs == [scan : 1 .. MaxScans, venue : {Backends[i] : i \in DOMAIN Backends}]
JobOutcomes == {"quotes", "error"}
\* max_workers=max(2, len(backends))
NumWorkers == IF Len(Backends) > 2 THEN Len(Backends) ELSE 2

FanInit ==
    /\ fanScan = 0
    /\ fanStage = "idle"
    /\ fanQueue = <<>>
    /\ fanRunning = {}
    /\ fanDone = [j \in {} |-> "quotes"]
    /\ fanYielded = {}
    /\ fanOut = {}
    /\ fanResult = [kind |-> "none", quotes |-> {}]
    /\ fanTimings = {}

JobsOfScan == {j \in Jobs : j.scan = fanScan}
Pending == JobsOfScan \ fanYielded

SubmitJobs ==
    /\ fanStage = "idle"
    /\ fanScan < MaxScans
    /\ fanScan' = fanScan + 1
    /\ fanStage' = "collecting"
    /\ fanQueue' = fanQueue \o [i \in DOMAIN Backends |-> [scan |-> fanScan', venue |-> Backends[i]]]
    /\ fanYielded' = {}
    /\ fanOut' = {}
    /\ fanTimings' = {}
    /\ UNCHANGED <<fanRunning, fanDone, fanResult>>

\* A free worker takes the oldest job, whether or not anyone still waits for it.
TakeJob ==
    /\ fanQueue # <<>>
    /\ Cardinality(fanRunning) < NumWorkers
    /\ fanRunning' = fanRunning \cup {Head(fanQueue)}
    /\ fanQueue' = Tail(fanQueue)
    /\ UNCHANGED <<fanScan, fanStage, fanDone, fanYielded, fanOut, fanResult, fanTimings>>

\* _timed: the backend returns quotes or raises, which _timed catches.
EndJob(j) ==
    /\ j \in fanRunning
    /\ fanRunning' = fanRunning \ {j}
    /\ \E outcome \in JobOutcomes : fanDone' = [k \in DOMAIN fanDone \cup {j} |-> IF k = j THEN outcome ELSE fanDone[k]]
    /\ UNCHANGED <<fanScan, fanStage, fanQueue, fanYielded, fanOut, fanResult, fanTimings>>

\* Mutant: the futures of all scans are collected.
CollectableAny == DOMAIN fanDone \ fanYielded

Collectable == DOMAIN fanDone \cap Pending

\* as_completed yields a future; an error is logged, quotes are merged.
Collect(j) ==
    /\ fanStage = "collecting"
    /\ j \in Collectable
    /\ fanYielded' = fanYielded \cup {j}
    /\ fanTimings' = fanTimings \cup {j.venue}
    /\ fanOut' = IF fanDone[j] = "quotes" THEN fanOut \cup {j} ELSE fanOut
    /\ UNCHANGED <<fanScan, fanStage, fanQueue, fanRunning, fanDone, fanResult>>

Return ==
    /\ fanStage = "collecting"
    /\ Pending = {}
    /\ fanStage' = "idle"
    /\ fanResult' = [kind |-> "returned", quotes |-> fanOut]
    /\ UNCHANGED <<fanScan, fanQueue, fanRunning, fanDone, fanYielded, fanOut, fanTimings>>

\* Six seconds after as_completed was called: it raises out of get_quotes, and
\* what was merged goes with the frame.
TimeUp ==
    /\ fanStage = "collecting"
    /\ Pending # {}
    /\ fanStage' = "idle"
    /\ fanResult' = [kind |-> "raised", quotes |-> {}]
    /\ UNCHANGED <<fanScan, fanQueue, fanRunning, fanDone, fanYielded, fanOut, fanTimings>>

FanNext ==
    \/ SubmitJobs \/ TakeJob \/ Return \/ TimeUp
    \/ \E j \in Jobs : EndJob(j) \/ Collect(j)

\* A scan that returns has exactly the quotes of its own jobs that succeeded: a
\* failing backend costs no other's quotes, and the late answer of a job an
\* earlier scan gave up on never passes for a fresh quote.
QuotesOfThisScan ==
    fanStage = "idle" /\ fanResult.kind = "returned" =>
        fanResult.quotes = {j \in JobsOfScan : j \in DOMAIN fanDone /\ fanDone[j] = "quotes"}
=============================================================================
