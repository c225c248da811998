--------------------------- MODULE LiveDashboard ---------------------------
(***************************************************************************)
(* The scan loop of _evm_legacy/src/run_live_with_dashboard.py.  A scan    *)
(* sends the best opportunity of each chain through the pipeline, then the *)
(* best overall unless it went through already; a best one across chains   *)
(* is only recorded, as rejected.  The pipeline (external to this loop)    *)
(* leaves one record or raises.  The local pipeline_result is assigned     *)
(* only where the best overall goes through the pipeline: elsewhere the    *)
(* alert that follows uses an earlier scan's, or fails where there is none *)
(* and ends the program.                                                   *)
(***************************************************************************)
EXTENDS Naturals, Sequences, FiniteSets

CONSTANTS
    Spreads,   \* opportunities: [buyChain, sellChain, big, id], big from BIG_WIN_THRESHOLD_PCT on
    LiveScans  \* --iterations

VARIABLES
    ldScan,    \* i
    ldStage,   \* "check", "fetch", "chains", "best", "recording", "alert", "serving", "done", "crashed"
    ldStop,    \* shutdown_requested
    ldBest,    \* result.best
    ldOfChain, \* per chain with one its opportunity after the liquidity filter
    ldKeys,    \* _processed_keys
    ldResult,  \* pipeline_result: unbound, None, or the scan and opportunity it is of
    ldRecords, \* history: [opp, status] recorded by this scan
    ldFailed,  \* history: opportunities whose record failed in this scan
    ldAlerts   \* history: [opp, link] of this scan

ldVars == <<ldScan, ldStage, ldStop, ldBest, ldOfChain, ldKeys, ldResult, ldRecords, ldFailed, ldAlerts>>

Unbound == [is |-> "unbound", scan |-> 0, opp |-> CHOOSE o \in Spreads : TRUE]
None == [Unbound EXCEPT !.is = "none"]

CrossChain(o) == o.buyChain # o.sellChain

Chains == {o.buyChain : o \in Spreads}

LdInit ==
    /\ ldScan = 0 /\ ldStage = "check" /\ ldStop = FALSE
    /\ ldBest \in Spreads
    /\ ldOfChain = <<>>
    /\ ldKeys = {} /\ ldResult = Unbound
    /\ ldRecords = <<>> /\ ldFailed = {} /\ ldAlerts = {}

\* The signal handler.
ShutdownSignal ==
    /\ ~ldStop /\ ldStage \notin {"done", "crashed"}
    /\ ldStop' = TRUE
    /\ UNCHANGED <<ldScan, ldStage, ldBest, ldOfChain, ldKeys, ldResult, ldRecords, ldFailed, ldAlerts>>

NextScan ==
    /\ ldStage = "check"
    /\ IF ldStop \/ ldScan = LiveScans
       THEN ldStage' = "serving" /\ UNCHANGED ldScan
       ELSE ldStage' = "fetch" /\ ldScan' = ldScan + 1
    /\ ldKeys' = {} /\ ldRecords' = <<>> /\ ldFailed' = {} /\ ldAlerts' = {}
    /\ UNCHANGED <<ldStop, ldBest, ldOfChain, ldResult>>

\* get_quotes raised, or no opportunity was found.
NothingToDo ==
    /\ ldStage = "fetch"
    /\ ldStage' = "check"
    /\ UNCHANGED <<ldScan, ldStop, ldBest, ldOfChain, ldKeys, ldResult, ldRecords, ldFailed, ldAlerts>>

\* scan_and_rank over the quotes, and find_best_opportunity over each chain's.
Ranked ==
    /\ ldStage = "fetch"
    /\ ldStage' = "chains"
    /\ ldBest' \in Spreads
    /\ \E some \in SUBSET Chains :
        ldOfChain' \in {best \in [some -> {o \in Spreads : ~CrossChain(o)}] :
                            \A c \in some : best[c].buyChain = c}
    /\ UNCHANGED <<ldScan, ldStop, ldKeys, ldResult, ldRecords, ldFailed, ldAlerts>>

\* pipeline.process, whose exception is logged.
Processed(o) ==
    \/ ldRecords' = Append(ldRecords, [opp |-> o, status |-> "processed"]) /\ UNCHANGED ldFailed
    \/ ldFailed' = ldFailed \cup {o} /\ UNCHANGED ldRecords

\* Mutant: the chain pass notes no key.
KeysWithout(o) == ldKeys

KeysWith(o) == ldKeys \cup {o}

ProcessChain ==
    /\ ldStage = "chains"
    /\ \E c \in DOMAIN ldOfChain :
        /\ Processed(ldOfChain[c])
        /\ ldKeys' = KeysWith(ldOfChain[c])
        /\ ldOfChain' = [d \in DOMAIN ldOfChain \ {c} |-> ldOfChain[d]]
    /\ UNCHANGED <<ldScan, ldStage, ldStop, ldBest, ldResult, ldAlerts>>

ChainsDone ==
    /\ ldStage = "chains" /\ DOMAIN ldOfChain = {}
    /\ ldStage' = "best"
    /\ UNCHANGED <<ldScan, ldStop, ldBest, ldOfChain, ldKeys, ldResult, ldRecords, ldFailed, ldAlerts>>

BestAlreadyProcessed ==
    /\ ldStage = "best" /\ ldBest \in ldKeys
    /\ ldStage' = "alert"
    /\ UNCHANGED <<ldScan, ldStop, ldBest, ldOfChain, ldKeys, ldResult, ldRecords, ldFailed, ldAlerts>>

\* The best goes across chains: four writes with a commit each, none of them
\* in a try; before the last its row says "detected".
RecordCrossChain ==
    /\ \/ /\ ldStage = "best" /\ ldBest \notin ldKeys /\ CrossChain(ldBest)
          /\ \/ /\ ldRecords' = Append(ldRecords, [opp |-> ldBest, status |-> "detected"])
                /\ ldStage' = "recording"
             \/ ldStage' = "crashed" /\ UNCHANGED ldRecords
       \/ /\ ldStage = "recording"
          /\ \/ /\ ldRecords' = [ldRecords EXCEPT ![Len(ldRecords)].status = "rejected"]
                /\ ldStage' = "alert"
             \/ ldStage' = "crashed" /\ UNCHANGED ldRecords
    /\ UNCHANGED <<ldScan, ldStop, ldBest, ldOfChain, ldKeys, ldResult, ldFailed, ldAlerts>>

ProcessBest ==
    /\ ldStage = "best" /\ ldBest \notin ldKeys /\ ~CrossChain(ldBest)
    /\ Processed(ldBest)
    /\ ldResult' = IF ldBest \in ldFailed' THEN None ELSE [is |-> "result", scan |-> ldScan, opp |-> ldBest]
    /\ ldStage' = "alert"
    /\ UNCHANGED <<ldScan, ldStop, ldBest, ldOfChain, ldKeys, ldAlerts>>

\* check_opportunity, whose arguments read pipeline_result, then
\* maybe_send_hourly, whose queries may raise.
CheckOpportunity ==
    /\ ldStage = "alert"
    /\ IF ldResult = Unbound
       THEN ldStage' = "crashed" /\ UNCHANGED ldAlerts
       ELSE /\ ldAlerts' = IF ldBest.big THEN {[opp |-> ldBest, link |-> ldResult]} ELSE {}
            /\ ldStage' \in {"check", "crashed"}
    /\ UNCHANGED <<ldScan, ldStop, ldBest, ldOfChain, ldKeys, ldResult, ldRecords, ldFailed>>

\* The dashboard serves until a signal.
ServeUntilSignal ==
    /\ ldStage = "serving" /\ ldStop
    /\ ldStage' = "done"
    /\ UNCHANGED <<ldScan, ldStop, ldBest, ldOfChain, ldKeys, ldResult, ldRecords, ldFailed, ldAlerts>>

LdNext ==
    \/ ShutdownSignal \/ NextScan \/ NothingToDo \/ Ranked \/ ProcessChain \/ ChainsDone
    \/ BestAlreadyProcessed \/ RecordCrossChain \/ ProcessBest \/ CheckOpportunity \/ ServeUntilSignal

TimesRecorded(o) == Cardinality({i \in DOMAIN ldRecords : ldRecords[i].opp = o})

\* An opportunity that is found twice in a scan, as its chain's best and as the
\* best overall, is recorded once and never tried again after a failure; when
\* the scan reaches its alert the best overall has its record unless it failed,
\* and an alert links to the opportunity just recorded or to one of an earlier
\* scan, never to another of the same scan.
ProcessedOnce ==
    /\ \A o \in Spreads : TimesRecorded(o) + (IF o \in ldFailed THEN 1 ELSE 0) <= 1
    /\ ldStage = "alert" => (TimesRecorded(ldBest) = 1) = (ldBest \notin ldFailed)
    /\ \A a \in ldAlerts : a.link.scan = ldScan => a.link.opp = a.opp
=============================================================================
