----------------------------- MODULE PollingBot -----------------------------
(***************************************************************************)
(* The older polling bot: ArbitrageBot.run (src/execution/bot.py), which   *)
(* hands its best opportunity straight to an executor, the PaperExecutor   *)
(* (src/execution/executor.py) and the entry point that wires them         *)
(* (src/main.py).  No risk policy, no database, no consumer: the shutdown  *)
(* flag and dry_run are all that stands before the executor.               *)
(*                                                                         *)
(* What is left of a run is its log of JSON lines                          *)
(* (src/observability/log.py), from which perf_tracker.py counts scans,    *)
(* finds and executions afterwards.  A line the process did not finish is  *)
(* one the tracker skips.                                                  *)
(***************************************************************************)
EXTENDS ArbScanner

CONSTANTS
    BotPairs,       \* _build_pair_list, by name
    BotDeviation,   \* max_deviation of _filter_outliers
    Iterations      \* --iterations

ASSUME BotAssumption == BotDeviation \in Nat /\ Iterations \in Nat

VARIABLES
    botWiring,  \* the executor and dry_run, chosen in main
    botStage,
    botScans,   \* total_scans, also the index of the loop
    botFound,   \* opportunities_found
    botExecuted, \* executed_count
    botShutdown, \* _shutdown_requested
    botDecision, \* the decision of this scan, and the result of its execution
    botLog,     \* the lines of the data log
    botSummary, \* what log_summary wrote and daily_summary sent
    botLate,    \* history: executor calls since the request
    botErrors   \* history: scans whose get_quotes raised

botVars == <<botWiring, botStage, botScans, botFound, botExecuted, botShutdown, botDecision,
             botLog, botSummary, botLate, botErrors>>

Wirings == [live : BOOLEAN, dry : BOOLEAN]
NoSummary == [scans |-> 0, found |-> 0, executed |-> 0]

BotInit ==
    /\ botWiring \in Wirings
    /\ botStage = "start"
    /\ botScans = 0
    /\ botFound = 0
    /\ botExecuted = 0
    /\ botShutdown = FALSE
    /\ botDecision = "none"
    /\ botLog = <<>>
    /\ botSummary = NoSummary
    /\ botLate = 0
    /\ botErrors = 0

\* main: without the operator's 'yes', or with a gate of SolanaExecutor closed,
\* a live run ends here; it never falls back to paper.
Start ==
    /\ botStage = "start"
    /\ \/ botStage' = "check"
       \/ botWiring.live /\ botStage' = "over"
    /\ UNCHANGED <<botWiring, botScans, botFound, botExecuted, botShutdown, botDecision, botLog,
                   botSummary, botLate, botErrors>>

\* SIGTERM or SIGINT, once the handler is installed.
RequestShutdown ==
    /\ botStage \notin {"start", "over"}
    /\ botShutdown' = TRUE
    /\ UNCHANGED <<botWiring, botStage, botScans, botFound, botExecuted, botDecision, botLog,
                   botSummary, botLate, botErrors>>

\* The process dies: stop.sh has the container killed ten seconds after SIGTERM.
Kill ==
    /\ botStage # "over"
    /\ botStage' = "over"
    /\ UNCHANGED <<botWiring, botScans, botFound, botExecuted, botShutdown, botDecision, botLog,
                   botSummary, botLate, botErrors>>

\* Mutant: the flag is not looked at.
StopsHereNever == botScans = Iterations

StopsHere == botScans = Iterations \/ botShutdown

\* log_summary and daily_summary are given the same totals.
Summary == [scans |-> botScans, found |-> botFound, executed |-> botExecuted]

\* The head of the loop, or the summary after it.
CheckShutdown ==
    /\ botStage = "check"
    /\ IF StopsHere
       THEN /\ botStage' = "over"
            /\ botSummary' = Summary
            /\ UNCHANGED botScans
       ELSE /\ botStage' = "fetch"
            /\ botScans' = botScans + 1
            /\ UNCHANGED botSummary
    /\ UNCHANGED <<botWiring, botFound, botExecuted, botShutdown, botDecision, botLog, botLate, botErrors>>

\* Back to the head; after a scan that did not fail the bot sleeps on the way,
\* and the sleep outlasts a signal.
EndIteration == botStage' = "check"

\* _filter_outliers against the pair's median in this scan.
Filtered(quotes) == {q \in quotes : ~Deviates(q, quotes, BotDeviation)}

\* The strategy sees the pairs one after the other, so that a pair before the
\* SOL pair is valued at an earlier scan's price of SOL.
SolPriceAt(n, quotes) ==
    LET Seen == {q \in quotes : \E i \in 1 .. n : q.pair = BotPairs[i]}
    IN IF Cardinality({q \in Seen : q.pair \in SolBase}) < 2 THEN solPrice ELSE SolPrice(Seen)

Opportunities(quotes) ==
    {r \in Evaluated(quotes) :
        \E n \in DOMAIN BotPairs : r.buy.pair = BotPairs[n] /\ NetBeyond(r, MinProfit, SolPriceAt(n, quotes)) > 0}

FetchAndEvaluate(quotes) ==
    /\ botStage = "fetch"
    /\ LET kept == Filtered(quotes)
           has == Opportunities(kept) # {}
       IN /\ solPrice' = SolPriceAt(Len(BotPairs), kept)
          /\ botFound' = IF has THEN botFound + 1 ELSE botFound
          /\ botStage' = IF has /\ ~botWiring.dry THEN "execute" ELSE "log_scan"
          /\ botDecision' = IF ~has THEN "no_opportunity" ELSE IF botWiring.dry THEN "dry_run_skip" ELSE "none"
    /\ UNCHANGED <<botWiring, botScans, botExecuted, botShutdown, botLog, botSummary, botLate, botErrors>>

MarketRaises ==
    /\ botStage = "fetch"
    /\ EndIteration
    /\ botErrors' = botErrors + 1
    /\ UNCHANGED <<botWiring, botScans, botFound, botExecuted, botShutdown, botDecision, botLog,
                   botSummary, botLate, solPrice>>

\* executor.execute: paper always succeeds, as the profit is above min_profit; a
\* live executor may also fail, at the simulation or elsewhere, or raise and end
\* the program.
ExecuteBest ==
    /\ botStage = "execute"
    /\ botLate' = IF botShutdown THEN botLate + 1 ELSE botLate
    /\ \/ /\ botExecuted' = botExecuted + 1
          /\ botDecision' = "executed"
          /\ botStage' = "log_scan"
       \/ /\ botWiring.live
          /\ botDecision' \in {"simulation_failed", "failed"}
          /\ botStage' = "log_scan"
          /\ UNCHANGED botExecuted
       \/ /\ botWiring.live
          /\ botStage' = "over"
          /\ UNCHANGED <<botExecuted, botDecision>>
    /\ UNCHANGED <<botWiring, botScans, botFound, botShutdown, botLog, botSummary, botErrors>>

Line(event) == [event |-> event, decision |-> botDecision]

\* log_scan; a failed execution is written as 'skipped:' and the reason.
LogScan ==
    /\ botStage = "log_scan"
    /\ botLog' = Append(botLog, Line("scan"))
    /\ IF botDecision \in {"no_opportunity", "dry_run_skip"} THEN EndIteration ELSE botStage' = "log_execution"
    /\ UNCHANGED <<botWiring, botScans, botFound, botExecuted, botShutdown, botDecision, botSummary,
                   botLate, botErrors>>

LogExecution ==
    /\ botStage = "log_execution"
    /\ botLog' = Append(botLog, Line("execution"))
    /\ EndIteration
    /\ UNCHANGED <<botWiring, botScans, botFound, botExecuted, botShutdown, botDecision, botSummary,
                   botLate, botErrors>>

BotNext ==
    \/ /\ \/ Start \/ RequestShutdown \/ Kill \/ CheckShutdown \/ ExecuteBest
          \/ LogScan \/ LogExecution
       /\ UNCHANGED solPrice
    \/ MarketRaises
    \/ \E quotes \in QuoteSets : FetchAndEvaluate(quotes)

\* analyze_jsonl: it reads the two kinds of lines apart, so that one execution
\* counts in both.
Report(log) ==
    LET Lines(event, decisions) ==
            Cardinality({i \in DOMAIN log : log[i].event = event /\ log[i].decision \in decisions})
        Tried == {"executed", "simulation_failed", "failed"}
    IN [scans |-> Lines("scan", Tried \cup {"no_opportunity", "dry_run_skip"}),
        found |-> Lines("scan", Tried \cup {"dry_run_skip"}),
        dry |-> Lines("scan", {"dry_run_skip"}),
        executed |-> Lines("execution", Tried),
        success |-> Lines("execution", {"executed"})]

\* A shutdown request lets at most the trade of the current iteration through; a
\* dry run trades nothing. The log read afterwards says what happened: at the
\* end of a run it agrees with the summary but for the scans that failed, and
\* when the run was killed or died in the executor it lacks one scan at most.
BotAccounted ==
    LET r == Report(botLog)
    IN /\ botLate <= 1
       /\ botWiring.dry => r.executed = 0 /\ r.dry = r.found
       /\ botScans - botErrors - r.scans \in {0, 1}
       /\ botFound - r.found \in {0, 1}
       /\ botExecuted - r.success \in {0, 1}
       /\ botSummary # NoSummary =>
            /\ botSummary = [scans |-> r.scans + botErrors, found |-> r.found, executed |-> r.success]
            /\ r.found = r.dry + r.executed
=============================================================================
