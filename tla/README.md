# A verification model of SolanaTrader

TLA+ modules, TLC configurations and TLAPS proofs for the Solana arbitrage
trader in `src/`.  All paths below are relative to the repository root.

## 1. The system and its parts

One Python process (`src/run_event_driven.py`) scans venues for price
differences and passes candidates through a pipeline to the network.

| Component | State | Operations | Interacts with |
|---|---|---|---|
| Scanner loop (`run_event_driven.run`, main thread) | scan count, queue, stop event | fetch quotes, filter, scan, save history, enqueue, wait; shutdown | market, scanner, repository, queue, control state |
| Consumer (thread) | the opportunity in hand | get from the queue, `pipeline.process`, record | queue, pipeline |
| Candidate pipeline (`pipeline/lifecycle.py`) | none but the database | `process`: detect, price, risk, simulate, submit, verify | repository, risk policy, simulator, submitter, verifier, dispatcher |
| Database connection (`persistence/db.py`) | open transaction, `_batch_depth` | execute, commit, batch | every thread of the process |
| Repository (`persistence/repository.py`) | tables, `_count_cache` | one method per row kind | connection |
| Runtime control (`control_state.py`) and API (`api/app.py`) | paused, disabled venues and pairs, the kill-switch file | pause, resume, disable, enable, kill | scanner loop, executor |
| Risk policy (`risk/`) | thresholds | rules in order, first rejection wins | pipeline |
| Executor (`execution/`) | wallet, gates | build and sign, simulate, submit, verify | RPC client, kill-switch file |
| Market (`market/`) | cooldowns, rotation, thread pool | get_quotes | RPC and HTTP |
| Strategy and scanner (`strategy/`) | pending scan records | scan_and_rank | quotes |
| Poll controller (`core/adaptive_poll.py`) | window of hits | observe, interval | the loop |
| Failover and caches (`data/`) | error counts, deadlines | select, book, expire | the legacy trader |
| Older bot and stubs (`execution/bot.py`, `atomic_swap.py`) | shutdown flag, totals | polling loop; two legs in one transaction | market, executor |
| Observability, alerting, dashboards, discovery | counters, files | record, send, render, search | everyone |
| Legacy EVM trader (`_evm_legacy/`) | endpoints, skip cache, nonces, report clocks, pair snapshot | scan loop, on-chain quotes, flash-loan execution, hourly and daily reports, pair refresh | EVM nodes, mail, DexScreener, the contract |

What is hard here:

* **One connection, several threads.**  `batch()` suppresses commits by a
  counter of the *connection*.  The scanner's `save_scan_history` and the
  consumer's `process` therefore share a transaction, and each one's commit or
  rollback acts on what the other wrote.
* **One transaction around the network.**  `process` holds its transaction open
  over simulation, submission and verification.  Exceptions, a failing commit
  and a kill can each fall between two stages, after money has moved.
* **Shutdown.**  A signal sets an event that two threads poll at different
  points; the consumer is a daemon that is joined for five seconds.
* **Controls changed while they are read.**  Pause and the disabled sets change
  during a fetch, during the filter, or between a test and its use.
* **A transaction, once sent, cannot be recalled.**  The kill switch, the
  simulation and the submission are separate requests over endpoints that fail,
  repeat or lose answers; a transaction is rebuilt between two of them.
* **Work that outlives its caller.**  Fan-outs give up at a deadline while their
  jobs run on, hold workers of the shared pool, rotate endpoints and write caches.
* **State that outlives its scan.**  Scan records, latency marks, cooldowns,
  rotation, skip caches and report clocks are read by a later scan or by another
  thread.
* **Rate limiting by a query.**  The count is cached, read inside an open
  transaction, and taken from a status that trades leave again.

What makes each part correct is stated as the properties of section 3, and the
hazards are listed one by one in `PROJECT.json`.

## 2. Modules

| Module | Models | Correspondence |
|---|---|---|
| `DbConnection` | `DbConnection` of `persistence/db.py` | `working` is what the connection sees, `durable` what a restart finds, `batchDepth` is `_batch_depth`; one operator per way to write, enter and leave a batch |
| `CandidateRows` | the tables of one candidate, `OpportunityStatus` | a record of the status column and of which child rows exist |
| `CandidatePipeline` | `CandidatePipeline.process` with `Repository` | one action per repository call and per external call; `stage` is the place in `_process_inner`, `outcome` what the caller got, `sent` what reached the network |
| `CandidateLedger` | the abstract promise of `process` | whole records appended in one step, and answers the ledger bears out |
| `SharedConnection` | the pipeline and `save_scan_history` on one connection | extends `CandidatePipeline`; `commit()`'s test and the driver's commit are separate actions |
| `EventLoop` | `run` and `Consumer` of `run_event_driven.py`, `control_state.py`, the control endpoints | `loop` and `consumer` are the program counters; each read of shared state is an action of its own |
| `CandidatePipelineProofs` | theorems about `CandidatePipeline` | section 4 |
| `SolanaRpc` | `SolanaRPC._call` of `market/solana_rpc.py` | operators for one call: `attempts` endpoints are left, `currentIdx` is the one asked, `failed` those that failed in this call |
| `LiveExecutor` | `SolanaExecutor`, preflight simulator, submitter, `TxVerifier`, the kill-switch endpoints | extends `SolanaRpc`; `stage` is the place in the executor, `path` tells `execute()` from the pipeline's three calls; the chain and lagging nodes are actions of their own |
| `VenueFanout` | `MultiVenueMarket.get_quotes` | one job per backend and scan, a pool of workers, a deadline |
| `JupiterSource` | `SolanaMarket` | rotation over the extra pairs, cooldown after a 429 |
| `PoolSources` | `RaydiumMarket`, `OrcaMarket`, `get_multiple_accounts`, pool prices | vaults paired up with pools by position; spot price, fee and midpoint as fractions |
| `ArbScanner` | `ArbitrageStrategy`, `OpportunityScanner`, `AdaptivePoll` | one action per step of the loop: fetch, scan and rank, drain, observe |
| `RiskRules` | `RiskPolicy.evaluate` with its eight rules | the rules as a sequence, the first failing one gives the reason |
| `LatencyRecords` | `LatencyTracker` between the two threads | marks by scan index; a record is built under the lock and written after it |
| `PollingBot` | `ArbitrageBot.run`, `PaperExecutor`, `main.py`, the run log of `observability/log.py` and the report `perf_tracker.py` makes of it | extends `ArbScanner` for the strategy; a log line is a step after the step it tells of, and a kill may fall between |
| `AtomicSwap` | `AtomicSwapBuilder` | two quotes, two instruction sets, one transaction |
| `EndpointFailover` | `RpcProvider` of `data/rpc_failover.py` | operators for a client that holds the endpoint it was given |
| `ChainExecutor` | `_evm_legacy/.../chain_executor.py` | extends `EndpointFailover`; nonce, simulation, sending, receipt; the mempool as a set |
| `OnchainMarket` | `_evm_legacy/.../onchain_market.py` with `LiquidityCache` | an adapter is known by what it does with an RPC failure |
| `SmartAlerts` | `_evm_legacy/.../smart_alerts.py` | the report thread and the main thread with the clocks they share |
| `LiveDashboard` | the scan loop of `run_live_with_dashboard.py` | best per chain, best overall, alert |
| `PairDiscovery` | `discover_solana_pairs`, `discover_best_pairs`, `PairRefresher`, `pair_scanner.py`, `LiveMarket` | one search per token, grouping, cut, memory and snapshot |
| `OperatorViews` | the queries behind `/dashboard`, `/ops`, `/analytics`, `/opportunity/{id}` and the read-only endpoints, `time_windows.py`, `metrics.py` | `vwRows` is what the shared connection shows, the open batch included; each query is a step, with the pipeline's writes, its rollback and the clock in between |
| `FlashArb` | `contracts/FlashArbExecutor.sol` | a transaction is one step that commits all its transfers or none |
| `EventLoopProofs`, `SharedConnectionProofs`, `LiveExecutorProofs` | theorems about the modules of those names | section 4 |
| `ComponentsProofs`, `LegacyProofs`, `MarketProofs`, `CountingProofs` | theorems about the parts from `VenueFanout` to `OperatorViews` | section 4 |
| `Components`, `MCComponents` | the parts from `VenueFanout` to `OperatorViews` side by side | one behaviour, one part; the instances for TLC |

Composition: `DbConnection` and `CandidateRows` are extended by
`CandidatePipeline`, which instantiates `CandidateLedger` under the mapping
`ledger <- durable.opps`, `told <- ` the outcome of each call; `SharedConnection`
extends `CandidatePipeline` and adds the second thread.  `EventLoop` is separate:
for it `pipeline.process` is a step that ends, and how it ends is
`CandidatePipeline`'s subject.  `LiveExecutor` is the other side of the stages
that `CandidatePipeline` calls simulator, submitter and verifier: the pipeline
allows them any answer of their interface, and `LiveExecutor` says which answers
go with what happened on the network.

`Components` puts the remaining parts next to each other without wiring them:
in the code they have no state in common and meet only in values (quotes,
opportunities, verdicts), which each module takes from a set that holds every
case it tells apart.  A step of one part cannot be told from a stutter by
another, so interleaving them would add nothing; hence a behaviour chooses its
`part` at the start.

Outside `src/`, or outside the models, are the Solana node and network, the EVM
node and chain, the lender and the routers behind the flash-loan contract,
`ThreadPoolExecutor`, DexScreener, and the clock.  They are modelled from how
the code uses them, with every failure its handlers mention.

A definition whose comment calls it a *mutant* is not part of the model.  It
states a plausible bug of the next definition, and shows which property would
catch it.

### What the models leave out

Amounts, prices, timestamps, wording and timings, except in the modules about
arithmetic: `ArbScanner` and `PollingBot` compute profits, `PoolSources` prices,
`RiskRules` compares figures and `FlashArb` balances, all as exact integers or
fractions (the code mostly uses `Decimal`).  Clocks are ticks with small
bounds.  In the pipeline, the verdict of a risk rule
other than the rate limit, the answer of the simulator and of the verifier, the
quotes of a fetch and the ranking of a scan are nondeterministic: any answer the
interface allows.  All candidates of a run fall within one hour.  Row ids are
left out, except for their one consequence: on PostgreSQL
`save_execution_attempt` returns no usable id, so `save_trade_result` raises
(`SaveResultRaises`).  An alert (`Alerted`, after `_safe_alert`) goes out or is
lost and never raises.

## 3. What TLC checks

| Run | Configuration | Result |
|---|---|---|
| `pipeline` | `CandidatePipeline.cfg` | passes, 21 397 distinct states |
| `verified_is_recorded` | `VerifiedIsRecorded.cfg` | violation, section 5 |
| `hourly_trades` | `HourlyTradesBounded.cfg` | violation, section 5 |
| `shared` | `SharedConnection.cfg` | passes, about 1.9 million distinct states |
| `error_rolled_back` | `ErrorRolledBack.cfg` | violation, section 5 |
| `event_loop` | `EventLoop.cfg` | passes, 86 770 distinct states |
| `drained_at_exit` | `DrainedAtExit.cfg` | violation, section 5 |
| `execution` | `LiveExecutor.cfg` | passes, 386 740 distinct states |
| `confirmed_is_final` | `ConfirmedIsFinal.cfg` | violation, section 5 |
| `components` | `Components.cfg` | passes, about 2.5 million distinct states |
| `near_miss` | `NearMiss.cfg` | violation, section 5 |
| `flash_arb` | `FlashArb.cfg` | violation, section 5 |

**`pipeline`.**  Two candidates, a limit of one trade per hour, six wirings
(scanner only as today, fully live on either backend, dry run, submitted without
a verifier, paper verifier).  Every call may raise, the commit may fail in the
three ways a driver can fail it, the process may die at any point and come back
wired differently.  Two candidates are enough for what one leaves behind to meet
the next one's commit or rollback, and for the first to use up the hour's limit.
`DurableComplete`, `ReturnedIsDurable`, `FailedLeavesNoTrace`, `SentAccounted`,
`AlertsAgree` and `SendGated` are described at their definitions;
`ImplementsLedger` is the refinement of the abstract promise; `ProcessEnds` is
liveness.

`FailedLeavesNoTrace` excludes one case on purpose: when the final commit
raises, nothing rolls back, and the candidate's rows can still be committed with
a later candidate.  The ledger says so in its action `Answer`.

**`shared`.**  Two candidates, two scan rows, two wirings; the scanner inserts
row by row, may fail at each and is never rolled back.  What survives the
sharing: an answered candidate is durable and whole, the database only grows, and
scan rows whose save returned are kept as long as no candidate fails.  What does
not survive it is the subject of `error_rolled_back`.  The semantics is SQLite's,
where a failed statement leaves the transaction usable.

**`event_loop`.**  Two venues and one pair (the smallest market with a route in
each direction), a queue of one so that it is full and empty in turn, iteration
limits 0 (none) and 2.  Two properties bound what happens after a stop and what
enters the queue under disabled venues; four are about liveness, among them
`ControlsTakeEffect`: a pause ends scanning and a disabled venue stops being used,
as long as the operator leaves it at that.  The
process ends, so deadlock is not checked.

**`execution`.**  Two opportunities, each on either of the executor's two paths,
and two RPC endpoints: the least for which a call is repeated elsewhere and for
which one opportunity's leftovers (the current endpoint, a transaction still in
flight, the kill switch) meet the other's.  Any endpoint may fail any request, lose
the answer to a `sendTransaction` that arrived, or lag; the chain may take the
transaction, fork, fail it or let it expire; the kill switch is touched and
removed at any moment.  `KillSwitchStops`: after it is touched at most the
transaction already built goes out.  `SentAfterSimulation`: on the `execute()`
path the very transaction was simulated, in the pipeline only the opportunity's
other build.  `AnswerAccountsForSent`: an opportunity is sent at most once, a
verdict stands for a transaction and a refusal for none.  `VerdictGrounded`: before the
deadline only a success the network has confirmed is answered as confirmed, and nothing
as dropped; after it one block in which the transaction succeeded is enough; "reverted"
was the result in some block ("dropped" proves nothing: the transaction may yet land).
That "confirmed" does not mean what the status is documented to mean is the subject of
`confirmed_is_final`.  `HealthyEndpointAnswers`: a call fails only when every
endpoint failed within it.  `ExecutionEnds` is liveness.

**`components`.**  One property for each part:

| Property | Part | What could go wrong |
|---|---|---|
| `QuotesOfThisScan` | `VenueFanout` | quotes of a job an earlier scan abandoned pass for fresh ones |
| `PairsAskedInTurn` | `JupiterSource` | rotation and cooldown starve a pair, or a pair is asked within its cooldown |
| `PoolQuotesSound` | `PoolSources` | a missing account shifts vaults to another pool; a spot price worse than what a swap yields |
| `NotBothWays`, `RecordsOfThisScan` | `ArbScanner` | a price difference of the wrong sign; records of an earlier scan |
| `SaferIsApproved` | `RiskRules` | a better offer, a lighter load or a looser limit refused where a worse one passes, and so a tighter limit that lets more through |
| `BotAccounted` | `PollingBot` | a trade after shutdown, a dry run that trades, a run log that disagrees with the summary, or lacks more than the line in hand when the bot was killed |
| `MarksOfOwnScan` | `LatencyRecords` | the consumer's record stamped with a later scan's marks |
| `LegsChain` | `AtomicSwap` | leg B spends what leg A does not yield; an instruction of an answer left out, doubled or out of its place |
| `UsedEndpointEnabled`, `TradeAccounted` | `ChainExecutor` on `EndpointFailover` | an endpoint used during its backoff; two pending trades that both execute |
| `RecheckedWithinTtl` | `OnchainMarket` | a pool skipped longer than its failure warrants, or a stale liquidity |
| `ReportsSpaced` | `SmartAlerts` | two reports of a thread within an interval, two daily ones on a date |
| `ProcessedOnce` | `LiveDashboard` | one opportunity recorded twice; an alert that links to another of its scan |
| `DiscoverySound` | `PairDiscovery` | pools counted twice, coins priced on another chain, a snapshot that lags |
| `PagesAgree` | `OperatorViews` | two tables that tell different stories, a page that takes back what it showed, a window that shows less than a shorter one, a total that its groups do not add up to |

The bounds are in `Components.cfg`, each commented where its constant is declared.
They are the smallest at which the interesting case occurs: three scans over two
backends leave an abandoned job behind two later scans; three extra pairs with two
places per scan make the rotation wrap; three scans of at most three quotes
out of twelve give every combination of fee, inclusion and depth; two endpoints
that are disabled after two errors let all be disabled; the alert clock runs for
two short days with an interval of two ticks.  The offers of the risk rules have figures
on both sides of every limit, the limits vary where a rule branches on them (a trade of 11
is exempt from an exposure limit of 1 and not from one of 2; a minimal profit of 0 lets an
offer without profit pass), and `SaferIsApproved` compares each approval with every offer,
load and policy that is one unit better.  Jupiter's answers for a leg have or lack each of
their parts.  A part ends where its program or its
bound does, so deadlock is not checked.

The exceptions of `SaferIsApproved` are the code's: a pool of unknown depth (0) counts as
deep enough, an offer without profit is not asked for its fee, and a trade of more than
ten times `max_exposure_per_pair` is measured against twice its own size
(`risk/rules.py:204-209`).  A trade of 20 is therefore refused under a limit of 10 and
passes under a limit of 1.  `Improved` and `Loosened` leave these steps out.

In the part of the pages (`OperatorViews`) each query of a page is a step, `get_pnl_analytics` four of them,
and the consumer's statements, its commit or rollback and a tick come in between.  Two
candidates, two pairs, one window shorter than a tick and one longer.  Queries have their
LIMITs, as `Limits`: the newest 100, 200 or 500 opportunities, 50 realized trades, 168
hours.  In the instance all but the one of the pair options are 1, so that the second
candidate exceeds them.  Two figures of which one is cut are compared up to the cut
(`UpTo`), and the hours' sums only where no hour is: with more than 50 included trades or
100 opportunities the figures of a page differ, which is no error of theirs.  An hour is a
tick, so that two candidates may fall into one or two.  `reasons` has at most the nine codes
of a refusal and `simulation_approved`, fewer than its LIMIT of 20, which is left out;
`per_venue` is kept as the sum over its routes.  Whether a candidate promises a profit is
kept, because the window counts those only; a loss passes the risk rules only where the
minimal profit is 0 (`LossesPass`).  A page is followed no further once a candidate is
rolled back, since it may have counted it.  Pairs are interchangeable, so the first
candidate is of a fixed one.

Most modules state a type invariant.  Of these only `TypeOK` of the pipeline is
in a run.  `SharedTypeOK`, `LoopTypeOK` and `ExecutorTypeOK` are proved instead
(section 4), as the first part of the inductive invariant of each module; the
configurations name the properties that say more.

**Fairness.**  `CandidatePipeline!FairSpec` assumes weak fairness of the step of
the stage `process` is in: the consumer thread is scheduled, and each
collaborator's call ends, because RPC and HTTP calls have timeouts and the
verifier's loop a deadline.  `EventLoop!FairSpec` assumes weak fairness of the
two threads' ordinary steps, for the same reason: `queue.get`, `stop.wait` and
`join` all have timeouts.  `LiveExecutor!FairSpec` assumes it of the executor's
own steps (every HTTP request has a timeout) and of the deadline (the monotonic
clock reaches it), not of the network, which may be silent for ever.  No fairness
is assumed of exceptions, kills, cache expiry or the operator.

## 4. What is proved

Every theorem holds for every value of the constants that meets the named
assumptions of the modules (`...Assumption`, evaluated by TLC in the runs); the
runs of section 3 check the same formulas on small instances.  `Spec` of the parts
in `Components` is the specification of the composition, so that the theorems speak
of the behaviours the run `components` explores.

### The pipeline (`CandidatePipelineProofs`)

| Theorem | States |
|---|---|
| `InvCorrect` | `Spec => []IInv`, the inductive invariant |
| `TypeCorrect`, `DurableCompleteCorrect`, `ReturnedIsDurableCorrect`, `FailedLeavesNoTraceCorrect`, `SentAccountedCorrect`, `AlertsAgreeCorrect` | the invariants of the run `pipeline` |
| `SendGatedCorrect` | the action property `SendGated` |
| `Refinement` | `Spec => ImplementsLedger` |

For any finite set of candidates, any subset of the wirings, any scan rows and any
limit.  The assumption is `PipelineAssumption`: candidates form a finite set without
`NoCandidate`, wirings are wirings, and the limit is a natural number.

The argument.  None of the invariants is inductive: what `Return` makes durable
is right only if the record of the candidate in hand is what its stage says.
`IInv` therefore describes the open transaction as well.  It says, for the
candidate in hand, which record the stage reached implies (so that at the commit
the record is complete and its status is the answer); for candidates not in hand,
that a record that differs between the open transaction and the database belongs
to a candidate whose commit raised, and is complete; and that a batch is open
exactly while a candidate is in hand.  The proof goes stage by stage, with
lemmas for the steps that share a shape: `SaveStep` for a stage that saves a
record and stays within the batch, `FinishInv` for the ways `process` ends,
`FaultInv` for exceptions and kills.  `NextRefines` maps each step to a step of
the ledger or to a stutter: everything but the four ways of ending a call
stutters, since the database and the answers do not change.

### The two threads on one connection (`SharedConnectionProofs`)

| Theorem | States |
|---|---|
| `SharedInvCorrect` | the inductive invariant `SharedInv` |
| `SharedTypeCorrect` | the types |
| `ReturnedIsCompleteCorrect`, `SavedScansKeptCorrect` | the invariants of the run `shared` |
| `DurableMonotoneCorrect` | the action property: no row and no status is ever taken back |

`IInv` does not hold here: the scanner's commit makes half a life cycle durable.
`SharedInv` keeps from it what speaks of the open transaction alone (the types,
`Control`, `StageRecord`), and replaces the rest by `Kept`: the open transaction
never lacks a candidate the database has, and an answered candidate has the same
whole record in both.  `ScansKept` says the like of scan rows: those whose save
returned are durable, and so survive every later rollback, unless a candidate has
failed.  The lemmas about the pipeline's stages are the ones of
`CandidatePipelineProofs`.

### The event loop (`EventLoopProofs`)

`LoopInvCorrect`, `LoopTypeCorrect`, `StopBoundsWorkCorrect` and the action property
`DisabledNeverQueuedCorrect`, for any venues and pairs, any positive queue size and any iteration
limits.  `LoopInv` adds two parts to the types.  `LateWork`: a thread that worked
after the stop is past the point where it would have seen it (the loop's gate, the
consumer's `get`), so it cannot begin again.  `ScanData`: what the loop
carries at each stage, and that neither the quotes nor the opportunities in
its hands need anything that has been disabled since before the fetch.

### The executor and its calls (`LiveExecutorProofs`)

`ExecutorInvCorrect`, `ExecutorTypeCorrect`, and the invariants of the run `execution`:
`HealthyEndpointAnswersCorrect`, `KillSwitchStopsCorrect`,
`SentAfterSimulationCorrect`, `AnswerAccountsForSentCorrect`, `VerdictGroundedCorrect`.
For any opportunities and any positive number of endpoints.  `ExecutorInv` has a part
for each question:

* `CallOK`: endpoints that have not failed in the call under way lie fewer rotations
  ahead of the client than it has attempts left.  At zero attempts none is left.
* `HandOK`: which build of which opportunity is in hand at each stage, and what of
  it was simulated.
* `SentOK`: what was sent is a build of a begun opportunity, at most one each.
* `KillOK`: once a transaction went out under the kill switch, no other is past the test
  of the switch.
* `ChainOK`: the status held in memory was true in some block, and what is fetched was
  confirmed unless the deadline has passed.

### The parts (`ComponentsProofs`, `LegacyProofs`, `MarketProofs`, `CountingProofs`)

A step of `Components` is a step of one part or leaves that part alone (`PartSteps`,
`LegacySteps`, `MarketSteps`, `CountingSteps`), so each invariant is proved over its own part.

| Theorem | Inductive invariant and argument |
|---|---|
| `QuotesOfThisScanCorrect` | `FanInv`: a job is queued, running or done, never two of these (`EachJobOnce`), and none bears the number of a scan to come (`NoFutureJob`), so that numbers tell this scan's futures from abandoned ones |
| `SaferIsApprovedCorrect` | no induction over steps: an approved offer fails no rule (`ApprovedVerdict`, by the least index of a failing rule), and each rule is monotone in the offer, the load and the limits (`ImprovedPasses`, `EasedPasses`, `LoosenedPasses`), the fee's share by multiplication (`FeeStaysCheap`) |
| `MarksOfOwnScanCorrect` | `LatencyInv`: the tracker's marks are of the current scan, those of a queued opportunity of the scan that found it |
| `RecheckedWithinTtlCorrect` | `OnchainInv`: an entry's time to live is the one its last answer calls for (`EntryOfLastAnswer`), and an estimate in use was within its own when it was taken (`EstimateInTime`) |
| `ReportsSpacedCorrect` | `ReportsInv`: no report is later than the one last noted, and a thread about to send one has its own last an interval ago (`HourlyInv`), or on an earlier date (`DailyInv`); dates are quotients of the time (`Division`, `QuotientMonotone`) |
| `ProcessedOnceCorrect` | `DashboardInv`: no record of a scan repeats an opportunity, and what has been tried so far is what the stage has passed (`OncePerScan`, `Tried`); the result an alert would link to is of this scan (`ResultOfScan`) |
| `LegsChainCorrect` | `SwapInv`: what was asked, quoted and returned for each leg; the concatenation of the parts holds each of them that an answer has, once and in its turn (`PartInPlace`, `InstructionsComplete`), and merging the tables keeps them distinct (`TablesMerged`) |
| `UsedEndpointEnabledCorrect` | `EndpointsInv`: types and the property itself; the search for the next enabled endpoint goes round all of them (`Around`), and when all are disabled the one it falls back to is enabled first |
| `TradeAccountedCorrect` | `ChainInv`: `NoncesOK` (every pending transaction bears the number of mined nonces, so at most one of them executes), `OneEach`, `ReportsGrounded` |
| `PairsAskedInTurnCorrect` | `JupiterInv`: `CoolingOK`, `AskingOK`, and `TurnsOK`, which bounds the scans a pair has been passed over by the distance from the rotation's offset to its place |
| `PoolQuotesSoundCorrect` | `PoolInv`, with `Places`: the vaults are a bijection onto the positions of the request, so an answer that is as long as the request prices each pool from its own accounts; `SpotBounds`: for any reserves, fee and amount the spot price is on the optimistic side of the swap |
| `RecordsOfThisScanCorrect`, `NotBothWaysCorrect` | `ScannerInv`: the opportunities are judged profitable at one price of SOL, a natural number (`SolPriceNat`); `NetGains`: a route with positive profit sells strictly above what it buys at, which its reverse then cannot do |
| `BotAccountedCorrect` | `BotInv`: the log is behind the counters by exactly what the stage has not written yet (`BehindOK`), the decision in hand is the one of this scan (`DecidedOK`), and a late execution had been let in before the shutdown (`LateOK`) |
| `DiscoverySoundCorrect` | `DiscoveryInv`: what has been entered qualifies, and the bot enters it once and only if it is known or one search shows it on two DEXes (`EnteredOK`); each ranked pair has a score its listings bear out (`AsListed`); `PricedOnItsChain`; the snapshot is the memory when the last write succeeded (`SnapshotFollows`) |
| `PagesAgreeCorrect` | `ViewsInv`: what the columns of a row owe to each other at any statement (`RowOK`) and once process is done with it (`RowDone`), the counters behind the rows (`CountersInv`), and of an open page that its later queries look at longer windows (`Follows`), that the since in hand is not older than the windows' order allows (`SinceInv`), and that the rows bear the first reading out (`ReadingOK`); every step but a rollback only adds to rows (`RowGrows`), so they go on bearing it out, also cut at a LIMIT (`UpToGrows`); the queries of one analytics share a since, which the first reading is kept with (`ReadFrom`) |

The assumptions say what the code establishes: `ScannerAssumption` that costs and
thresholds are not negative (`BotConfig.validate`) and that no source makes a quote
that sells above what it buys at; `FanoutAssumption` that the backends' names are
distinct; `JupiterAssumption` that the extra pairs are a sequence of pairs and the
cooldown is positive; `PoolsAssumption` that the configured pools are a sequence and
the fee divisor positive; `OnchainAssumption` that adapters are known ones and the
times to live ordered as the constants of `liquidity_cache.py` are;
`DiscoveryAssumption` that the listings are finitely many with natural volumes, that
the bot discovers for one chain, which `discover_pairs_for_bot` declares and defaults to, and that the
configuration's pairs, which have no chain, are on no venue's; `ViewsAssumption` that
there are finitely many pairs and refusal reasons, the windows ascend, as `WINDOWS` does,
and limits are natural numbers;
`AlertAssumption` that the first e-mail is due no later than the interval and the
daily hour lies within the day; `FailoverAssumption` that there is an endpoint and the
error limit is positive; `RiskAssumption` that figures and limits are whole numbers, those
of depth, fee, size, flags, load and exposure not negative.

Where an argument runs over numbers (the first failing rule, the distance of a
pair) it takes a least counterexample (`LeastNatural`, from the well-foundedness of
`<` on the naturals), because the library's induction theorems take an operator as
a parameter and the provers cannot instantiate them.

The volume of a pair is a fold of the community modules, a function defined by
recursion over subsets.  `SumExists` shows by the same means, a smallest subset without
one, that such a function exists; `SumOf` and `SumWithout` that it does not depend on
the element the fold takes first; `SumMonotone` that it grows with its summands; and
`SumFunctionIs` that it is what `SumFunction` computes.  A page's totals are sums of
counts: `ClassesAddUp` shows that the counts of the classes of a finite set, rows by
status, by pair or by hour, add up to the whole.

### Only model-checked

* Liveness: `ProcessEnds`, `ExecutionEnds`, and of the event loop `ControlsTakeEffect`, `QueueServed`,
  `ScansResume` and `StopEnds`.  Liveness under fairness and `ENABLED` are out of the
  prover's reach.

## 5. Where the program and its descriptions disagree

* **On PostgreSQL a sent transaction is never recorded** (`verified_is_recorded`).  With submitter and
  verifier wired, `save_trade_result` breaks the foreign key on an id psycopg2
  does not return, and the batch rolls the attempt back.
* **The hourly limit does not limit** (`hourly_trades`).  Only trades still in
  status `submitted` are counted; verified ones have left it.
* **An error is not always rolled back** (`error_rolled_back`).  The scanner's
  commit, decided before the batch began, may come in the middle of it.
* **The queue is not drained at shutdown** (`drained_at_exit`), which
  `scripts/stop.sh` says of the signal handler.
* **Confirmed is not final** (`confirmed_is_final`).  `core/models.py:41` describes the
  status as landed and finalized; at its deadline the verifier takes the last status it
  has, and one poll that saw the transaction as processed makes it confirmed, though the
  fork may be abandoned.
* **A near miss does not speed the poll up** (`near_miss`).  A candidate below the
  minimum profit is recorded with profit 0, so the loop's maximum never shows it
  to the poll controller, whose documentation asks for exactly that.
* **The flash-loan contract reverts profitable trades** (`flash_arb`).  The balance
  is read after the loan has arrived, and the loan is subtracted once more.

Live execution is not wired in `run_event_driven` today (the pipeline gets no
simulator, submitter or verifier); the first two and `confirmed_is_final` concern the
stages that `SolanaExecutor` supplies, and nothing sends an atomic swap yet.

Met while modelling, and stated in the modules as what the code does; no run
singles them out:

* `pipeline/lifecycle.py:188` wraps all six stages in one batch, so a kill during
  verification takes the candidate with it, its opportunity included.
  `docs/pipeline.md:14,57,74` has stages 1 to 3 in a transaction, the others outside it,
  and stage 1 as the point of no return.
* `execution/atomic_swap.py:5` promises that both legs land or neither; an answer without
  `swapInstruction` is compiled as it is (lines 234 and 240), and the transaction lands
  the other leg alone.
* `execution/atomic_swap.py:19-20` gives the transaction the larger of the two legs'
  compute limits; the code takes leg A's budget header (lines 229-232), as its own comment
  there and the docstring of `build_atomic_tx` (line 209) say.
* `market/multi_venue_market.py:5` promises that a slow backend never blocks the
  others, but at line 73 the deadline raises out of the loop over finished
  jobs, and quotes that have not been collected yet are discarded.
* `execution/bot.py`: after a market error the loop continues without its sleep.
* `execution/submitter.py:33` skips the node's preflight because "we already preflighted
  locally": on the pipeline's path what was simulated is another build of the
  opportunity, with a quote and a blockhash of its own.
* `docs/solana_execution_plan.md:84` limits `trade_size` to `max_exposure_per_pair`; the
  executor's gate (`solana_executor.py:148-153`) is twice the configured trade size.
* `scripts/rehearsal.py:149` reads `best_opp.buy_price`, which an opportunity does
  not have.
* `_evm_legacy/src/run_live_with_dashboard.py:426` reads `pipeline_result`, which is
  unassigned when the first best opportunity was across chains: the
  program ends.
* `_evm_legacy/src/alerting/smart_alerts.py`: two threads can each send the same hourly
  report; a query that raises ends the report thread while `_running` stays
  true; the daily report is remembered only in memory, though it is described as
  sent once regardless of restarts.
* Pair discovery: when every search fails the result is the empty list, which
  replaces memory and snapshot, although `test_pair_refresher.py` expects old data
  to survive a failed refresh; mints with the same symbol are grouped, and
  `LiveMarket` keys the coins by the pair's name.
* `_evm_legacy/src/execution/chain_executor.py` reports a transaction as failed when its
  receipt does not come within 120 s, though it may still be mined.
* The dashboards read through the consumer's own connection: a page can show a
  candidate that is rolled back a moment later.
* `main_dashboard.py:97` counts candidates approved for simulation only among the
  approved ones, and `get_pnl_analytics` lists them as reasons for refusal.
* `observability/log_parser.py:95-114` reads `dex`, `buy_dex` and `sell_dex`, where the
  records it parses have `venue`, `buy_venue` and `sell_venue`.
* `observability/perf_tracker.py:275` cannot write its report: it holds `Decimal`
  values, which `json.dumps` refuses.  It also finds nothing in the logs of
  `run_event_driven.py`, which does not write the bot's events.
* Adapters of `onchain_market.py` that swallow an RPC error let an outage be
  cached as "no liquidity" for three hours.
* `pool_discovery.py:171-178` asks the fallback for the pool of the bridged token
  with itself.
* `ops_dashboard.py:178-195` makes its toggles from the newest 500 opportunities: a
  disabled pair or venue that others have pushed out has no button to enable it.
* `risk/rules.py`: a trade more than ten times the exposure limit is measured against
  twice its own size instead, so that it passes where a smaller one does not.

## 6. Plan

Done: the pipeline with its connection, the two threads on it, the event loop, the
executor with its network, the market and its sources, scanner, poll controller and
risk rules, the parts of the legacy trader that keep state, and every safety property
the passing runs check proved.  What is left is to model more of what follows below,
beginning with PostgreSQL's aborted transactions.

### Not modelled

* Retry (`risk/retry.py`): nothing but its test calls it.
* PostgreSQL's aborted transactions in `SharedConnection`, where one thread's failed
  statement makes the other's commit a rollback: SQLite's semantics is modelled.
* Configuration loading and validation, HTTP and message formats, HTML, log parsing and
  diagnostics: they render or count, and no decision depends on them.
* Of the repository: checkpoints, diagnostics, and the tables of pairs and venues; the
  amounts that the dashboards add up.
* `jito_bundle.py`, a stub whose constructor raises; `sim_market.py`, a random source; the
  tick arithmetic of Orca's whirlpools; the realized profit of verified transactions
  and the PnL statistics, which nothing reads.
* Of the legacy trader: its dashboards and API, event indexer, token and price tables and
  `pool_discovery.py`, a lookup of pool addresses.
* A discovery for the bot over several chains at once: `DiscoveryAssumption` has it
  search one, as `discover_pairs_for_bot` declares it, although its code also accepts none,
  for all chains (`pair_scanner.py:315` and `:382`).
* Deployment, backup and rehearsal scripts.
* `lib/trading_platform`, a submodule that is not part of the repository.
