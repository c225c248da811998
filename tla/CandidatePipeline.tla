-------------------------- MODULE CandidatePipeline --------------------------
(***************************************************************************)
(* CandidatePipeline.process (src/pipeline/lifecycle.py): the six stages   *)
(* of one candidate, run by one thread inside one batch() of the shared    *)
(* connection, with the calls that leave the process (simulate, submit,    *)
(* verify, alert) in between.  There is one action per repository call or  *)
(* external call, because another thread's commit, an exception or a kill  *)
(* can fall between any two of them.                                       *)
(*                                                                         *)
(* The pipeline's collaborators are abstract here: the verdict of the risk *)
(* policy is any the rules can give apart from the rate limit, which is    *)
(* modelled with its cached count; simulation and verification give any    *)
(* answer their protocol allows.                                           *)
(***************************************************************************)
EXTENDS DbConnection, CandidateRows, Integers, FiniteSets

CONSTANTS
    Candidates,         \* the opportunities of one hour handed to process()
    NoCandidate,        \* not a candidate: the pipeline is idle
    Wirings,            \* how the process may be wired when it starts
    ScanRows,           \* rows of scan_history, which shares the connection
    MaxTradesPerHour    \* RiskPolicy.max_trades_per_hour

\* Which collaborators a CandidatePipeline may be given. execution is
\* RiskPolicy.execution_enabled; a "paper" verifier is PaperVerifier; backend is
\* DbConnection.backend.
AllWirings ==
    [execution : BOOLEAN, simulator : BOOLEAN, submitter : BOOLEAN,
     verifier : {"none", "paper", "tx"}, backend : {"sqlite", "postgres"}]

ASSUME PipelineAssumption ==
    /\ NoCandidate \notin Candidates
    /\ IsFiniteSet(Candidates)
    /\ Wirings \subseteq AllWirings
    /\ MaxTradesPerHour \in Nat

VARIABLES
    wiring,     \* the collaborators of the running process
    stage,      \* where process() stands
    cur,        \* the candidate process() is working on
    reply,      \* the status process() is about to return
    outcome,    \* per candidate: what became of the call process(c)
    countCache, \* Repository._count_cache: a number of trades, or NoCount
    sent,       \* candidates whose transaction has reached the network
    alerts      \* trade_reverted and trade_dropped alerts that went out

pipeVars == <<wiring, stage, cur, reply, outcome, countCache, sent, alerts>>
vars == <<dbVars, pipeVars>>

Stages ==
    {"idle", "detect", "price", "risk", "decide", "simulate", "simulated",
     "submit", "attempt", "submitted", "verify", "resolve", "dry_run", "commit"}

\* outcome[c]: process(c) not yet called, running, returned with a status,
\* raised, raised by the final commit, or killed with the process.
Outcomes ==
    {"waiting", "running", "raised", "commit_raised", "killed"} \cup FinalStatuses

\* No count is cached.
NoCount == -1

Db == [opps : [Candidates -> Row], scans : SUBSET ScanRows]
EmptyDb == [opps |-> [c \in Candidates |-> Absent], scans |-> {}]

-----------------------------------------------------------------------------
(* Helpers                                                                 *)

\* The current candidate's record as this connection sees it.
Record == working.opps[cur]

\* One repository call: the current candidate's record becomes row.
Save(row) == Write([working EXCEPT !.opps[cur] = row])

Goto(next) == stage' = next

\* Stages 5 and 6 are skipped without a submitter.
AfterSimulation == IF wiring.submitter THEN "submit" ELSE "dry_run"

\* Mutant: the simulator is passed over.
AfterApprovalUnsimulated == AfterSimulation

\* Stage 4 is skipped without a simulator.
AfterApproval == IF wiring.simulator THEN "simulate" ELSE AfterSimulation

\* Repository.count_opportunities_since(..., status="submitted"): the rows
\* that have that status now, as this connection sees them, or the value kept
\* from an earlier call. All candidates fall within the hour.
SubmittedNow == Cardinality({c \in Candidates : working.opps[c].status = "submitted"})
HourTrades == IF countCache = NoCount THEN SubmittedNow ELSE countCache

\* RiskPolicy.evaluate: a rule may reject, the rate limit must, and when every
\* rule passes the verdict depends on execution_enabled.
Verdicts(trades) ==
    {"rejected"} \cup
    (IF trades >= MaxTradesPerHour THEN {}
     ELSE IF wiring.execution THEN {"approved"} ELSE {"simulation_approved"})

VerifierReports == IF wiring.verifier = "tx" THEN Reports \ {"unknown"} ELSE {"unknown"}

StatusOf(report) ==
    CASE report = "included" -> "confirmed"
      [] report = "reverted" -> "reverted"
      [] report = "dropped"  -> "dropped"

Init ==
    /\ Connect(EmptyDb)
    /\ wiring \in Wirings
    /\ stage = "idle"
    /\ cur = NoCandidate
    /\ reply = "none"
    /\ outcome = [c \in Candidates |-> "waiting"]
    /\ countCache = NoCount
    /\ sent = {}
    /\ alerts = {}

-----------------------------------------------------------------------------
(* The stages                                                              *)

\* process(c) is called: batch() is entered.
Process(c) ==
    /\ stage = "idle"
    /\ outcome[c] = "waiting"
    /\ EnterBatch
    /\ cur' = c
    /\ outcome' = [outcome EXCEPT ![c] = "running"]
    /\ Goto("detect")
    /\ UNCHANGED <<wiring, reply, countCache, sent, alerts>>

\* Stage 1: create_opportunity.
Detect ==
    /\ stage = "detect"
    /\ Save([Absent EXCEPT !.status = "detected"])
    /\ Goto("price")
    /\ UNCHANGED <<wiring, cur, reply, outcome, countCache, sent, alerts>>

\* Stage 2: save_pricing.
Price ==
    /\ stage = "price"
    /\ Save([Record EXCEPT !.pricing = TRUE])
    /\ Goto("risk")
    /\ UNCHANGED <<wiring, cur, reply, outcome, countCache, sent, alerts>>

\* Stage 3: count the hour's trades, evaluate the policy, save_risk_decision.
EvaluateRisk ==
    /\ stage = "risk"
    /\ countCache' = HourTrades
    /\ \E verdict \in Verdicts(HourTrades) : Save([Record EXCEPT !.risk = verdict])
    /\ Goto("decide")
    /\ UNCHANGED <<wiring, cur, reply, outcome, sent, alerts>>

\* on_rejected: the candidate ends here, also when it passed every rule but
\* execution is disabled.
Reject ==
    /\ stage = "decide"
    /\ Record.risk # "approved"
    /\ Save([Record EXCEPT !.status = Record.risk])
    /\ reply' = Record.risk
    /\ Goto("commit")
    /\ UNCHANGED <<wiring, cur, outcome, countCache, sent, alerts>>

\* on_approved.
Approve ==
    /\ stage = "decide"
    /\ Record.risk = "approved"
    /\ Save([Record EXCEPT !.status = "approved"])
    /\ Goto(AfterApproval)
    /\ UNCHANGED <<wiring, cur, reply, outcome, countCache, sent, alerts>>

\* Stage 4: simulate() answers, save_simulation.
Simulate ==
    /\ stage = "simulate"
    /\ \E answer \in {"ok", "failed"} : Save([Record EXCEPT !.sim = answer])
    /\ Goto("simulated")
    /\ UNCHANGED <<wiring, cur, reply, outcome, countCache, sent, alerts>>

\* The status that goes with the simulation's answer.
MarkSimulated ==
    /\ stage = "simulated"
    /\ \/ /\ Record.sim = "failed"
          /\ Save([Record EXCEPT !.status = "simulation_failed"])
          /\ reply' = "simulation_failed"
          /\ Goto("commit")
       \/ /\ Record.sim = "ok"
          /\ Save([Record EXCEPT !.status = "simulated"])
          /\ UNCHANGED reply
          /\ Goto(AfterSimulation)
    /\ UNCHANGED <<wiring, cur, outcome, countCache, sent, alerts>>

\* Stage 5: submit() sends the transaction and returns its signature.
Submit ==
    /\ stage = "submit"
    /\ sent' = sent \cup {cur}
    /\ Goto("attempt")
    /\ UNCHANGED <<dbVars, wiring, cur, reply, outcome, countCache, alerts>>

\* Mutant: the attempt is not saved.
SaveAttemptForgotten ==
    /\ stage = "attempt"
    /\ Goto("submitted")
    /\ UNCHANGED <<dbVars, wiring, cur, reply, outcome, countCache, sent, alerts>>

\* save_execution_attempt.
SaveAttempt ==
    /\ stage = "attempt"
    /\ Save([Record EXCEPT !.attempt = TRUE])
    /\ Goto("submitted")
    /\ UNCHANGED <<wiring, cur, reply, outcome, countCache, sent, alerts>>

\* Status submitted; without a verifier process() ends with it.
MarkSubmitted ==
    /\ stage = "submitted"
    /\ Save([Record EXCEPT !.status = "submitted"])
    /\ \/ /\ wiring.verifier = "none"
          /\ reply' = "submitted"
          /\ Goto("commit")
       \/ /\ wiring.verifier # "none"
          /\ UNCHANGED reply
          /\ Goto("verify")
    /\ UNCHANGED <<wiring, cur, outcome, countCache, sent, alerts>>

\* Mutant: without a definite report the verifier is asked again.
VerifyAgain ==
    /\ stage = "verify"
    /\ \E report \in VerifierReports :
          /\ Save([Record EXCEPT !.result = report])
          /\ Goto(IF report = "unknown" THEN "verify" ELSE "resolve")
    /\ UNCHANGED <<wiring, cur, reply, outcome, countCache, sent, alerts>>

\* Stage 6: verify() answers, save_trade_result.
Verify ==
    /\ stage = "verify"
    /\ wiring.backend = "sqlite"
    /\ \E report \in VerifierReports :
          /\ Save([Record EXCEPT !.result = report])
          /\ Goto(IF report = "unknown" THEN "commit" ELSE "resolve")
          /\ reply' = IF report = "unknown" THEN "submitted" ELSE reply
    /\ UNCHANGED <<wiring, cur, outcome, countCache, sent, alerts>>

\* Mutant: the alert goes out and the status is not updated.
ResolveUnrecorded ==
    /\ stage = "resolve"
    /\ reply' = StatusOf(Record.result)
    /\ alerts' = IF reply' = "confirmed" THEN alerts
                 ELSE alerts \cup {[cand |-> cur, event |-> reply']}
    /\ Goto("commit")
    /\ UNCHANGED <<dbVars, wiring, cur, outcome, countCache, sent>>

\* _safe_alert: the alert goes out or is lost, and never raises.
Alerted(event) == alerts' \in {alerts, alerts \cup {[cand |-> cur, event |-> event]}}

\* The status that goes with the report, then the alert of a bad outcome.
Resolve ==
    /\ stage = "resolve"
    /\ LET status == StatusOf(Record.result) IN
          /\ Save([Record EXCEPT !.status = status])
          /\ reply' = status
          /\ IF status \in {"reverted", "dropped"} THEN Alerted(status) ELSE UNCHANGED alerts
    /\ Goto("commit")
    /\ UNCHANGED <<wiring, cur, outcome, countCache, sent>>

\* No submitter: approved and not submitted.
DryRun ==
    /\ stage = "dry_run"
    /\ Save([Record EXCEPT !.status = "dry_run"])
    /\ reply' = "dry_run"
    /\ Goto("commit")
    /\ UNCHANGED <<wiring, cur, outcome, countCache, sent, alerts>>

-----------------------------------------------------------------------------
(* How process() ends                                                      *)

\* The pipeline is idle again and process(cur) ended with the outcome given.
Finish(result) ==
    /\ outcome' = [outcome EXCEPT ![cur] = result]
    /\ cur' = NoCandidate
    /\ reply' = "none"
    /\ Goto("idle")

\* The batch commits and process() returns.
Return ==
    /\ stage = "commit"
    /\ ExitBatch
    /\ Finish(reply)
    /\ UNCHANGED <<wiring, countCache, sent, alerts>>

\* The commit at the end of the batch raises. What process() wrote may be
\* left in an open transaction, or even have reached the database.
CommitRaises ==
    /\ stage = "commit"
    /\ ExitBatchRaising
    /\ Finish("commit_raised")
    /\ UNCHANGED <<wiring, countCache, sent, alerts>>

\* A repository call or a collaborator raises: the batch is rolled back, and
\* the caller logs the exception and drops the candidate.
Raise ==
    /\ stage \notin {"idle", "commit"}
    /\ AbortBatch
    /\ Finish("raised")
    /\ UNCHANGED <<wiring, countCache, sent, alerts>>

\* submit() raises although the transaction was delivered: the RPC call timed
\* out after the node had accepted it.
SubmitRaisesAfterSend ==
    /\ stage = "submit"
    /\ sent' = sent \cup {cur}
    /\ AbortBatch
    /\ Finish("raised")
    /\ UNCHANGED <<wiring, countCache, alerts>>

\* Mutant: init_db starts from empty tables.
RestartRecreating ==
    /\ batchDepth' = 0 /\ working' = EmptyDb /\ durable' = EmptyDb
    /\ IF cur = NoCandidate THEN UNCHANGED <<stage, cur, reply, outcome>>
                            ELSE Finish("killed")
    /\ wiring' \in Wirings
    /\ countCache' = NoCount
    /\ UNCHANGED <<sent, alerts>>

\* The process dies, perhaps with a candidate in the pipeline (the consumer is
\* a daemon thread, joined for five seconds and then abandoned), and a new
\* process starts, perhaps wired differently.
Restart ==
    /\ Reconnect
    /\ IF cur = NoCandidate THEN UNCHANGED <<stage, cur, reply, outcome>>
                            ELSE Finish("killed")
    /\ wiring' \in Wirings
    /\ countCache' = NoCount
    /\ UNCHANGED <<sent, alerts>>

\* The cached count is 30 seconds old, or the minute in its key is over.
CacheExpires ==
    /\ countCache # NoCount
    /\ countCache' = NoCount
    /\ UNCHANGED <<dbVars, wiring, stage, cur, reply, outcome, sent, alerts>>

\* On PostgreSQL save_trade_result always raises: save_execution_attempt returned
\* cursor.lastrowid, which psycopg2 leaves at 0 for a table without OIDs, and the
\* foreign key of trade_results refuses that execution_id.
SaveResultRaises ==
    /\ stage = "verify"
    /\ wiring.backend = "postgres"
    /\ Raise

Step ==
    \/ Detect \/ Price \/ EvaluateRisk \/ Reject \/ Approve
    \/ Simulate \/ MarkSimulated \/ Submit \/ SaveAttempt \/ MarkSubmitted
    \/ Verify \/ SaveResultRaises \/ Resolve \/ DryRun \/ Return

Fault == CommitRaises \/ Raise \/ SubmitRaisesAfterSend \/ Restart

Next == (\E c \in Candidates : Process(c)) \/ Step \/ Fault \/ CacheExpires

Spec == Init /\ [][Next]_vars

\* The consumer thread keeps running, and every collaborator's call ends (each
\* is bounded by a timeout), so the stage process() is in is always left.
FairSpec == Spec /\ WF_vars(Step)

-----------------------------------------------------------------------------
(* Properties                                                              *)

\* Every variable holds a value of its type.
TypeOK ==
    /\ batchDepth \in {0, 1}
    /\ working \in Db
    /\ durable \in Db
    /\ wiring \in Wirings
    /\ stage \in Stages
    /\ cur \in Candidates \cup {NoCandidate}
    /\ reply \in FinalStatuses \cup {"none"}
    /\ outcome \in [Candidates -> Outcomes]
    /\ countCache \in Nat \cup {NoCount}
    /\ sent \subseteq Candidates
    /\ alerts \subseteq [cand : Candidates, event : {"reverted", "dropped"}]

\* What a restarted process or another connection reads is only whole life
\* cycles: no candidate is found half way, and its final status stands beside
\* exactly the pricing, risk, simulation, attempt and result rows of the stages
\* that lead to it, whatever raised, failed to commit or was killed before.
DurableComplete ==
    \A c \in Candidates : durable.opps[c] \in CompleteRows \cup {Absent}

\* A status process() returned to its caller is the status the database holds,
\* then and for good, through later rollbacks, failed commits and restarts.
ReturnedIsDurable ==
    \A c \in Candidates :
        outcome[c] \in FinalStatuses => durable.opps[c].status = outcome[c]

\* A candidate whose stages raised, or that was in the pipeline when the process
\* died, has left nothing behind: neither in the database nor in the open
\* transaction, where a later commit would pick it up.
FailedLeavesNoTrace ==
    \A c \in Candidates :
        outcome[c] \in {"raised", "killed"} =>
            working.opps[c] = Absent /\ durable.opps[c] = Absent

\* A transaction is sent only after every gate: with execution enabled and a
\* submitter wired, for a candidate that the risk policy approved and, where a
\* simulator is wired, that passed simulation.
SendGated ==
    [][\A c \in sent' \ sent :
            /\ wiring.execution /\ wiring.submitter
            /\ working.opps[c].risk = "approved"
            /\ wiring.simulator => working.opps[c].sim = "ok"]_vars

\* A candidate's transaction is on the network and the database knows nothing
\* of it only while process() is working on it, or after it raised, failed to
\* commit or was killed. What process() answers accounts for every transaction:
\* the four statuses after submission are returned for sent candidates only.
SentAccounted ==
    \A c \in Candidates :
        outcome[c] \in FinalStatuses =>
            /\ c \in sent <=> outcome[c] \in {"submitted", "confirmed", "reverted", "dropped"}
            /\ c \in sent <=> durable.opps[c].attempt

\* Stage 6 records the outcome whatever it is: where nothing raises by itself and no
\* process dies, a transaction that reached the network has an execution attempt in
\* the database once the pipeline is done with it.
SentIsRecorded ==
    \A c \in sent : cur # c => durable.opps[c].attempt

\* Rule 6, the maximum number of trades per hour, all candidates being
\* processed within the same hour.
HourlyTradesBounded == Cardinality(sent) <= MaxTradesPerHour

\* An alert never contradicts the ledger: a candidate it named reverted or
\* dropped is recorded as just that, if it is recorded at all.
AlertsAgree ==
    \A a \in alerts : durable.opps[a.cand].status \in {"absent", a.event}

\* process() always ends: with a status, an exception or the process.
ProcessEnds == \A c \in Candidates : (cur = c) ~> (cur # c)

\* The pipeline implements the ledger, where candidates are whole records that
\* appear in one step and callers are told what the ledger holds.
Told(result) ==
    CASE result \in {"waiting", "running"}  -> "nothing"
      [] result \in {"raised", "killed"}    -> "error"
      [] result = "commit_raised"           -> "commit_error"
      [] result \in FinalStatuses           -> result
ToldAll == [c \in Candidates |-> Told(outcome[c])]
Ledger == INSTANCE CandidateLedger WITH ledger <- durable.opps, told <- ToldAll
ImplementsLedger == Ledger!LedgerSpec
=============================================================================
