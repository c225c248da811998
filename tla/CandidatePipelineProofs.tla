----------------------- MODULE CandidatePipelineProofs -----------------------
(***************************************************************************)
(* Proofs about CandidatePipeline for any set of candidates, any wirings   *)
(* and any rate limit.                                                     *)
(*                                                                         *)
(* The safety properties are not inductive: that a committed record is     *)
(* complete follows from what the open transaction holds at each stage.    *)
(* The inductive invariant IInv therefore says three things beside TypeOK: *)
(* how stage, cur, batchDepth and reply agree (Control), what the record   *)
(* of the current candidate looks like at each stage (Current), and what   *)
(* is left of every other candidate, in the database and in the open       *)
(* transaction, by the way its process() ended (Settled).                  *)
(***************************************************************************)
EXTENDS CandidatePipeline, FiniteSetTheorems, TLAPS

SentStages == {"attempt", "submitted", "verify", "resolve"}
SentStatuses == {"submitted", "confirmed", "reverted", "dropped"}

\* process() has a candidate exactly when it is not idle; it then holds the one
\* batch there is, and has chosen its reply exactly when it is about to commit.
Control ==
    /\ stage = "idle" <=> cur = NoCandidate
    /\ batchDepth = IF stage = "idle" THEN 0 ELSE 1
    /\ stage = "commit" <=> reply \in FinalStatuses
    /\ \A c \in Candidates : outcome[c] = "running" <=> c = cur

\* The current candidate's record, in the open transaction, at each stage.
StageRecord ==
    /\ stage = "detect" => Record = Absent
    /\ stage = "price" => Record = [Absent EXCEPT !.status = "detected"]
    /\ stage = "risk" => Record \in RowsOf("detected", "none", {"none"}, FALSE, {"none"})
    /\ stage = "decide" =>
          \E v \in RiskVerdicts :
             /\ Record \in RowsOf("detected", v, {"none"}, FALSE, {"none"})
             /\ v = "approved" => wiring.execution
    /\ stage = "simulate" =>
          /\ Record \in RowsOf("approved", "approved", {"none"}, FALSE, {"none"})
          /\ wiring.execution
    /\ stage = "simulated" =>
          /\ Record \in RowsOf("approved", "approved", {"ok", "failed"}, FALSE, {"none"})
          /\ wiring.execution
    /\ stage \in {"submit", "attempt", "dry_run"} =>
          \E s \in {"approved", "simulated"} :
             /\ Record \in RowsOf(s, "approved", {"none", "ok"}, FALSE, {"none"})
             /\ wiring.execution
             /\ wiring.simulator => Record.sim = "ok"
             /\ stage = "submit" => wiring.submitter
    /\ stage = "submitted" =>
          \E s \in {"approved", "simulated"} :
             Record \in RowsOf(s, "approved", {"none", "ok"}, TRUE, {"none"})
    /\ stage = "verify" => Record \in RowsOf("submitted", "approved", {"none", "ok"}, TRUE, {"none"})
    /\ stage = "resolve" =>
          Record \in RowsOf("submitted", "approved", {"none", "ok"}, TRUE, Reports \ {"unknown"})
    /\ stage = "commit" => Record \in CompleteRows /\ Record.status = reply

Current ==
    stage # "idle" =>
        /\ StageRecord
        /\ durable.opps[cur] = Absent
        /\ cur \in sent <=> \/ stage \in SentStages
                            \/ stage = "commit" /\ reply \in SentStatuses
        /\ \A a \in alerts : a.cand = cur => stage = "commit" /\ a.event = reply

\* What is left of a candidate that process() has not begun or is done with.
\* Only a failed commit can leave a record in the open transaction alone.
Settled(c) ==
    /\ durable.opps[c] \in CompleteRows \cup {Absent}
    /\ \/ working.opps[c] = durable.opps[c]
       \/ /\ outcome[c] = "commit_raised"
          /\ durable.opps[c] = Absent
          /\ working.opps[c] \in CompleteRows
    /\ outcome[c] \in {"waiting", "raised", "killed"} => durable.opps[c] = Absent
    /\ outcome[c] = "waiting" => c \notin sent
    /\ outcome[c] \in FinalStatuses =>
          /\ durable.opps[c].status = outcome[c]
          /\ c \in sent <=> outcome[c] \in SentStatuses
    /\ \A a \in alerts : a.cand = c =>
          /\ outcome[c] # "waiting"
          /\ working.opps[c].status \in {"absent", a.event}

\* The steps of process() between its first stage and the commit.
Stay ==
    \/ Detect \/ Price \/ EvaluateRisk \/ Reject \/ Approve \/ Simulate \/ MarkSimulated
    \/ Submit \/ SaveAttempt \/ MarkSubmitted \/ Verify \/ Resolve \/ DryRun

\* What such a step leaves alone.
BatchFrame ==
    /\ cur' = cur /\ stage' \notin {"idle", "detect"} /\ wiring' = wiring /\ outcome' = outcome
    /\ durable' = durable /\ batchDepth' = batchDepth /\ working'.scans = working.scans
    /\ \A c \in Candidates : c # cur => working'.opps[c] = working.opps[c]

Others == \A c \in Candidates : c # cur => Settled(c)

IInv == TypeOK /\ Control /\ Current /\ Others

-----------------------------------------------------------------------------
(* Records                                                                 *)

\* A complete record has a final status and, beside it, an execution attempt
\* exactly when that status comes after submission.
LEMMA CompleteRowsFacts ==
    ASSUME NEW r \in CompleteRows
    PROVE  /\ r \in Row
           /\ r.status \in FinalStatuses
           /\ r # Absent
           /\ r.attempt <=> r.status \in SentStatuses
<1> DEFINE Fields(status, attempt) ==
       r \in Row /\ r.status = status /\ r.attempt = attempt
<1>1. CASE r \in RowsOf("rejected", "rejected", {"none"}, FALSE, {"none"})
  <2>1. Fields("rejected", FALSE)
    BY <1>1 DEF RowsOf, Row, Statuses, RiskVerdicts, Reports
  <2> QED
    BY <2>1 DEF FinalStatuses, Statuses, SentStatuses, Absent
<1>2. CASE r \in RowsOf("simulation_approved", "simulation_approved", {"none"}, FALSE, {"none"})
  <2>1. Fields("simulation_approved", FALSE)
    BY <1>2 DEF RowsOf, Row, Statuses, RiskVerdicts, Reports
  <2> QED
    BY <2>1 DEF FinalStatuses, Statuses, SentStatuses, Absent
<1>3. CASE r \in RowsOf("simulation_failed", "approved", {"failed"}, FALSE, {"none"})
  <2>1. Fields("simulation_failed", FALSE)
    BY <1>3 DEF RowsOf, Row, Statuses, RiskVerdicts, Reports
  <2> QED
    BY <2>1 DEF FinalStatuses, Statuses, SentStatuses, Absent
<1>4. CASE r \in RowsOf("dry_run", "approved", {"none", "ok"}, FALSE, {"none"})
  <2>1. Fields("dry_run", FALSE)
    BY <1>4 DEF RowsOf, Row, Statuses, RiskVerdicts, Reports
  <2> QED
    BY <2>1 DEF FinalStatuses, Statuses, SentStatuses, Absent
<1>5. CASE r \in RowsOf("submitted", "approved", {"none", "ok"}, TRUE, {"none", "unknown"})
  <2>1. Fields("submitted", TRUE)
    BY <1>5 DEF RowsOf, Row, Statuses, RiskVerdicts, Reports
  <2> QED
    BY <2>1 DEF FinalStatuses, Statuses, SentStatuses, Absent
<1>6. CASE r \in RowsOf("confirmed", "approved", {"none", "ok"}, TRUE, {"included"})
  <2>1. Fields("confirmed", TRUE)
    BY <1>6 DEF RowsOf, Row, Statuses, RiskVerdicts, Reports
  <2> QED
    BY <2>1 DEF FinalStatuses, Statuses, SentStatuses, Absent
<1>7. CASE r \in RowsOf("reverted", "approved", {"none", "ok"}, TRUE, {"reverted"})
  <2>1. Fields("reverted", TRUE)
    BY <1>7 DEF RowsOf, Row, Statuses, RiskVerdicts, Reports
  <2> QED
    BY <2>1 DEF FinalStatuses, Statuses, SentStatuses, Absent
<1>8. CASE r \in RowsOf("dropped", "approved", {"none", "ok"}, TRUE, {"dropped"})
  <2>1. Fields("dropped", TRUE)
    BY <1>8 DEF RowsOf, Row, Statuses, RiskVerdicts, Reports
  <2> QED
    BY <2>1 DEF FinalStatuses, Statuses, SentStatuses, Absent
<1> QED
  BY <1>1, <1>2, <1>3, <1>4, <1>5, <1>6, <1>7, <1>8 DEF CompleteRows

\* The absent record is a record, of a status that is not final.
LEMMA AbsentFacts == Absent \in Row /\ Absent.status \notin FinalStatuses /\ Absent.status = "absent"
  BY DEF Absent, Row, FinalStatuses, Statuses, RiskVerdicts, Reports

\* One repository call inside the batch changes the current candidate's record
\* in the open transaction, and nothing else.
LEMMA SaveFacts ==
    ASSUME TypeOK, Control, stage # "idle", NEW row \in Row, Save(row)
    PROVE  /\ cur \in Candidates
           /\ working' \in Db
           /\ working'.opps[cur] = row
           /\ working'.scans = working.scans
           /\ \A c \in Candidates : c # cur => working'.opps[c] = working.opps[c]
           /\ durable' = durable
           /\ batchDepth' = batchDepth
<1>1. cur \in Candidates
  BY DEF TypeOK, Control
<1>2. working' = [working EXCEPT !.opps[cur] = row] /\ durable' = durable /\ batchDepth' = batchDepth
  BY DEF Save, Write, Control
<1>3. working \in Db
  BY DEF TypeOK
<1> QED
  BY <1>1, <1>2, <1>3 DEF Db

\* A candidate other than the current one stays settled when nothing of it
\* changes but that the open transaction is rolled back or committed.
LEMMA SettledFrame ==
    ASSUME NEW c \in Candidates, Settled(c), outcome'[c] = outcome[c],
           c \in sent' <=> c \in sent,
           \A a \in alerts' : a.cand = c => a \in alerts,
           \/ working'.opps[c] = working.opps[c] /\ durable'.opps[c] = durable.opps[c]
           \/ working'.opps[c] = durable.opps[c] /\ durable'.opps[c] = durable.opps[c]
           \/ working'.opps[c] = working.opps[c] /\ durable'.opps[c] = working.opps[c]
    PROVE  Settled(c)'
<1>1. CASE working'.opps[c] = working.opps[c] /\ durable'.opps[c] = durable.opps[c]
  BY <1>1 DEF Settled
<1>2. CASE working'.opps[c] = durable.opps[c] /\ durable'.opps[c] = durable.opps[c]
  BY <1>2, AbsentFacts DEF Settled
<1>3. CASE working'.opps[c] = working.opps[c] /\ durable'.opps[c] = working.opps[c]
  BY <1>3 DEF Settled, FinalStatuses, Statuses
<1> QED
  BY <1>1, <1>2, <1>3

-----------------------------------------------------------------------------
(* The invariant                                                           *)

\* A step between two stages that saves a record of the current candidate keeps
\* the types and the agreement of stage, cur, batchDepth and reply.
LEMMA SaveStep ==
    ASSUME TypeOK, Control, stage # "idle", NEW row \in Row, Save(row),
           stage' \in Stages \ {"idle", "detect"}, cur' = cur, wiring' = wiring, outcome' = outcome,
           reply' \in FinalStatuses \cup {"none"},
           stage' = "commit" <=> reply' \in FinalStatuses,
           countCache' \in Nat \cup {NoCount}, sent' = sent,
           alerts' \subseteq [cand : Candidates, event : {"reverted", "dropped"}]
    PROVE  TypeOK' /\ Control' /\ BatchFrame /\ Record' = row
<1>1. /\ cur \in Candidates
      /\ working' \in Db
      /\ working'.opps[cur] = row
      /\ working'.scans = working.scans
      /\ \A c \in Candidates : c # cur => working'.opps[c] = working.opps[c]
      /\ durable' = durable
      /\ batchDepth' = batchDepth
  BY SaveFacts
<1>2. TypeOK'
  BY <1>1 DEF TypeOK
<1>3. Control'
  BY <1>1 DEF Control
<1>4. BatchFrame
  BY <1>1 DEF BatchFrame
<1>5. Record' = row
  BY <1>1 DEF Record
<1> QED
  BY <1>2, <1>3, <1>4, <1>5

\* The initial states satisfy the invariant: nobody is in the pipeline and
\* every candidate is absent.
LEMMA InitInv == Init => IInv
<1> SUFFICES ASSUME Init PROVE IInv
  OBVIOUS
<1> USE DEF Init, Connect, EmptyDb
<1>1. EmptyDb \in Db /\ \A c \in Candidates : EmptyDb.opps[c] = Absent
  BY AbsentFacts DEF Db
<1>2. TypeOK
  BY <1>1 DEF TypeOK, Stages, Outcomes, FinalStatuses, Statuses, NoCount
<1>3. Control
  BY PipelineAssumption DEF Control, FinalStatuses, Statuses
<1>4. Current
  BY DEF Current
<1>5. Others
  BY <1>1 DEF Others, Settled, FinalStatuses, Statuses
<1> QED
  BY <1>2, <1>3, <1>4, <1>5 DEF IInv

\* The stage a candidate is in says which record it has; the facts a step needs.
LEMMA CurrentFacts ==
    ASSUME IInv, stage # "idle"
    PROVE  StageRecord /\ cur \in Candidates /\ Record \in Row
  BY DEF IInv, Current, Control, TypeOK, Record, Db

\* Once it is detected, the current candidate has a record.
LEMMA RecordPresent ==
    StageRecord /\ stage \in Stages \ {"idle", "detect"} => Record # Absent
<1> SUFFICES ASSUME StageRecord, stage \in Stages \ {"idle", "detect"} PROVE Record # Absent
  OBVIOUS
<1>1. CASE stage = "commit"
  BY <1>1, CompleteRowsFacts DEF StageRecord
<1>2. CASE stage = "price"
  BY <1>2 DEF StageRecord, Absent
<1>3. CASE stage \notin {"commit", "price"}
  <2>1. \E st, v, S, a, R : Record \in RowsOf(st, v, S, a, R)
    BY <1>3 DEF StageRecord, Stages
  <2>2. Record.pricing = TRUE
    BY <2>1 DEF RowsOf
  <2> QED
    BY <2>2 DEF Absent
<1> QED
  BY <1>1, <1>2, <1>3

\* The number of rows with status submitted is a natural number.
LEMMA SubmittedNowType == SubmittedNow \in Nat
<1> DEFINE S == {c \in Candidates : working.opps[c].status = "submitted"}
<1>1. IsFiniteSet(S)
  BY PipelineAssumption, FS_Subset
<1> QED
  BY <1>1, FS_CardinalityType DEF SubmittedNow

\* However process() ends, the pipeline is idle again and holds no batch.
LEMMA FinishControl ==
    ASSUME TypeOK, Control, stage # "idle",
           NEW result \in {"raised", "killed", "commit_raised"} \cup FinalStatuses,
           Finish(result), batchDepth' = 0, working' \in Db, durable' \in Db,
           wiring' \in Wirings, countCache' \in Nat \cup {NoCount},
           sent' \in {sent, sent \cup {cur}}, alerts' = alerts
    PROVE  /\ TypeOK' /\ Control' /\ stage' = "idle" /\ cur \in Candidates
           /\ outcome' = [outcome EXCEPT ![cur] = result]
<1>1. /\ cur \in Candidates /\ cur' = NoCandidate /\ stage' = "idle" /\ reply' = "none"
      /\ outcome' = [outcome EXCEPT ![cur] = result]
  BY DEF Finish, Goto, Control, TypeOK
<1>2. TypeOK'
  BY <1>1 DEF TypeOK, Stages, Outcomes
<1>3. Control'
  BY <1>1, PipelineAssumption DEF Control, TypeOK, FinalStatuses, Statuses
<1> QED
  BY <1>1, <1>2, <1>3

\* When process() fails, the pipeline is idle again and every candidate settled:
\* the open transaction was rolled back, or left open, or had been committed.
LEMMA FinishInv ==
    ASSUME IInv, stage # "idle", NEW result \in {"raised", "killed", "commit_raised"},
           Finish(result), batchDepth' = 0,
           \/ working' = durable /\ durable' = durable
           \/ result = "commit_raised" /\ stage = "commit" /\ working' = working
              /\ durable' \in {working, durable},
           wiring' \in Wirings, countCache' \in Nat \cup {NoCount},
           sent' \in {sent, sent \cup {cur}}, alerts' = alerts
    PROVE  IInv'
<1>1. /\ cur \in Candidates /\ cur' = NoCandidate /\ stage' = "idle" /\ reply' = "none"
      /\ outcome' = [outcome EXCEPT ![cur] = result]
  BY CurrentFacts DEF Finish, Goto
<1>2. working' \in Db /\ durable' \in Db
  BY DEF IInv, TypeOK
<1>3. TypeOK' /\ Control'
  BY <1>2, FinishControl DEF IInv
<1>4. ASSUME NEW c \in Candidates, c # cur  PROVE Settled(c)'
  BY <1>1, <1>4, SettledFrame DEF IInv, Others, TypeOK
<1>5. ASSUME NEW c \in Candidates, c = cur  PROVE Settled(c)'
  <2>1. outcome'[c] = result /\ durable.opps[c] = Absent
    BY <1>1, <1>5 DEF IInv, TypeOK, Current
  <2>2. result \notin FinalStatuses /\ result # "waiting"
    BY DEF FinalStatuses, Statuses
  <2>3. CASE working' = durable /\ durable' = durable
    BY <2>1, <2>2, <2>3, AbsentFacts DEF Settled
  <2>4. CASE /\ result = "commit_raised" /\ stage = "commit" /\ working' = working
             /\ durable' \in {working, durable}
    <3>1. working.opps[c] \in CompleteRows /\ working.opps[c].status = reply
      BY <1>5, <2>4, CurrentFacts DEF StageRecord, Record
    <3>2. \A a \in alerts : a.cand = c => a.event = reply
      BY <1>5 DEF IInv, Current
    <3> QED
      BY <2>1, <2>2, <2>4, <3>1, <3>2 DEF Settled
  <2> QED
    BY <2>3, <2>4
<1> QED
  BY <1>1, <1>3, <1>4, <1>5 DEF IInv, Current, Others

\* Faults keep the invariant.
LEMMA FaultInv == IInv /\ Fault => IInv'
<1> SUFFICES ASSUME IInv, Fault PROVE IInv'
  OBVIOUS
<1>1. CASE CommitRaises
  BY <1>1, FinishInv DEF CommitRaises, ExitBatchRaising, IInv, TypeOK
<1>2. CASE Raise
  <2>1. batchDepth' = 0 /\ working' = durable /\ durable' = durable
    BY <1>2 DEF Raise, AbortBatch, IInv, Control
  <2> QED
    BY <1>2, <2>1, FinishInv DEF Raise, IInv, TypeOK
<1>3. CASE SubmitRaisesAfterSend
  <2>1. batchDepth' = 0 /\ working' = durable /\ durable' = durable
    BY <1>3 DEF SubmitRaisesAfterSend, AbortBatch, IInv, Control
  <2> QED
    BY <1>3, <2>1, FinishInv DEF SubmitRaisesAfterSend, IInv, TypeOK
<1>4. CASE Restart /\ cur # NoCandidate
  BY <1>4, FinishInv DEF Restart, Reconnect, IInv, Control
<1>5. CASE Restart /\ cur = NoCandidate
  <2>1. /\ batchDepth' = 0 /\ working' = durable /\ durable' = durable /\ stage = "idle"
        /\ UNCHANGED <<stage, cur, reply, outcome, sent, alerts>>
    BY <1>5 DEF Restart, Reconnect, IInv, Control
  <2>2. TypeOK' /\ Control' /\ Current'
    BY <1>5, <2>1 DEF Restart, IInv, TypeOK, Control, Current
  <2>3. ASSUME NEW c \in Candidates  PROVE Settled(c)'
    BY <1>5, <2>1, PipelineAssumption, SettledFrame DEF IInv, Others
  <2> QED
    BY <2>2, <2>3 DEF IInv, Others
<1> QED
  BY <1>1, <1>2, <1>3, <1>4, <1>5 DEF Fault

\* A step inside process() leaves the record that the next stage expects, whatever
\* other connections find in the database.
LEMMA StageStep ==
    ASSUME TypeOK, Control, stage # "idle", StageRecord, Stay
    PROVE  TypeOK' /\ Control' /\ StageRecord' /\ BatchFrame
<1>0. cur \in Candidates /\ Record \in Row
  BY DEF Control, TypeOK, Record, Db
<1>1. CASE Detect
  <2> DEFINE row == [Absent EXCEPT !.status = "detected"]
  <2>1. row \in Row /\ Save(row)
    BY <1>1 DEF Detect, Absent, Row, Statuses, RiskVerdicts, Reports
  <2>2. TypeOK' /\ Control' /\ BatchFrame /\ Record' = row
    BY <1>1, <2>1, SaveStep DEF Detect, Goto, Stages, TypeOK, Control
  <2>3. StageRecord'
    BY <1>1, <2>2, <1>0 DEF Detect, Goto, StageRecord
  <2> QED
    BY <2>2, <2>3
<1>2. CASE Price
  <2> DEFINE row == [Record EXCEPT !.pricing = TRUE]
  <2>1. row \in RowsOf("detected", "none", {"none"}, FALSE, {"none"}) /\ row \in Row /\ Save(row)
    BY <1>2, <1>0 DEF Price, StageRecord, Absent, RowsOf, Row, Statuses, RiskVerdicts, Reports
  <2>2. TypeOK' /\ Control' /\ BatchFrame /\ Record' = row
    BY <1>2, <2>1, SaveStep DEF Price, Goto, Stages, TypeOK, Control
  <2>3. StageRecord'
    BY <1>2, <2>1, <2>2 DEF Price, Goto, StageRecord
  <2> QED
    BY <2>2, <2>3
<1>3. CASE EvaluateRisk
  <2>1. PICK verdict \in Verdicts(HourTrades) : Save([Record EXCEPT !.risk = verdict])
    BY <1>3 DEF EvaluateRisk
  <2> DEFINE row == [Record EXCEPT !.risk = verdict]
  <2>2. verdict \in RiskVerdicts /\ (verdict = "approved" => wiring.execution)
    BY DEF Verdicts, RiskVerdicts
  <2>3. row \in RowsOf("detected", verdict, {"none"}, FALSE, {"none"}) /\ row \in Row /\ Save(row)
    BY <1>3, <2>1, <2>2, <1>0 DEF EvaluateRisk, StageRecord, RowsOf, Row, Statuses, RiskVerdicts, Reports
  <2>4. HourTrades \in Nat \cup {NoCount}
    BY SubmittedNowType DEF TypeOK, HourTrades
  <2>5. TypeOK' /\ Control' /\ BatchFrame /\ Record' = row
    BY <1>3, <2>3, <2>4, SaveStep DEF EvaluateRisk, Goto, Stages, TypeOK, Control
  <2>6. StageRecord'
    BY <1>3, <2>2, <2>3, <2>5 DEF EvaluateRisk, Goto, StageRecord
  <2> QED
    BY <2>5, <2>6
<1>4. CASE Reject
  <2> DEFINE row == [Record EXCEPT !.status = Record.risk]
  <2>1. /\ Record.risk \in {"rejected", "simulation_approved"}
        /\ row \in RowsOf(Record.risk, Record.risk, {"none"}, FALSE, {"none"})
    BY <1>4, <1>0 DEF Reject, StageRecord, RowsOf, Row, RiskVerdicts
  <2>2. row \in CompleteRows /\ row.status = Record.risk
    BY <2>1 DEF CompleteRows, RowsOf
  <2>3. row \in Row /\ Save(row) /\ Record.risk \in FinalStatuses
    BY <1>4, <2>1, <2>2, CompleteRowsFacts DEF Reject, FinalStatuses, Statuses
  <2>4. TypeOK' /\ Control' /\ BatchFrame /\ Record' = row
    BY <1>4, <2>3, SaveStep DEF Reject, Goto, Stages, TypeOK, Control
  <2>5. StageRecord'
    BY <1>4, <2>2, <2>3, <2>4 DEF Reject, Goto, StageRecord
  <2> QED
    BY <2>4, <2>5
<1>5. CASE Approve
  <2> DEFINE row == [Record EXCEPT !.status = "approved"]
  <2>1. row \in RowsOf("approved", "approved", {"none"}, FALSE, {"none"}) /\ wiring.execution
    BY <1>5, <1>0 DEF Approve, StageRecord, RowsOf
  <2>2. row \in Row /\ Save(row)
    BY <1>5, <2>1 DEF Approve, RowsOf, Row, Statuses, RiskVerdicts, Reports
  <2>3. TypeOK' /\ Control' /\ BatchFrame /\ Record' = row
    BY <1>5, <2>2, SaveStep DEF Approve, AfterApproval, AfterSimulation, Goto, Stages, TypeOK, Control
  <2>4. StageRecord'
    BY <1>5, <2>1, <2>3 DEF Approve, AfterApproval, AfterSimulation, Goto, StageRecord, RowsOf
  <2> QED
    BY <2>3, <2>4
<1>6. CASE Simulate
  <2>1. PICK answer \in {"ok", "failed"} : Save([Record EXCEPT !.sim = answer])
    BY <1>6 DEF Simulate
  <2> DEFINE row == [Record EXCEPT !.sim = answer]
  <2>2. row \in RowsOf("approved", "approved", {"ok", "failed"}, FALSE, {"none"}) /\ wiring.execution
    BY <1>6, <1>0 DEF Simulate, StageRecord, RowsOf
  <2>3. row \in Row /\ Save(row)
    BY <2>1, <2>2 DEF RowsOf, Row, Statuses, RiskVerdicts, Reports
  <2>4. TypeOK' /\ Control' /\ BatchFrame /\ Record' = row
    BY <1>6, <2>3, SaveStep DEF Simulate, Goto, Stages, TypeOK, Control
  <2>5. StageRecord'
    BY <1>6, <2>2, <2>4 DEF Simulate, Goto, StageRecord
  <2> QED
    BY <2>4, <2>5
<1>7. CASE MarkSimulated
  <2>1. /\ Record \in RowsOf("approved", "approved", {"ok", "failed"}, FALSE, {"none"})
        /\ wiring.execution
    BY <1>7, <1>0 DEF MarkSimulated, StageRecord
  <2>2. CASE Record.sim = "failed"
    <3> DEFINE row == [Record EXCEPT !.status = "simulation_failed"]
    <3>1. row \in RowsOf("simulation_failed", "approved", {"failed"}, FALSE, {"none"})
      BY <2>1, <2>2 DEF RowsOf
    <3>2. row \in CompleteRows /\ row.status = "simulation_failed"
      BY <3>1 DEF CompleteRows, RowsOf
    <3>3. Save(row) /\ reply' = "simulation_failed" /\ Goto("commit")
      BY <1>7, <2>2 DEF MarkSimulated
    <3>4. TypeOK' /\ Control' /\ BatchFrame /\ Record' = row
      BY <1>7, <3>2, <3>3, CompleteRowsFacts, SaveStep
         DEF MarkSimulated, Goto, Stages, TypeOK, FinalStatuses, Statuses
    <3>5. StageRecord'
      BY <1>7, <3>2, <3>3, <3>4 DEF MarkSimulated, Goto, StageRecord
    <3> QED
      BY <3>4, <3>5
  <2>3. CASE Record.sim = "ok"
    <3> DEFINE row == [Record EXCEPT !.status = "simulated"]
    <3>1. row \in RowsOf("simulated", "approved", {"none", "ok"}, FALSE, {"none"}) /\ row.sim = "ok"
      BY <2>1, <2>3 DEF RowsOf
    <3>2. row \in Row /\ Save(row) /\ UNCHANGED reply /\ Goto(AfterSimulation)
      BY <1>7, <2>3, <3>1 DEF MarkSimulated, RowsOf, Row, Statuses, RiskVerdicts, Reports
    <3>3. TypeOK' /\ Control' /\ BatchFrame /\ Record' = row
      BY <1>7, <3>2, SaveStep DEF MarkSimulated, AfterSimulation, Goto, Stages, TypeOK, Control
    <3>4. StageRecord'
      BY <1>7, <2>1, <3>1, <3>2, <3>3
         DEF MarkSimulated, AfterSimulation, Goto, StageRecord
    <3> QED
      BY <3>3, <3>4
  <2> QED
    BY <1>7, <2>2, <2>3 DEF MarkSimulated
<1>8. CASE Submit
  <2>1. Record' = Record /\ BatchFrame
    BY <1>8 DEF Submit, Record, dbVars, Goto, BatchFrame
  <2>2. TypeOK' /\ Control'
    BY <1>0, <1>8 DEF Submit, TypeOK, Control, dbVars, Goto, Stages
  <2>3. StageRecord'
    BY <1>8, <2>1 DEF Submit, BatchFrame, Goto, StageRecord
  <2> QED
    BY <2>1, <2>2, <2>3
<1>9. CASE SaveAttempt
  <2> DEFINE row == [Record EXCEPT !.attempt = TRUE]
  <2>1. PICK s \in {"approved", "simulated"} :
           Record \in RowsOf(s, "approved", {"none", "ok"}, FALSE, {"none"})
    BY <1>9, <1>0 DEF SaveAttempt, StageRecord
  <2>2. row \in RowsOf(s, "approved", {"none", "ok"}, TRUE, {"none"})
    BY <2>1 DEF RowsOf
  <2>3. row \in Row /\ Save(row)
    BY <1>9, <2>2 DEF SaveAttempt, RowsOf, Row, Statuses, RiskVerdicts, Reports
  <2>4. TypeOK' /\ Control' /\ BatchFrame /\ Record' = row
    BY <1>9, <2>3, SaveStep DEF SaveAttempt, Goto, Stages, TypeOK, Control
  <2>5. StageRecord'
    BY <1>9, <2>2, <2>4 DEF SaveAttempt, Goto, StageRecord
  <2> QED
    BY <2>4, <2>5
<1>10. CASE MarkSubmitted
  <2> DEFINE row == [Record EXCEPT !.status = "submitted"]
  <2>1. PICK s \in {"approved", "simulated"} :
           Record \in RowsOf(s, "approved", {"none", "ok"}, TRUE, {"none"})
    BY <1>10, <1>0 DEF MarkSubmitted, StageRecord
  <2>2. row \in RowsOf("submitted", "approved", {"none", "ok"}, TRUE, {"none"})
    BY <2>1 DEF RowsOf
  <2>3. row \in RowsOf("submitted", "approved", {"none", "ok"}, TRUE, {"none", "unknown"})
    BY <2>2 DEF RowsOf
  <2>4. row \in CompleteRows /\ row.status = "submitted"
    BY <2>3 DEF CompleteRows, RowsOf
  <2>5. row \in Row /\ Save(row)
    BY <1>10, <2>4, CompleteRowsFacts DEF MarkSubmitted
  <2>6. TypeOK' /\ Control' /\ BatchFrame /\ Record' = row
    BY <1>10, <2>5, SaveStep DEF MarkSubmitted, Goto, Stages, TypeOK, Control, FinalStatuses, Statuses
  <2>7. StageRecord'
    BY <1>10, <2>2, <2>4, <2>6
       DEF MarkSubmitted, Goto, StageRecord
  <2> QED
    BY <2>6, <2>7
<1>11. CASE Verify
  <2>1. PICK report \in VerifierReports :
           /\ Save([Record EXCEPT !.result = report])
           /\ Goto(IF report = "unknown" THEN "commit" ELSE "resolve")
           /\ reply' = IF report = "unknown" THEN "submitted" ELSE reply
    BY <1>11 DEF Verify
  <2> DEFINE row == [Record EXCEPT !.result = report]
  <2>2. report \in Reports
    BY DEF VerifierReports, Reports
  <2>3. row \in RowsOf("submitted", "approved", {"none", "ok"}, TRUE, {report})
    BY <1>11, <1>0 DEF Verify, StageRecord, RowsOf
  <2>4. row \in Row
    BY <2>2, <2>3 DEF RowsOf, Row, Statuses, RiskVerdicts, Reports
  <2>5. TypeOK' /\ Control' /\ BatchFrame /\ Record' = row
    BY <1>11, <2>1, <2>4, SaveStep DEF Verify, Goto, Stages, TypeOK, Control, FinalStatuses, Statuses
  <2>6. CASE report = "unknown"
    <3>1. row \in RowsOf("submitted", "approved", {"none", "ok"}, TRUE, {"none", "unknown"})
      BY <2>3, <2>6 DEF RowsOf
    <3>2. row \in CompleteRows /\ row.status = "submitted"
      BY <3>1 DEF CompleteRows, RowsOf
    <3>3. StageRecord'
      BY <1>11, <2>1, <2>5, <2>6, <3>2 DEF Verify, Goto, StageRecord
    <3> QED
      BY <2>5, <3>3
  <2>7. CASE report # "unknown"
    <3>1. row \in RowsOf("submitted", "approved", {"none", "ok"}, TRUE, Reports \ {"unknown"})
      BY <2>2, <2>3, <2>7 DEF RowsOf
    <3>2. StageRecord'
      BY <1>11, <2>1, <2>5, <2>7, <3>1 DEF Verify, Goto, StageRecord
    <3> QED
      BY <2>5, <3>2
  <2> QED
    BY <2>6, <2>7
<1>12. CASE Resolve
  <2> DEFINE status == StatusOf(Record.result)
             row == [Record EXCEPT !.status = status]
  <2>1. Record \in RowsOf("submitted", "approved", {"none", "ok"}, TRUE, Reports \ {"unknown"})
    BY <1>12, <1>0 DEF Resolve, StageRecord
  <2>2. row \in CompleteRows /\ row.status = status /\ status \in {"confirmed", "reverted", "dropped"}
    <3>1. Record.result \in {"included", "reverted", "dropped"}
      BY <2>1 DEF RowsOf, Reports
    <3>2. CASE Record.result = "included"
      <4>1. row \in RowsOf("confirmed", "approved", {"none", "ok"}, TRUE, {"included"})
        BY <2>1, <3>2 DEF StatusOf, RowsOf
      <4> QED
        BY <3>2, <4>1 DEF CompleteRows, StatusOf, RowsOf
    <3>3. CASE Record.result = "reverted"
      <4>1. row \in RowsOf("reverted", "approved", {"none", "ok"}, TRUE, {"reverted"})
        BY <2>1, <3>3 DEF StatusOf, RowsOf
      <4> QED
        BY <3>3, <4>1 DEF CompleteRows, StatusOf, RowsOf
    <3>4. CASE Record.result = "dropped"
      <4>1. row \in RowsOf("dropped", "approved", {"none", "ok"}, TRUE, {"dropped"})
        BY <2>1, <3>4 DEF StatusOf, RowsOf
      <4> QED
        BY <3>4, <4>1 DEF CompleteRows, StatusOf, RowsOf
    <3> QED
      BY <3>1, <3>2, <3>3, <3>4
  <2> HIDE DEF status
  <2>3. /\ Save(row) /\ reply' = status /\ Goto("commit")
        /\ \/ UNCHANGED alerts
           \/ /\ status \in {"reverted", "dropped"}
              /\ alerts' = alerts \cup {[cand |-> cur, event |-> status]}
    BY <1>12 DEF Resolve, Alerted, status
  <2>4. alerts' \subseteq [cand : Candidates, event : {"reverted", "dropped"}]
    BY <1>0, <1>12, <2>3 DEF Resolve, TypeOK
  <2>5. TypeOK' /\ Control' /\ BatchFrame /\ Record' = row
    BY <1>12, <2>2, <2>3, <2>4, CompleteRowsFacts, SaveStep
       DEF Resolve, Goto, Stages, TypeOK, FinalStatuses, Statuses
  <2>6. StageRecord'
    BY <1>12, <2>2, <2>3, <2>5 DEF Resolve, Goto, StageRecord
  <2> QED
    BY <2>5, <2>6
<1>13. CASE DryRun
  <2> DEFINE row == [Record EXCEPT !.status = "dry_run"]
  <2>1. PICK s \in {"approved", "simulated"} :
           Record \in RowsOf(s, "approved", {"none", "ok"}, FALSE, {"none"})
    BY <1>13, <1>0 DEF DryRun, StageRecord
  <2>2. row \in RowsOf("dry_run", "approved", {"none", "ok"}, FALSE, {"none"})
    BY <2>1 DEF RowsOf
  <2>3. row \in CompleteRows /\ row.status = "dry_run"
    BY <2>2 DEF CompleteRows, RowsOf
  <2>4. row \in Row /\ Save(row)
    BY <1>13, <2>3, CompleteRowsFacts DEF DryRun
  <2>5. TypeOK' /\ Control' /\ BatchFrame /\ Record' = row
    BY <1>13, <2>4, SaveStep DEF DryRun, Goto, Stages, TypeOK, FinalStatuses, Statuses
  <2>6. StageRecord'
    BY <1>13, <2>3, <2>5 DEF DryRun, Goto, StageRecord
  <2> QED
    BY <2>5, <2>6
<1> QED
  BY <1>1, <1>2, <1>3, <1>4, <1>5, <1>6, <1>7, <1>8, <1>9, <1>10, <1>11, <1>12, <1>13 DEF Stay

\* Such a step sends nothing but the current candidate's transaction and alerts
\* of nothing but its end, each when its stage says so.
LEMMA StaySends ==
    ASSUME IInv, stage # "idle", Stay, StageRecord', BatchFrame
    PROVE  /\ sent' \in {sent, sent \cup {cur}}
           /\ \A a \in alerts' : a.cand # cur => a \in alerts
           /\ cur \in sent' <=> \/ stage' \in SentStages
                                \/ stage' = "commit" /\ reply' \in SentStatuses
           /\ \A a \in alerts' : a.cand = cur => stage' = "commit" /\ a.event = reply'
<1>0. /\ stage # "commit" => \A a \in alerts : a.cand # cur
      /\ cur \in sent <=> \/ stage \in SentStages
                          \/ stage = "commit" /\ reply \in SentStatuses
  BY DEF IInv, Current
<1>1. CASE Detect \/ Price \/ EvaluateRisk \/ Approve \/ Simulate
  BY <1>0, <1>1 DEF Detect, Price, EvaluateRisk, Approve, Simulate, AfterApproval,
                    AfterSimulation, Goto, SentStages
<1>2. CASE Reject
  <2>1. reply' \in {"rejected", "simulation_approved"}
    BY <1>2, CurrentFacts DEF Reject, Row, RiskVerdicts, StageRecord, RowsOf
  <2> QED
    BY <1>0, <1>2, <2>1 DEF Reject, Goto, SentStages, SentStatuses
<1>3. CASE MarkSimulated \/ DryRun
  BY <1>0, <1>3 DEF MarkSimulated, DryRun, AfterSimulation, Goto, SentStages, SentStatuses
<1>4. CASE Submit
  BY <1>0, <1>4 DEF Submit, Goto, SentStages
<1>5. CASE SaveAttempt \/ MarkSubmitted \/ Verify
  BY <1>0, <1>5 DEF SaveAttempt, MarkSubmitted, Verify, Goto, SentStages, SentStatuses
<1>6. CASE Resolve
  <2>1. Record.result \in {"included", "reverted", "dropped"}
    BY <1>6, CurrentFacts DEF Resolve, StageRecord, RowsOf, Reports
  <2>2. reply' \in SentStatuses
    BY <1>6, <2>1 DEF Resolve, StatusOf, SentStatuses
  <2> QED
    BY <1>0, <1>6, <2>2 DEF Resolve, Alerted, Goto, SentStages
<1> QED
  BY <1>1, <1>2, <1>3, <1>4, <1>5, <1>6 DEF Stay

\* Every step inside process() keeps the invariant.
LEMMA StepInv == IInv /\ Step => IInv'
<1> SUFFICES ASSUME IInv, Step PROVE IInv'
  OBVIOUS
<1> USE DEF IInv
<1>1. CASE Stay
  <2>1. stage # "idle"
    BY <1>1 DEF Stay, Detect, Price, EvaluateRisk, Reject, Approve, Simulate, MarkSimulated,
           Submit, SaveAttempt, MarkSubmitted, Verify, Resolve, DryRun
  <2>2. TypeOK' /\ Control' /\ StageRecord' /\ BatchFrame
    BY <1>1, <2>1, CurrentFacts, StageStep
  <2>3. /\ sent' \in {sent, sent \cup {cur}}
        /\ \A a \in alerts' : a.cand # cur => a \in alerts
        /\ cur \in sent' <=> \/ stage' \in SentStages
                             \/ stage' = "commit" /\ reply' \in SentStatuses
        /\ \A a \in alerts' : a.cand = cur => stage' = "commit" /\ a.event = reply'
    BY <1>1, <2>1, <2>2, StaySends
  <2>4. Current'
    BY <2>1, <2>2, <2>3 DEF Current, BatchFrame
  <2>5. ASSUME NEW c \in Candidates, c # cur  PROVE Settled(c)'
    BY <2>2, <2>3, <2>5, SettledFrame DEF BatchFrame, Others
  <2> QED
    BY <2>2, <2>4, <2>5 DEF BatchFrame, Others
<1>2. CASE Return
  <2>1. /\ Record \in CompleteRows /\ Record.status = reply /\ cur \in Candidates
        /\ reply \in FinalStatuses
    BY <1>2, CurrentFacts DEF Return, StageRecord, Control
  <2>2. batchDepth' = 0 /\ durable' = working /\ working' = working
    BY <1>2 DEF Return, ExitBatch, Control
  <2>3. working' \in Db /\ durable' \in Db
    BY <2>2 DEF TypeOK
  <2>4. TypeOK' /\ Control'
    BY <1>2, <2>1, <2>2, <2>3, FinishControl DEF Return, TypeOK
  <2>5. ASSUME NEW c \in Candidates, c # cur  PROVE Settled(c)'
    BY <1>2, <2>2, <2>5, SettledFrame DEF Return, Finish, Others, TypeOK
  <2>6. ASSUME NEW c \in Candidates, c = cur  PROVE Settled(c)'
    <3>1. outcome'[c] = reply /\ working'.opps[c] = Record /\ durable'.opps[c] = Record
      BY <1>2, <2>1, <2>2, <2>6 DEF Return, Finish, TypeOK, Record
    <3>2. c \in sent' <=> reply \in SentStatuses
      BY <1>2, <2>6 DEF Return, Current, SentStages
    <3>3. \A a \in alerts' : a.cand = c => a.event = reply
      BY <1>2, <2>6 DEF Return, Current
    <3> QED
      BY <2>1, <3>1, <3>2, <3>3 DEF Settled, FinalStatuses, Statuses
  <2> QED
    BY <1>2, <2>3, <2>4, <2>5, <2>6 DEF Return, Finish, Goto, Others, Current
<1>3. CASE SaveResultRaises
  BY <1>3, FaultInv DEF SaveResultRaises, Fault
<1> QED
  BY <1>1, <1>2, <1>3 DEF Step, Stay

\* So do the call of process() and the expiry of the cached count, which take a
\* candidate into the pipeline and change nothing of any, respectively.
LEMMA NextInv == IInv /\ [Next]_vars => IInv'
<1> SUFFICES ASSUME IInv, [Next]_vars PROVE IInv'
  OBVIOUS
<1>1. ASSUME NEW c \in Candidates, Process(c)  PROVE IInv'
  <2>1. /\ batchDepth' = 1 /\ working' = working /\ durable' = durable /\ cur = NoCandidate
        /\ cur' = c /\ stage' = "detect" /\ outcome' = [outcome EXCEPT ![c] = "running"]
        /\ UNCHANGED <<wiring, reply, countCache, sent, alerts>>
    BY <1>1 DEF Process, EnterBatch, Goto, IInv, Control
  <2>2. Settled(c) /\ outcome[c] = "waiting"
    BY <1>1, <2>1, PipelineAssumption DEF Process, IInv, Others
  <2>3. TypeOK'
    BY <2>1 DEF IInv, TypeOK, Stages, Outcomes
  <2>4. Control'
    BY <1>1, <2>1, PipelineAssumption DEF Process, IInv, Control, TypeOK
  <2>5. Current'
    BY <2>1, <2>2 DEF Settled, Current, StageRecord, Record, SentStages
  <2>6. ASSUME NEW d \in Candidates, d # c  PROVE Settled(d)'
    BY <2>1, <2>6, PipelineAssumption, SettledFrame DEF IInv, Others, TypeOK
  <2> QED
    BY <2>1, <2>3, <2>4, <2>5, <2>6 DEF IInv, Others
<1>2. CASE CacheExpires \/ UNCHANGED vars
  <2>1. /\ UNCHANGED <<dbVars, wiring, stage, cur, reply, outcome, sent, alerts>>
        /\ countCache' \in {countCache, NoCount}
    BY <1>2 DEF CacheExpires, vars, pipeVars
  <2> USE <2>1 DEF IInv, dbVars
  <2>2. TypeOK'
    BY DEF TypeOK
  <2>3. Control'
    BY DEF Control
  <2>4. Current'
    BY DEF Current, StageRecord, Record
  <2>5. Others'
    BY SettledFrame DEF Others
  <2> QED
    BY <2>2, <2>3, <2>4, <2>5
<1> QED
  BY <1>1, <1>2, StepInv, FaultInv DEF Next

-----------------------------------------------------------------------------
(* The theorems                                                            *)

\* In every behaviour of the pipeline the inductive invariant holds.
THEOREM InvCorrect == Spec => []IInv
  BY InitInv, NextInv, PTL DEF Spec

\* Every variable holds a value of its type.
THEOREM TypeCorrect == Spec => []TypeOK
  BY InvCorrect, PTL DEF IInv

\* The database holds whole life cycles only, whatever fails.
THEOREM DurableCompleteCorrect == Spec => []DurableComplete
<1>1. IInv => DurableComplete
  BY PipelineAssumption DEF IInv, Others, Settled, Current, Control, DurableComplete
<1> QED
  BY <1>1, InvCorrect, PTL

\* A status that process() returned is in the database for good.
THEOREM ReturnedIsDurableCorrect == Spec => []ReturnedIsDurable
<1>1. IInv => ReturnedIsDurable
  BY DEF IInv, Others, Settled, Control, ReturnedIsDurable, FinalStatuses, Statuses
<1> QED
  BY <1>1, InvCorrect, PTL

\* A candidate that raised or was killed leaves nothing in the database and
\* nothing in the open transaction.
THEOREM FailedLeavesNoTraceCorrect == Spec => []FailedLeavesNoTrace
<1>1. IInv => FailedLeavesNoTrace
  BY AbsentFacts, CompleteRowsFacts DEF IInv, Others, Settled, Control, FailedLeavesNoTrace
<1> QED
  BY <1>1, InvCorrect, PTL

\* What process() returned accounts for every transaction it sent.
THEOREM SentAccountedCorrect == Spec => []SentAccounted
<1>1. IInv => SentAccounted
  <2> SUFFICES ASSUME IInv, NEW c \in Candidates, outcome[c] \in FinalStatuses
               PROVE  /\ c \in sent <=> outcome[c] \in SentStatuses
                      /\ c \in sent <=> durable.opps[c].attempt
    BY DEF SentAccounted, SentStatuses
  <2>1. Settled(c)
    BY DEF IInv, Others, Control, FinalStatuses, Statuses
  <2>2. durable.opps[c] \in CompleteRows
    BY <2>1, AbsentFacts DEF Settled
  <2> QED
    BY <2>1, <2>2, CompleteRowsFacts DEF Settled
<1> QED
  BY <1>1, InvCorrect, PTL

\* Alerts never contradict the database.
THEOREM AlertsAgreeCorrect == Spec => []AlertsAgree
<1>1. IInv => AlertsAgree
  <2> SUFFICES ASSUME IInv, NEW a \in alerts
               PROVE  durable.opps[a.cand].status \in {"absent", a.event}
    BY DEF AlertsAgree
  <2>1. a.cand \in Candidates
    BY DEF IInv, TypeOK
  <2> QED
    BY <2>1, AbsentFacts, PipelineAssumption DEF IInv, Others, Settled, Current, Control
<1> QED
  BY <1>1, InvCorrect, PTL

\* Nothing is sent but for an approved candidate that passed every gate.
THEOREM SendGatedCorrect == Spec => SendGated
<1> DEFINE Gated ==
      \A c \in sent' \ sent :
         /\ wiring.execution /\ wiring.submitter
         /\ working.opps[c].risk = "approved"
         /\ wiring.simulator => working.opps[c].sim = "ok"
<1>1. IInv /\ [Next]_vars => [Gated]_vars
  <2> SUFFICES ASSUME IInv, Next, NEW c \in sent' \ sent
               PROVE  /\ wiring.execution /\ wiring.submitter
                      /\ working.opps[c].risk = "approved"
                      /\ wiring.simulator => working.opps[c].sim = "ok"
    OBVIOUS
  <2>1. stage = "submit" /\ c = cur
    BY DEF Next, Process, Step, Fault, CacheExpires, Detect, Price, EvaluateRisk, Reject,
           Approve, Simulate, MarkSimulated, Submit, SaveAttempt, MarkSubmitted, Verify,
           Resolve, DryRun, Return, SaveResultRaises, CommitRaises, Raise,
           SubmitRaisesAfterSend, Restart
  <2> QED
    BY <2>1, CurrentFacts DEF StageRecord, Record, RowsOf
<1> QED
  BY <1>1, InvCorrect, PTL DEF Spec, SendGated

-----------------------------------------------------------------------------
(* Refinement                                                              *)

\* What each outcome tells the caller.
LEMMA ToldFacts ==
    /\ Told("waiting") = "nothing" /\ Told("running") = "nothing"
    /\ Told("raised") = "error" /\ Told("killed") = "error"
    /\ Told("commit_raised") = "commit_error"
    /\ \A status \in FinalStatuses : Told(status) = status
  BY DEF Told, FinalStatuses, Statuses

\* A commit appends to the ledger the whole record of the current candidate and
\* those that failed commits have left in the open transaction.
LEMMA CommitAppends ==
    ASSUME IInv, stage = "commit", durable' = working
    PROVE  \E late \in SUBSET (Candidates \ {cur}) :
              /\ \A d \in late : ToldAll[d] = "commit_error"
              /\ Ledger!Append(late \cup {cur})
<1> DEFINE late == {d \in Candidates \ {cur} : working.opps[d] # durable.opps[d]}
           S == late \cup {cur}
           records == [c \in S |-> working.opps[c]]
<1>1. cur \in Candidates /\ durable.opps[cur] = Absent /\ working.opps[cur] \in CompleteRows
  BY CurrentFacts DEF IInv, Current, StageRecord, Record
<1>2. ASSUME NEW d \in late
      PROVE  /\ outcome[d] = "commit_raised" /\ durable.opps[d] = Absent
             /\ working.opps[d] \in CompleteRows
  BY DEF IInv, Others, Settled
<1>3. \A d \in late : ToldAll[d] = "commit_error"
  BY <1>2, ToldFacts DEF ToldAll
<1>4. records \in [S -> CompleteRows]
  BY <1>1, <1>2
<1>5. durable'.opps = [c \in Candidates |-> IF c \in S THEN records[c] ELSE durable.opps[c]]
  BY DEF IInv, TypeOK, Db
<1>6. Ledger!Append(S)
  BY <1>1, <1>2, <1>4, <1>5 DEF Ledger!Append, Ledger!Absent, Absent, Ledger!CompleteRows,
     CompleteRows, Ledger!RowsOf, RowsOf
<1> QED
  BY <1>3, <1>6

\* Every step of the pipeline is a step of the ledger or leaves it alone.
LEMMA NextRefines == IInv /\ IInv' /\ [Next]_vars => [Ledger!LedgerNext]_(Ledger!ledgerVars)
<1> SUFFICES ASSUME IInv, IInv', [Next]_vars
             PROVE  Ledger!LedgerNext \/ UNCHANGED <<durable.opps, ToldAll>>
  BY DEF Ledger!ledgerVars, ToldAll
<1>1. CASE \/ UNCHANGED vars \/ CacheExpires
           \/ Detect \/ Price \/ EvaluateRisk \/ Reject \/ Approve \/ Simulate \/ MarkSimulated
           \/ Submit \/ SaveAttempt \/ MarkSubmitted \/ Verify \/ Resolve \/ DryRun
  <2>1. outcome' = outcome /\ durable' = durable
    BY <1>1 DEF IInv, Control, vars, dbVars, pipeVars, CacheExpires, Detect, Price, EvaluateRisk,
       Reject, Approve, Simulate, MarkSimulated, Submit, SaveAttempt, MarkSubmitted, Verify,
       Resolve, DryRun, Save, Write
  <2> QED
    BY <2>1 DEF ToldAll
<1>2. CASE \E c \in Candidates : Process(c)
  <2>1. PICK c \in Candidates : Process(c)
    BY <1>2
  <2>2. durable' = durable /\ outcome[c] = "waiting" /\ outcome' = [outcome EXCEPT ![c] = "running"]
    BY <2>1 DEF Process, EnterBatch
  <2>3. \A d \in Candidates : Told(outcome'[d]) = Told(outcome[d])
    BY <2>2, ToldFacts DEF IInv, TypeOK
  <2> QED
    BY <2>2, <2>3 DEF ToldAll
<1>3. CASE Return
  <2>1. stage = "commit" /\ durable' = working /\ cur \in Candidates /\ outcome[cur] = "running"
    BY <1>3, CurrentFacts DEF Return, ExitBatch, IInv, Control
  <2>2. outcome' = [outcome EXCEPT ![cur] = reply] /\ reply \in FinalStatuses /\ Record.status = reply
    BY <1>3, CurrentFacts DEF Return, Finish, IInv, Control, StageRecord
  <2>3. PICK late \in SUBSET (Candidates \ {cur}) :
           /\ \A d \in late : ToldAll[d] = "commit_error"
           /\ Ledger!Append(late \cup {cur})
    BY <2>1, CommitAppends
  <2>4. ToldAll[cur] = "nothing"
    BY <2>1, ToldFacts DEF ToldAll
  <2>5. ToldAll' = [ToldAll EXCEPT ![cur] = reply]
    BY <2>1, <2>2, ToldFacts DEF ToldAll, IInv, TypeOK
  <2>6. durable'.opps[cur].status = reply
    BY <2>1, <2>2 DEF Record
  <2>7. Ledger!Answer(cur, late)
    BY <2>3, <2>4, <2>5, <2>6 DEF Ledger!Answer
  <2> QED
    BY <2>1, <2>7 DEF Ledger!LedgerNext
<1>4. CASE CommitRaises
  <2>1. stage = "commit" /\ cur \in Candidates /\ outcome[cur] = "running"
    BY <1>4, CurrentFacts DEF CommitRaises, IInv, Control
  <2>2. outcome' = [outcome EXCEPT ![cur] = "commit_raised"]
    BY <1>4 DEF CommitRaises, Finish
  <2>3. ToldAll[cur] = "nothing" /\ ToldAll' = [ToldAll EXCEPT ![cur] = "commit_error"]
    BY <2>1, <2>2, ToldFacts DEF ToldAll, IInv, TypeOK
  <2>4. CASE durable' = durable
    <3>1. Ledger!RefuseCommit(cur, {})
      BY <2>3, <2>4 DEF Ledger!RefuseCommit
    <3> QED
      BY <2>1, <3>1 DEF Ledger!LedgerNext
  <2>5. CASE durable' = working
    <3>1. PICK late \in SUBSET (Candidates \ {cur}) :
             /\ \A d \in late : ToldAll[d] = "commit_error"
             /\ Ledger!Append(late \cup {cur})
      BY <2>1, <2>5, CommitAppends
    <3>2. Ledger!RefuseCommit(cur, late)
      BY <2>3, <3>1 DEF Ledger!RefuseCommit
    <3> QED
      BY <2>1, <3>2 DEF Ledger!LedgerNext
  <2> QED
    BY <1>4, <2>4, <2>5 DEF CommitRaises, ExitBatchRaising
<1>5. CASE Raise \/ SubmitRaisesAfterSend \/ (Restart /\ cur # NoCandidate)
  <2>1. cur \in Candidates /\ outcome[cur] = "running" /\ durable' = durable
    BY <1>5, CurrentFacts DEF Raise, SubmitRaisesAfterSend, Restart, AbortBatch, Reconnect,
       IInv, Control
  <2>2. \E result \in {"raised", "killed"} : outcome' = [outcome EXCEPT ![cur] = result]
    BY <1>5 DEF Raise, SubmitRaisesAfterSend, Restart, Finish
  <2>3. ToldAll[cur] = "nothing" /\ ToldAll' = [ToldAll EXCEPT ![cur] = "error"]
    BY <2>1, <2>2, ToldFacts DEF ToldAll, IInv, TypeOK
  <2>4. Ledger!Refuse(cur)
    BY <2>1, <2>3 DEF Ledger!Refuse
  <2> QED
    BY <2>1, <2>4 DEF Ledger!LedgerNext
<1>6. CASE Restart /\ cur = NoCandidate
  <2>1. outcome' = outcome /\ durable' = durable
    BY <1>6 DEF Restart, Reconnect
  <2> QED
    BY <2>1 DEF ToldAll
<1> QED
  BY <1>1, <1>2, <1>3, <1>4, <1>5, <1>6 DEF Next, Step, Fault, SaveResultRaises

\* The pipeline implements the ledger: seen through the database and its
\* answers, every behaviour of it is one of the ledger.
THEOREM Refinement == Spec => ImplementsLedger
<1>1. Init => Ledger!LedgerInit
  BY ToldFacts DEF Init, Connect, EmptyDb, Ledger!LedgerInit, ToldAll, Ledger!Absent, Absent
<1> QED
  BY <1>1, NextRefines, InvCorrect, PTL DEF Spec, ImplementsLedger, Ledger!LedgerSpec
=============================================================================
