------------------------ MODULE SharedConnectionProofs ------------------------
(***************************************************************************)
(* Proofs about SharedConnection: what survives of the pipeline's promises *)
(* when the scanner loop commits on the same connection at any moment.     *)
(*                                                                         *)
(* The invariant of CandidatePipelineProofs does not hold here: another    *)
(* thread's commit makes half a life cycle durable.  SharedInv keeps from  *)
(* it what speaks of the open transaction alone (the types, Control and    *)
(* StageRecord) and replaces what it says of the database by Kept, and by  *)
(* ScansKept for the rows of the scanner loop.                             *)
(***************************************************************************)
EXTENDS SharedConnection, CandidatePipelineProofs

\* The open transaction never lacks a candidate that the database has; before
\* process() it has none of the candidate, and after it the same record as the
\* database, a whole one with the status that was returned.
Kept(c) ==
    /\ durable.opps[c] # Absent => working.opps[c] # Absent
    /\ outcome[c] = "waiting" => working.opps[c] = Absent
    /\ outcome[c] \in FinalStatuses =>
          /\ working.opps[c] = durable.opps[c]
          /\ durable.opps[c] \in CompleteRows
          /\ durable.opps[c].status = outcome[c]

NobodyFailed == \A c \in Candidates : outcome[c] \notin {"raised", "killed", "commit_raised"}

\* Rows inserted by the scanner loop stay in the open transaction until they are
\* committed, if no candidate's rollback takes them along.
ScansKept ==
    /\ durable.scans \subseteq working.scans
    /\ NobodyFailed =>
          /\ saved \subseteq working.scans
          /\ batchDepth = 0 => saved \subseteq durable.scans
          /\ scanBatch \ toInsert \subseteq working.scans

ScanTypeOK ==
    /\ scanStage \in {"idle", "insert", "commit"}
    /\ scanBatch \subseteq ScanRows
    /\ toInsert \subseteq scanBatch
    /\ scanStage = "commit" => toInsert = {}
    /\ saved \subseteq ScanRows

SharedInv ==
    /\ TypeOK /\ Control /\ (stage # "idle" => StageRecord)
    /\ ScanTypeOK
    /\ \A c \in Candidates : Kept(c)
    /\ ScansKept

-----------------------------------------------------------------------------
(* The invariant                                                           *)

\* A candidate stays kept when its record and outcome stay, or when the open
\* transaction is rolled back or committed.
LEMMA KeptFrame ==
    ASSUME NEW c \in Candidates, Kept(c), outcome'[c] = outcome[c],
           \/ working'.opps[c] = working.opps[c] /\ durable'.opps[c] = durable.opps[c]
           \/ working'.opps[c] = durable.opps[c] /\ durable'.opps[c] = durable.opps[c]
           \/ working'.opps[c] = working.opps[c] /\ durable'.opps[c] = working.opps[c]
    PROVE  Kept(c)'
  BY DEF Kept

\* Nothing has happened yet.
LEMMA SharedInitInv == SharedInit => SharedInv
<1> SUFFICES ASSUME SharedInit PROVE SharedInv
  OBVIOUS
<1>1. TypeOK /\ Control /\ stage = "idle"
  BY InitInv DEF SharedInit, IInv, Init
<1>2. \A c \in Candidates : working.opps[c] = Absent /\ durable.opps[c] = Absent /\ outcome[c] = "waiting"
  BY DEF SharedInit, Init, Connect, EmptyDb
<1>3. \A c \in Candidates : Kept(c)
  BY <1>2 DEF Kept, FinalStatuses, Statuses
<1>4. ScanTypeOK /\ ScansKept
  BY DEF SharedInit, Init, Connect, EmptyDb, ScanTypeOK, ScansKept
<1> QED
  BY <1>1, <1>3, <1>4 DEF SharedInv

\* A step inside process() keeps the invariant.
LEMMA StayKeepsShared == SharedInv /\ Stay /\ UNCHANGED scanVars => SharedInv'
<1> SUFFICES ASSUME SharedInv, Stay, UNCHANGED scanVars PROVE SharedInv'
  OBVIOUS
<1>1. stage # "idle" /\ StageRecord /\ cur \in Candidates /\ outcome[cur] = "running"
  BY DEF SharedInv, Control, TypeOK, Stay, Detect, Price, EvaluateRisk, Reject, Approve, Simulate,
         MarkSimulated, Submit, SaveAttempt, MarkSubmitted, Verify, Resolve, DryRun
<1>2. TypeOK' /\ Control' /\ StageRecord' /\ BatchFrame
  BY <1>1, StageStep DEF SharedInv
<1>3. Record' # Absent
  <2>1. stage' \in Stages \ {"idle", "detect"}
    BY <1>2 DEF TypeOK, BatchFrame
  <2>2. (StageRecord /\ stage \in Stages \ {"idle", "detect"} => Record # Absent)'
    BY RecordPresent, PTL
  <2> QED
    BY <1>2, <2>1, <2>2
<1>4. ASSUME NEW c \in Candidates  PROVE Kept(c)'
  <2>1. CASE c = cur
    BY <1>1, <1>2, <1>3, <2>1 DEF BatchFrame, Kept, Record, FinalStatuses, Statuses
  <2>2. CASE c # cur
    BY <1>2, <2>2, KeptFrame DEF SharedInv, BatchFrame
  <2> QED
    BY <2>1, <2>2
<1>5. ScanTypeOK' /\ ScansKept'
  BY <1>2 DEF SharedInv, ScanTypeOK, ScansKept, NobodyFailed, BatchFrame, scanVars
<1> QED
  BY <1>2, <1>4, <1>5 DEF SharedInv

\* So does the end of process() by an exception or with the process: the open
\* transaction is rolled back, unless it was the commit that raised.
LEMMA FailKeepsShared ==
    ASSUME SharedInv, stage # "idle", NEW result \in {"raised", "killed", "commit_raised"},
           Finish(result), batchDepth' = 0,
           \/ working' = durable /\ durable' = durable
           \/ working' = working /\ durable' \in {working, durable},
           wiring' \in Wirings, countCache' \in Nat \cup {NoCount},
           sent' \in {sent, sent \cup {cur}}, alerts' = alerts,
           ScanTypeOK'
    PROVE  SharedInv'
<1>1. working' \in Db /\ durable' \in Db
  BY DEF SharedInv, TypeOK
<1>2. /\ TypeOK' /\ Control' /\ stage' = "idle" /\ cur \in Candidates
      /\ outcome' = [outcome EXCEPT ![cur] = result]
  BY <1>1, FinishControl DEF SharedInv
<1>3. ASSUME NEW c \in Candidates  PROVE Kept(c)'
  <2>1. CASE c = cur
    BY <1>2, <2>1 DEF SharedInv, TypeOK, Kept, FinalStatuses, Statuses
  <2>2. CASE c # cur
    BY <1>2, <2>2, KeptFrame DEF SharedInv, TypeOK
  <2> QED
    BY <2>1, <2>2
<1>4. ScansKept'
  BY <1>2 DEF SharedInv, TypeOK, ScansKept, NobodyFailed
<1> QED
  BY <1>2, <1>3, <1>4 DEF SharedInv

\* A step that changes neither the database nor where process() stands and keeps
\* the types of the rest keeps the invariant, if the scan rows are kept.
LEMMA IdleKeepsShared ==
    ASSUME SharedInv, UNCHANGED <<stage, cur, reply, outcome, batchDepth>>,
           working' \in Db, durable' \in Db, working'.opps = working.opps,
           durable'.opps \in {durable.opps, working.opps},
           wiring' = wiring, countCache' \in Nat \cup {NoCount}, sent' = sent, alerts' = alerts,
           ScanTypeOK', ScansKept'
    PROVE  SharedInv'
<1>1. TypeOK' /\ Control'
  BY DEF SharedInv, TypeOK, Control
<1>2. stage' # "idle" => StageRecord'
  BY DEF SharedInv, StageRecord, Record
<1>3. ASSUME NEW c \in Candidates  PROVE Kept(c)'
  BY KeptFrame DEF SharedInv
<1> QED
  BY <1>1, <1>2, <1>3 DEF SharedInv

\* Whatever the consumer thread does keeps the invariant.
LEMMA ConsumeKeepsShared == SharedInv /\ Consume => SharedInv'
<1> SUFFICES ASSUME SharedInv, Consume PROVE SharedInv'
  OBVIOUS
<1>1. ScanTypeOK' /\ UNCHANGED scanVars
  BY DEF SharedInv, ScanTypeOK, Consume, scanVars
<1>2. ASSUME NEW c \in Candidates, Process(c)  PROVE SharedInv'
  <2>1. /\ batchDepth' = 1 /\ working' = working /\ durable' = durable /\ cur = NoCandidate
        /\ cur' = c /\ stage' = "detect" /\ outcome' = [outcome EXCEPT ![c] = "running"]
        /\ UNCHANGED <<wiring, reply, countCache, sent, alerts>>
    BY <1>2 DEF Process, EnterBatch, Goto, SharedInv, Control
  <2>2. Kept(c) /\ outcome[c] = "waiting" /\ c # NoCandidate
    BY <1>2, PipelineAssumption DEF Process, SharedInv
  <2>3. TypeOK' /\ Control'
    <3>1. TypeOK'
      BY <2>1 DEF SharedInv, TypeOK, Stages, Outcomes
    <3>2. Control'
      BY <2>1, <2>2, PipelineAssumption DEF SharedInv, Control, TypeOK
    <3> QED
      BY <3>1, <3>2
  <2>4. StageRecord'
    BY <2>1, <2>2 DEF Kept, StageRecord, Record
  <2>5. ASSUME NEW d \in Candidates  PROVE Kept(d)'
    <3>1. CASE d = c
      BY <2>1, <2>2, <3>1 DEF SharedInv, TypeOK, Kept, FinalStatuses, Statuses
    <3>2. CASE d # c
      BY <2>1, <3>2, KeptFrame DEF SharedInv, TypeOK
    <3> QED
      BY <3>1, <3>2
  <2>6. ScansKept'
    BY <1>1, <2>1, <2>2 DEF SharedInv, ScansKept, NobodyFailed, TypeOK, scanVars
  <2> QED
    BY <1>1, <2>3, <2>4, <2>5, <2>6 DEF SharedInv
<1>3. CASE Stay
  BY <1>1, <1>3, StayKeepsShared
<1>4. CASE Return
  <2>1. /\ Record \in CompleteRows /\ Record.status = reply /\ reply \in FinalStatuses
        /\ stage # "idle"
    BY <1>4 DEF Return, SharedInv, StageRecord, Control
  <2>2. batchDepth' = 0 /\ durable' = working /\ working' = working
    BY <1>4 DEF Return, ExitBatch, SharedInv, Control
  <2>3. working' \in Db /\ durable' \in Db
    BY <2>2 DEF SharedInv, TypeOK
  <2>4. /\ TypeOK' /\ Control' /\ stage' = "idle" /\ cur \in Candidates
        /\ outcome' = [outcome EXCEPT ![cur] = reply]
    BY <1>4, <2>1, <2>2, <2>3, FinishControl DEF Return, SharedInv, TypeOK
  <2>5. ASSUME NEW c \in Candidates  PROVE Kept(c)'
    <3>1. CASE c = cur
      BY <2>1, <2>2, <2>4, <3>1 DEF SharedInv, TypeOK, Kept, Record, FinalStatuses, Statuses
    <3>2. CASE c # cur
      BY <2>2, <2>4, <3>2, KeptFrame DEF SharedInv, TypeOK
    <3> QED
      BY <3>1, <3>2
  <2>6. ScansKept'
    <3>1. NobodyFailed' => NobodyFailed
      BY <2>4 DEF SharedInv, TypeOK, Control, NobodyFailed
    <3> QED
      BY <1>1, <2>2, <3>1 DEF SharedInv, ScansKept, scanVars
  <2> QED
    BY <1>1, <2>4, <2>5, <2>6 DEF SharedInv
<1>5. CASE CommitRaises
  <2>1. /\ stage # "idle" /\ Finish("commit_raised") /\ batchDepth' = 0
        /\ \/ working' = durable /\ durable' = durable
           \/ working' = working /\ durable' \in {working, durable}
        /\ UNCHANGED <<wiring, countCache, sent, alerts>>
    BY <1>5 DEF CommitRaises, ExitBatchRaising
  <2> QED
    BY <1>1, <2>1, FailKeepsShared DEF SharedInv, TypeOK
<1>6. CASE Raise \/ SaveResultRaises \/ SubmitRaisesAfterSend
  <2>1. /\ stage # "idle" /\ Finish("raised") /\ batchDepth' = 0
        /\ working' = durable /\ durable' = durable
        /\ sent' \in {sent, sent \cup {cur}} /\ UNCHANGED <<wiring, countCache, alerts>>
    BY <1>6 DEF Raise, SaveResultRaises, SubmitRaisesAfterSend, AbortBatch, SharedInv, Control
  <2> QED
    BY <1>1, <2>1, FailKeepsShared DEF SharedInv, TypeOK
<1>7. CASE CacheExpires
  <2>1. /\ UNCHANGED <<dbVars, wiring, stage, cur, reply, outcome, sent, alerts, scanVars>>
        /\ countCache' = NoCount
    BY <1>1, <1>7 DEF CacheExpires
  <2>2. ScansKept'
    BY <2>1 DEF SharedInv, ScansKept, NobodyFailed, dbVars, scanVars
  <2> QED
    BY <1>1, <2>1, <2>2, IdleKeepsShared DEF SharedInv, TypeOK, dbVars
<1> QED
  BY <1>2, <1>3, <1>4, <1>5, <1>6, <1>7 DEF Consume, Step, Stay

\* Whatever the scanner loop does keeps the invariant.
LEMMA ScanKeepsShared == SharedInv /\ Scan => SharedInv'
<1> SUFFICES ASSUME SharedInv, Scan PROVE SharedInv'
  OBVIOUS
<1>1. CASE \E rows \in (SUBSET NewRows) \ {{}} : SaveScanHistory(rows)
  <2>1. PICK rows \in SUBSET NewRows : SaveScanHistory(rows)
    BY <1>1
  <2>2. ScanTypeOK' /\ ScansKept' /\ UNCHANGED vars
    BY <2>1 DEF SaveScanHistory, NewRows, SharedInv, ScanTypeOK, ScansKept, NobodyFailed, vars,
           dbVars, pipeVars
  <2> QED
    BY <2>2, IdleKeepsShared DEF SharedInv, TypeOK, vars, dbVars, pipeVars
<1>2. ASSUME NEW row \in ScanRows, InsertScanRow(row)  PROVE SharedInv'
  <2>1. /\ working' = [working EXCEPT !.scans = @ \cup {row}] /\ durable' = durable
        /\ UNCHANGED <<batchDepth, pipeVars>> /\ working \in Db
    BY <1>2 DEF InsertScanRow, SharedInv, TypeOK
  <2>2. working' \in Db /\ working'.opps = working.opps /\ working'.scans = working.scans \cup {row}
    BY <2>1 DEF Db
  <2>3. ScanTypeOK' /\ ScansKept'
    BY <1>2, <2>1, <2>2
       DEF InsertScanRow, SharedInv, ScanTypeOK, ScansKept, NobodyFailed, pipeVars
  <2> QED
    BY <2>1, <2>2, <2>3, IdleKeepsShared DEF SharedInv, TypeOK, pipeVars
<1>3. CASE SkipScanCommit \/ DecideScanCommit \/ ScanRaises
  <2>1. UNCHANGED vars
    BY <1>3 DEF SkipScanCommit, DecideScanCommit, ScanRaises
  <2>2. ScanTypeOK' /\ ScansKept'
    BY <1>3, <2>1 DEF SkipScanCommit, DecideScanCommit, ScanRaises, ScanIdle, SharedInv, ScanTypeOK,
           ScansKept, NobodyFailed, vars, dbVars, pipeVars
  <2> QED
    BY <2>1, <2>2, IdleKeepsShared DEF SharedInv, TypeOK, vars, dbVars, pipeVars
<1>4. CASE CommitScan
  <2>1. ScanTypeOK' /\ ScansKept'
    BY <1>4 DEF CommitScan, ScanIdle, SharedInv, ScanTypeOK, ScansKept, NobodyFailed, pipeVars
  <2> QED
    BY <1>4, <2>1, IdleKeepsShared DEF CommitScan, SharedInv, TypeOK, pipeVars
<1> QED
  BY <1>1, <1>2, <1>3, <1>4 DEF Scan

\* A restart rolls the open transaction back, and nothing in it was promised.
LEMMA RestartKeepsShared == SharedInv /\ RestartBoth => SharedInv'
<1> SUFFICES ASSUME SharedInv, RestartBoth PROVE SharedInv'
  OBVIOUS
<1>1. ScanTypeOK' /\ saved' = saved /\ scanBatch' = {}
  BY DEF RestartBoth, ScanIdle, SharedInv, ScanTypeOK
<1>2. /\ batchDepth' = 0 /\ working' = durable /\ durable' = durable
      /\ wiring' \in Wirings /\ countCache' = NoCount /\ UNCHANGED <<sent, alerts>>
  BY DEF RestartBoth, Restart, Reconnect
<1>3. CASE cur # NoCandidate
  BY <1>1, <1>2, <1>3, FailKeepsShared DEF RestartBoth, Restart, SharedInv, Control
<1>4. CASE cur = NoCandidate
  <2>1. UNCHANGED <<stage, cur, reply, outcome>> /\ stage = "idle" /\ batchDepth = 0
    BY <1>4 DEF RestartBoth, Restart, SharedInv, Control
  <2>2. TypeOK' /\ Control'
    BY <1>2, <2>1 DEF SharedInv, TypeOK, Control
  <2>3. ASSUME NEW c \in Candidates  PROVE Kept(c)'
    BY <1>2, <2>1, KeptFrame DEF SharedInv
  <2>4. ScansKept'
    BY <1>1, <1>2, <2>1 DEF SharedInv, ScansKept, NobodyFailed
  <2> QED
    BY <1>1, <2>1, <2>2, <2>3, <2>4 DEF SharedInv
<1> QED
  BY <1>3, <1>4

-----------------------------------------------------------------------------
(* The theorems                                                            *)

\* In every behaviour of the two threads the inductive invariant holds.
THEOREM SharedInvCorrect == SharedSpec => []SharedInv
<1>1. SharedInv /\ UNCHANGED sharedVars => SharedInv'
  <2> SUFFICES ASSUME SharedInv, UNCHANGED sharedVars PROVE SharedInv'
    OBVIOUS
  <2>1. ScanTypeOK' /\ ScansKept' /\ UNCHANGED vars
    BY DEF SharedInv, ScanTypeOK, ScansKept, NobodyFailed, sharedVars, scanVars, vars, dbVars, pipeVars
  <2> QED
    BY <2>1, IdleKeepsShared DEF SharedInv, TypeOK, vars, dbVars, pipeVars
<1> QED
  BY <1>1, SharedInitInv, ConsumeKeepsShared, ScanKeepsShared, RestartKeepsShared, PTL
     DEF SharedSpec, SharedNext

\* Every variable of the two threads holds a value of its type.
THEOREM SharedTypeCorrect == SharedSpec => []SharedTypeOK
<1>1. SharedInv => SharedTypeOK
  BY DEF SharedInv, ScanTypeOK, SharedTypeOK
<1> QED
  BY <1>1, SharedInvCorrect, PTL

\* A status that process() returned is in the database for good, and with it
\* the whole record, whatever the scanner loop commits and when.
THEOREM ReturnedIsCompleteCorrect == SharedSpec => []ReturnedIsComplete
<1>1. SharedInv => ReturnedIsComplete
  BY DEF SharedInv, Kept, ReturnedIsComplete
<1> QED
  BY <1>1, SharedInvCorrect, PTL

\* As long as nobody's process() failed, the rows of a save_scan_history that
\* returned are durable whenever no batch is open.
THEOREM SavedScansKeptCorrect == SharedSpec => []SavedScansKept
<1>1. SharedInv => SavedScansKept
  BY DEF SharedInv, ScansKept, NobodyFailed, SavedScansKept, FinalStatuses, Statuses
<1> QED
  BY <1>1, SharedInvCorrect, PTL

\* No step of either thread takes away what was committed.
THEOREM DurableMonotoneCorrect == SharedSpec => DurableMonotone
<1> DEFINE Grows ==
      /\ durable.scans \subseteq durable'.scans
      /\ \A c \in Candidates : durable.opps[c] # Absent => durable'.opps[c] # Absent
<1>1. SharedInv /\ [SharedNext]_sharedVars => [Grows]_sharedVars
  <2> SUFFICES ASSUME SharedInv, SharedNext PROVE Grows
    OBVIOUS
  <2>1. durable' \in {durable, working}
    <3>1. CASE Consume /\ ~Stay
      BY <3>1 DEF Consume, Step, Stay, Process, EnterBatch, Return, ExitBatch, CommitRaises,
             ExitBatchRaising, Raise, SaveResultRaises, SubmitRaisesAfterSend, AbortBatch,
             CacheExpires, dbVars
    <3>2. CASE Stay
      <4>1. stage # "idle"
        BY <3>2 DEF Stay, Detect, Price, EvaluateRisk, Reject, Approve, Simulate, MarkSimulated,
               Submit, SaveAttempt, MarkSubmitted, Verify, Resolve, DryRun
      <4> QED
        BY <3>2, <4>1, StageStep DEF SharedInv, BatchFrame
    <3>3. CASE Scan
      BY <3>3 DEF Scan, SaveScanHistory, InsertScanRow, SkipScanCommit, DecideScanCommit,
             CommitScan, ScanRaises, vars, dbVars
    <3>4. CASE RestartBoth
      BY <3>4 DEF RestartBoth, Restart, Reconnect
    <3> QED
      BY <3>1, <3>2, <3>3, <3>4 DEF SharedNext
  <2> QED
    BY <2>1 DEF SharedInv, Kept, ScansKept
<1> QED
  BY <1>1, SharedInvCorrect, PTL DEF SharedSpec, DurableMonotone
=============================================================================
