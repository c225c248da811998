--------------------------- MODULE SharedConnection ---------------------------
(***************************************************************************)
(* The two writing threads of src/run_event_driven.py on the one           *)
(* DbConnection of the process: the consumer thread, inside the batch() of *)
(* CandidatePipeline.process, and the scanner loop, which calls            *)
(* Repository.save_scan_history after every scan.  batch() suppresses      *)
(* commits by a counter of the connection, not of the thread, and commit() *)
(* tests the counter before it commits, so each thread's transaction       *)
(* boundaries act on the other's writes.                                   *)
(***************************************************************************)
EXTENDS CandidatePipeline

VARIABLES
    scanStage,  \* save_scan_history: "idle", "insert" rows, or about to "commit"
    scanBatch,  \* the rows save_scan_history was called with
    toInsert,   \* those it has not inserted yet
    saved       \* rows of the calls that returned normally

scanVars == <<scanStage, scanBatch, toInsert, saved>>
sharedVars == <<vars, scanVars>>

\* Rows of the scans that have not been handed to save_scan_history yet.
NewRows == ScanRows \ (saved \cup working.scans \cup durable.scans)

SharedInit ==
    /\ Init
    /\ scanStage = "idle"
    /\ scanBatch = {}
    /\ toInsert = {}
    /\ saved = {}

\* No call of save_scan_history is in progress.
ScanIdle ==
    /\ scanStage' = "idle"
    /\ scanBatch' = {}
    /\ toInsert' = {}

-----------------------------------------------------------------------------
(* save_scan_history, called by the scanner loop                           *)

SaveScanHistory(rows) ==
    /\ scanStage = "idle"
    /\ scanStage' = "insert"
    /\ scanBatch' = rows
    /\ toInsert' = rows
    /\ UNCHANGED <<vars, saved>>

InsertScanRow(row) ==
    /\ scanStage = "insert"
    /\ row \in toInsert
    /\ working' = [working EXCEPT !.scans = @ \cup {row}]
    /\ toInsert' = toInsert \ {row}
    /\ UNCHANGED <<batchDepth, durable, pipeVars, scanStage, scanBatch, saved>>

\* Mutant: commit() returns although no batch is open.
SkipScanCommitAlways ==
    /\ scanStage = "insert"
    /\ toInsert = {}
    /\ saved' = saved \cup scanBatch
    /\ ScanIdle
    /\ UNCHANGED vars

\* commit() finds a batch open and returns: the rows are left to that batch.
SkipScanCommit ==
    /\ scanStage = "insert"
    /\ toInsert = {}
    /\ batchDepth > 0
    /\ saved' = saved \cup scanBatch
    /\ ScanIdle
    /\ UNCHANGED vars

\* commit() finds no batch open, and has yet to call the driver.
DecideScanCommit ==
    /\ scanStage = "insert"
    /\ toInsert = {}
    /\ batchDepth = 0
    /\ scanStage' = "commit"
    /\ UNCHANGED <<vars, scanBatch, toInsert, saved>>

\* The driver commits all that the connection has written, by any thread.
CommitScan ==
    /\ scanStage = "commit"
    /\ durable' = working
    /\ saved' = saved \cup scanBatch
    /\ ScanIdle
    /\ UNCHANGED <<batchDepth, working, pipeVars>>

\* An INSERT or the commit raises. The loop ignores it and goes on scanning;
\* nothing is rolled back.
ScanRaises ==
    /\ \/ scanStage = "insert" /\ toInsert # {}
       \/ scanStage = "commit"
    /\ ScanIdle
    /\ UNCHANGED <<vars, saved>>

-----------------------------------------------------------------------------

\* The process dies with both threads in it, and a new one starts.
RestartBoth ==
    /\ Restart
    /\ ScanIdle
    /\ UNCHANGED saved

Consume ==
    /\ \/ \E c \in Candidates : Process(c)
       \/ Step \/ CommitRaises \/ Raise \/ SubmitRaisesAfterSend \/ CacheExpires
    /\ UNCHANGED scanVars

Scan ==
    \/ \E rows \in (SUBSET NewRows) \ {{}} : SaveScanHistory(rows)
    \/ \E row \in ScanRows : InsertScanRow(row)
    \/ SkipScanCommit \/ DecideScanCommit \/ CommitScan \/ ScanRaises

SharedNext == Consume \/ Scan \/ RestartBoth

SharedSpec == SharedInit /\ [][SharedNext]_sharedVars

-----------------------------------------------------------------------------
(* Properties                                                              *)

\* Every variable holds a value of its type.
SharedTypeOK ==
    /\ TypeOK
    /\ scanStage \in {"idle", "insert", "commit"}
    /\ scanBatch \subseteq ScanRows
    /\ toInsert \subseteq scanBatch
    /\ saved \subseteq ScanRows

\* What process() returns is borne out by the database even with the scanner
\* committing and skipping commits at any moment: the status is durable, and
\* with it the whole record of the candidate.
ReturnedIsComplete ==
    \A c \in Candidates :
        outcome[c] \in FinalStatuses =>
            /\ durable.opps[c].status = outcome[c]
            /\ durable.opps[c] \in CompleteRows

\* The database only grows: once a candidate or a scan row has been committed,
\* whichever thread's commit it was, no rollback takes it away.
DurableMonotone ==
    [][ /\ durable.scans \subseteq durable'.scans
        /\ \A c \in Candidates :
              durable.opps[c] # Absent => durable'.opps[c] # Absent ]_sharedVars

\* As long as no candidate has failed, the scan rows of a save_scan_history
\* that returned are in the database whenever no batch is open, whichever
\* thread's commit it was that saved them.
SavedScansKept ==
    (batchDepth = 0 /\ \A c \in Candidates : outcome[c] \in {"waiting"} \cup FinalStatuses)
        => saved \subseteq durable.scans

\* "Suppress commits inside the block; single commit at end, rollback on
\* error": nothing of a candidate whose block ended in an error is durable.
ErrorRolledBack ==
    \A c \in Candidates : outcome[c] = "raised" => durable.opps[c] = Absent
=============================================================================
