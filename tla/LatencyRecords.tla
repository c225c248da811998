--------------------------- MODULE LatencyRecords ---------------------------
(***************************************************************************)
(* LatencyTracker (src/observability/latency_tracker.py) between the       *)
(* scanner loop, which starts scans and marks their stages, and the        *)
(* consumer, which writes one record per opportunity later                 *)
(* (src/run_event_driven.py).  The lock makes each call one step; the file *)
(* is written after it is released.                                        *)
(***************************************************************************)
EXTENDS Naturals, Sequences

CONSTANTS
    ScanLimit,  \* bound: scans
    QueueLimit  \* bound: opportunities waiting

ASSUME LatencyAssumption == ScanLimit \in Nat /\ QueueLimit \in Nat

VARIABLES
    latScan,    \* _scan_count
    latMarks,   \* _scan.marks: stage and the scan that set it
    latQueue,   \* opportunities with their snapshots; the scan each was found in
    latWriting, \* the record built under the lock and not yet written
    latFile,    \* records of opportunities in the file
    latOpen     \* the file is open

latVars == <<latScan, latMarks, latQueue, latWriting, latFile, latOpen>>

LatInit ==
    /\ latScan = 0
    /\ latMarks = {}
    /\ latQueue = <<>>
    /\ latWriting = {}
    /\ latFile = {}
    /\ latOpen = TRUE

StartScan ==
    /\ latOpen
    /\ latScan < ScanLimit
    /\ latScan' = latScan + 1
    /\ latMarks' = {}
    /\ UNCHANGED <<latQueue, latWriting, latFile, latOpen>>

\* mark: a pause or a failed fetch ends the scan before either mark.
Mark(stage) ==
    /\ latOpen /\ latScan > 0
    /\ stage = "scanner" => \E m \in latMarks : m.stage = "rpc_fetch"
    /\ latMarks' = latMarks \cup {[stage |-> stage, scan |-> latScan]}
    /\ UNCHANGED <<latScan, latQueue, latWriting, latFile, latOpen>>

\* get_scan_marks, put_nowait.
QueueWithMarks ==
    /\ latOpen
    /\ \E m \in latMarks : m.stage = "scanner"
    /\ Len(latQueue) < QueueLimit
    /\ latQueue' = Append(latQueue, [found |-> latScan, marks |-> latMarks])
    /\ UNCHANGED <<latScan, latMarks, latWriting, latFile, latOpen>>

\* Mutant: the marks the tracker holds when the record is built.
MarksForCurrent(item) == latMarks

MarksFor(item) == item.marks

\* record_pipeline under the lock: the marks are the snapshot's, the scan index
\* the tracker's.
BuildRecord ==
    /\ latQueue # <<>> /\ latWriting = {}
    /\ latWriting' = {[found |-> Head(latQueue).found, marks |-> MarksFor(Head(latQueue)), index |-> latScan]}
    /\ latQueue' = Tail(latQueue)
    /\ UNCHANGED <<latScan, latMarks, latFile, latOpen>>

\* Writing to the closed file raises; the consumer logs it, and the record is lost.
WriteRecord ==
    /\ latWriting # {}
    /\ latWriting' = {}
    /\ latFile' = IF latOpen THEN latFile \cup latWriting ELSE latFile
    /\ UNCHANGED <<latScan, latMarks, latQueue, latOpen>>

\* close: after a join that may have timed out.
Close ==
    /\ latOpen
    /\ latOpen' = FALSE
    /\ UNCHANGED <<latScan, latMarks, latQueue, latWriting, latFile>>

LatNext == StartScan \/ QueueWithMarks \/ BuildRecord \/ WriteRecord \/ Close \/ \E stage \in {"rpc_fetch", "scanner"} : Mark(stage)

\* However far the scanner has run ahead, a record has both marks of the scan
\* that found its opportunity, whose index is at most the one written with it.
MarksOfOwnScan ==
    \A r \in latFile :
        /\ r.marks = {[stage |-> stage, scan |-> r.found] : stage \in {"rpc_fetch", "scanner"}}
        /\ r.found <= r.index
=============================================================================
