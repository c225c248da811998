---------------------------- MODULE CandidateRows ----------------------------
(***************************************************************************)
(* What the database says of one candidate: the status column of its row   *)
(* in opportunities, and which rows of pricing_results, risk_decisions,    *)
(* simulations, execution_attempts and trade_results refer to it           *)
(* (src/persistence/db.py, src/core/models.py).  Amounts are left out.     *)
(***************************************************************************)

\* The verdict a risk_decisions row records.
RiskVerdicts == {"approved", "rejected", "simulation_approved"}

\* OpportunityStatus; "priced" is declared there and never written.
Statuses ==
    {"detected", "approved", "rejected", "simulation_approved", "simulated",
     "simulation_failed", "submitted", "confirmed", "reverted", "dropped",
     "dry_run"}

\* The statuses process() can return: the ends of the life cycle.
FinalStatuses == Statuses \ {"detected", "approved", "simulated"}

\* VerificationResult: included (and not reverted), reverted, dropped, or none
\* of them, which is all PaperVerifier ever says.
Reports == {"included", "reverted", "dropped", "unknown"}

Row ==
    [status  : Statuses \cup {"absent"},
     pricing : BOOLEAN,
     risk    : RiskVerdicts \cup {"none"},
     sim     : {"none", "ok", "failed"},
     attempt : BOOLEAN,
     result  : Reports \cup {"none"}]

Absent ==
    [status |-> "absent", pricing |-> FALSE, risk |-> "none", sim |-> "none",
     attempt |-> FALSE, result |-> "none"]

\* The rows with one status, one verdict and the given evidence beside them.
RowsOf(status, risk, sims, attempt, results) ==
    [status : {status}, pricing : {TRUE}, risk : {risk}, sim : sims,
     attempt : {attempt}, result : results]

\* The records of a candidate whose life cycle is over. Each status stands
\* beside exactly the evidence of the stages that lead to it.
CompleteRows ==
    UNION { RowsOf("rejected", "rejected", {"none"}, FALSE, {"none"}),
            RowsOf("simulation_approved", "simulation_approved", {"none"}, FALSE, {"none"}),
            RowsOf("simulation_failed", "approved", {"failed"}, FALSE, {"none"}),
            RowsOf("dry_run", "approved", {"none", "ok"}, FALSE, {"none"}),
            RowsOf("submitted", "approved", {"none", "ok"}, TRUE, {"none", "unknown"}),
            RowsOf("confirmed", "approved", {"none", "ok"}, TRUE, {"included"}),
            RowsOf("reverted", "approved", {"none", "ok"}, TRUE, {"reverted"}),
            RowsOf("dropped", "approved", {"none", "ok"}, TRUE, {"dropped"}) }
=============================================================================
