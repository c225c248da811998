------------------------ MODULE MCCandidatePipeline ------------------------
(***************************************************************************)
(* Wirings for checking CandidatePipeline with TLC: every stage is reached *)
(* with and without the collaborator that precedes it.                     *)
(***************************************************************************)
EXTENDS CandidatePipeline

Wired(execution, simulator, submitter, verifier) ==
    [execution |-> execution, simulator |-> simulator, submitter |-> submitter,
     verifier |-> verifier, backend |-> "sqlite"]

ScannerOnly == Wired(FALSE, FALSE, FALSE, "none")   \* run_event_driven
Live == Wired(TRUE, TRUE, TRUE, "tx")               \* SolanaExecutor's three stages

LivePostgres == [Live EXCEPT !.backend = "postgres"]

MCWirings ==
    { ScannerOnly, Live,
      Wired(TRUE, TRUE, FALSE, "none"),             \* dry run
      Wired(TRUE, FALSE, TRUE, "none"),             \* submitted, never verified
      Wired(TRUE, FALSE, TRUE, "paper"),
      LivePostgres }

LiveOnly == {Live}
PostgresOnly == {LivePostgres}

-----------------------------------------------------------------------------
\* Nothing fails that need not fail.
QuietSpec == Init /\ [][(\E c \in Candidates : Process(c)) \/ Step]_vars

\* Nothing fails, and candidates come more than 30 seconds apart, so that no
\* count of the hour's trades comes from the cache.
UnhurriedSpec ==
    Init /\ [][/\ (\E c \in Candidates : Process(c)) \/ Step \/ CacheExpires
               /\ stage = "risk" => countCache = NoCount]_vars
=============================================================================
