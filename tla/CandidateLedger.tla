--------------------------- MODULE CandidateLedger ---------------------------
(***************************************************************************)
(* What CandidatePipeline.process promises, with no stages, no transaction *)
(* and no crash: a ledger to which whole candidate records are appended,   *)
(* and an answer to the caller that the ledger bears out.                  *)
(*                                                                         *)
(* A candidate appears in the ledger in one step, with a complete record,  *)
(* and is never altered afterwards.  process() answers a status in the     *)
(* very step that makes that status durable.  A candidate that failed has  *)
(* no record; the one exception the code makes is explicit in Answer: the  *)
(* records of candidates whose commit failed may come in with a later one. *)
(***************************************************************************)
EXTENDS CandidateRows

CONSTANT Candidates     \* the opportunities handed to process()

VARIABLES ledger,       \* the durable record of each candidate
          told          \* what the caller of process() was told of each

ledgerVars == <<ledger, told>>

LedgerInit ==
    /\ ledger = [c \in Candidates |-> Absent]
    /\ told = [c \in Candidates |-> "nothing"]

\* Whole records are appended for the candidates in S, which had none.
Append(S) ==
    /\ \A c \in S : ledger[c] = Absent
    /\ \E records \in [S -> CompleteRows] :
          ledger' = [c \in Candidates |-> IF c \in S THEN records[c] ELSE ledger[c]]

\* process(c) returns a status; the failed candidates in late come in with it.
Answer(c, late) ==
    /\ told[c] = "nothing"
    /\ \A d \in late : told[d] = "commit_error"
    /\ Append(late \cup {c})
    /\ told' = [told EXCEPT ![c] = ledger'[c].status]

\* process(c) raises, or the process dies while c is in it.
Refuse(c) ==
    /\ told[c] = "nothing"
    /\ told' = [told EXCEPT ![c] = "error"]
    /\ UNCHANGED ledger

\* process(c) raises in its commit: the record of c, and with it those of
\* earlier candidates with the same fate, may or may not be in the ledger.
RefuseCommit(c, late) ==
    /\ told[c] = "nothing"
    /\ \A d \in late : told[d] = "commit_error"
    /\ \/ UNCHANGED ledger
       \/ Append(late \cup {c})
    /\ told' = [told EXCEPT ![c] = "commit_error"]

LedgerNext ==
    \E c \in Candidates :
        \/ \E late \in SUBSET (Candidates \ {c}) : Answer(c, late) \/ RefuseCommit(c, late)
        \/ Refuse(c)

LedgerSpec == LedgerInit /\ [][LedgerNext]_ledgerVars
=============================================================================
