---------------------------- MODULE DbConnection ----------------------------
(***************************************************************************)
(* The one database connection of the process (src/persistence/db.py).     *)
(* Every Repository of the process, whichever thread calls it, works on    *)
(* the same DbConnection, so there is a single open transaction:           *)
(*                                                                         *)
(*   durable     what the database holds for other connections, and what a *)
(*               restarted process finds                                   *)
(*   working     what this connection sees: durable plus the writes of the *)
(*               transaction that is open                                  *)
(*   batchDepth  DbConnection._batch_depth, the nesting of batch() blocks  *)
(*                                                                         *)
(* The module is a library of operators on its variables. Its clients      *)
(* combine them into actions and say what the database value is.           *)
(*                                                                         *)
(* Definitions introduced as mutants, here and in the other modules, take  *)
(* the place of the next one in runs that must fail.                       *)
(***************************************************************************)
EXTENDS Naturals

VARIABLES batchDepth, working, durable

dbVars == <<batchDepth, working, durable>>

\* A fresh connection on a database whose content is db.
Connect(db) ==
    /\ batchDepth = 0
    /\ working = db
    /\ durable = db

\* Mutant: a commit() that does not know of batches.
WriteThrough(db) == working' = db /\ durable' = db /\ UNCHANGED batchDepth

\* execute() of one INSERT or UPDATE followed by commit(), the body of every
\* writing Repository method: commit() returns early inside a batch.
Write(db) ==
    /\ working' = db
    /\ durable' = IF batchDepth > 0 THEN durable ELSE db
    /\ UNCHANGED batchDepth

\* Mutant: a batch() that does not count.
EnterBatchUncounted == UNCHANGED dbVars

\* Entering a batch() block.
EnterBatch ==
    /\ batchDepth' = batchDepth + 1
    /\ UNCHANGED <<working, durable>>

\* Mutant: the outermost block forgets to commit.
ExitBatchUncommitted == batchDepth' = batchDepth - 1 /\ UNCHANGED <<working, durable>>

\* Leaving batch() normally: the outermost block commits.
ExitBatch ==
    /\ batchDepth' = batchDepth - 1
    /\ durable' = IF batchDepth' = 0 THEN working ELSE durable
    /\ UNCHANGED working

\* Leaving batch() normally when the driver's commit() raises. The depth is
\* already back and the except branch does not cover this call, so nothing
\* rolls back: the transaction stays open, unless the driver itself dropped it,
\* or the server had committed before the connection broke.
ExitBatchRaising ==
    /\ batchDepth = 1
    /\ batchDepth' = 0
    /\ \/ working' \in {working, durable} /\ UNCHANGED durable
       \/ durable' = working /\ UNCHANGED working

\* Mutants: the error path does not decrement, or does not roll back.
AbortBatchUnbalanced == working' = durable /\ UNCHANGED <<batchDepth, durable>>
AbortBatchKeeping == batchDepth' = batchDepth - 1 /\ UNCHANGED <<working, durable>>

\* Leaving batch() by an exception: the outermost block rolls back.
AbortBatch ==
    /\ batchDepth' = batchDepth - 1
    /\ working' = IF batchDepth' = 0 THEN durable ELSE working
    /\ UNCHANGED durable

\* The process dies: the open transaction is gone, and the next process
\* connects to what was committed.
Reconnect ==
    /\ batchDepth' = 0
    /\ working' = durable
    /\ UNCHANGED durable
=============================================================================
