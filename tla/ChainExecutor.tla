--------------------------- MODULE ChainExecutor ---------------------------
(***************************************************************************)
(* ChainExecutor.execute (src/_evm_legacy/src/execution/chain_executor.py) *)
(* over the failover of its endpoints, with the chain and the mempools as  *)
(* its environment: build with the nonce an endpoint reports, simulate,    *)
(* sign, send (to the Flashbots relay first on Ethereum) and wait 120      *)
(* seconds for the receipt.                                                *)
(*                                                                         *)
(* A transaction is known by the attempt it belongs to and its nonce.      *)
(* Amounts, fee tiers, gas and routers are left out: an opportunity either *)
(* can be built or makes the building raise.                               *)
(***************************************************************************)
EXTENDS EndpointFailover, FiniteSets

CONSTANTS
    Flashbots,      \* use_flashbots
    MaxAttempts     \* bound: calls of execute

ASSUME ChainAssumption == Flashbots \in BOOLEAN /\ MaxAttempts \in Nat

VARIABLES
    ceStage,    \* where execute stands
    ceAttempt,  \* calls of execute
    ceNonce,    \* of the transaction in hand
    cePending,  \* transactions some node, or the relay, still holds
    ceMined,    \* transactions in the chain and their status
    ceReports   \* the ExecutionResult of each attempt

ceVars == <<ceStage, ceAttempt, ceNonce, cePending, ceMined, ceReports>>

Attempts == 1 .. MaxAttempts
Txs == [attempt : Attempts, nonce : 0 .. MaxAttempts]
CeInit ==
    /\ ceStage = "idle"
    /\ ceAttempt = 0
    /\ ceNonce = 0
    /\ cePending = {}
    /\ ceMined = {}
    /\ ceReports = [a \in Attempts |-> "none"]

\* What an endpoint that is up to date reports as latest.
MinedNonces == Cardinality(ceMined)
Tx == [attempt |-> ceAttempt, nonce |-> ceNonce]

CeReturn(attempt, result) ==
    /\ ceStage' = "idle"
    /\ ceReports' = [ceReports EXCEPT ![attempt] = result]

\* The except clause around the whole attempt: whatever was raised counts as an
\* error of the endpoint.
CeRaises(attempt) ==
    /\ CeReturn(attempt, "error")
    /\ RecordErrorAndSelect

\* A cross-chain, foreign or unsupported opportunity is turned down; a DEX that is
\* not configured raises.
BeginExecute ==
    /\ ceStage = "idle"
    /\ ceAttempt < MaxAttempts
    /\ ceAttempt' = ceAttempt + 1
    /\ \/ CeReturn(ceAttempt + 1, "rejected") /\ UNCHANGED foVars
       \/ CeRaises(ceAttempt + 1)
       \/ ceStage' = "build" /\ UNCHANGED <<ceReports, foVars>>
    /\ UNCHANGED <<ceNonce, cePending, ceMined>>

\* Mutant: the nonce after all transactions the nodes hold.
ReportedNoncesPending == {MinedNonces + Cardinality({tx \in cePending : tx.nonce >= MinedNonces})}

\* get_transaction_count counts mined transactions; an endpoint may lag behind.
ReportedNonces == {n \in {MinedNonces - 1, MinedNonces} : n >= 0}

BuildTransaction ==
    /\ ceStage = "build"
    /\ \/ /\ ceNonce' \in ReportedNonces
          /\ ceStage' = "simulate"
          /\ UNCHANGED <<ceReports, foVars>>
       \/ CeRaises(ceAttempt) /\ UNCHANGED ceNonce
    /\ UNCHANGED <<ceAttempt, cePending, ceMined>>

\* eth_call. A revert is a success of the endpoint, and so is a transport error:
\* what the HTTP provider raises then is no builtin ConnectionError.
SimulateCall ==
    /\ ceStage = "simulate"
    /\ RecordSuccess
    /\ \/ ceStage' = "send" /\ UNCHANGED ceReports
       \/ CeReturn(ceAttempt, "simulation_failed")
    /\ UNCHANGED <<ceAttempt, ceNonce, cePending, ceMined>>

\* The relay has the bundle, or it is unreachable, or the answer was lost; only in
\* the first case is the public mempool left out.
SendBundle ==
    /\ ceStage = "send" /\ Flashbots
    /\ \/ ceStage' = "wait" /\ cePending' = cePending \cup {Tx}
       \/ ceStage' = "public" /\ cePending' \in {cePending, cePending \cup {Tx}}
    /\ UNCHANGED <<ceAttempt, ceNonce, ceMined, ceReports, foVars>>

\* send_raw_transaction: accepted; refused, as a replacement that bids too little
\* or with a used nonce; or the answer is lost on the way back.
SendRaw ==
    /\ ceStage = "public" \/ (ceStage = "send" /\ ~Flashbots)
    /\ \/ /\ ceStage' = "wait"
          /\ cePending' = cePending \cup {Tx}
          /\ UNCHANGED <<ceReports, foVars>>
       \/ CeRaises(ceAttempt) /\ cePending' \in {cePending, cePending \cup {Tx}}
    /\ UNCHANGED <<ceAttempt, ceNonce, ceMined>>

\* wait_for_transaction_receipt: the receipt, or an exception after 120 s or on a
\* failed poll.
Wait ==
    /\ ceStage = "wait"
    /\ \/ /\ \E mining \in ceMined : mining.tx = Tx /\ CeReturn(ceAttempt, IF mining.status = 1 THEN "success" ELSE "reverted")
          /\ UNCHANGED foVars
       \/ CeRaises(ceAttempt)
    /\ UNCHANGED <<ceAttempt, ceNonce, cePending, ceMined>>

\* The environment: a pending transaction with the next nonce is mined, whichever
\* node held it; any pending one is dropped or its bundle's block goes by.
Mine(tx) ==
    /\ tx \in cePending
    /\ tx.nonce = MinedNonces
    /\ cePending' = cePending \ {tx}
    /\ \E status \in {0, 1} : ceMined' = ceMined \cup {[tx |-> tx, status |-> status]}
    /\ UNCHANGED <<ceStage, ceAttempt, ceNonce, ceReports, foVars>>

Drop(tx) ==
    /\ tx \in cePending
    /\ cePending' = cePending \ {tx}
    /\ UNCHANGED <<ceStage, ceAttempt, ceNonce, ceMined, ceReports, foVars>>

CeNext ==
    \/ BeginExecute \/ BuildTransaction \/ SimulateCall \/ SendBundle \/ SendRaw \/ Wait
    \/ \E tx \in cePending : Mine(tx) \/ Drop(tx)
    \/ \E e \in FoEndpoints : BackoffEnds(e) /\ UNCHANGED ceVars

\* A failed attempt may have sent a transaction that still lands, and the next
\* attempt does not wait for it. Still at most one of all that are pending can
\* ever be executed, since they compete for one nonce; what is mined without its
\* outcome being reported belongs to an attempt that ended in an error; and what
\* is reported of a receipt is true of that attempt's own transaction.
TradeAccounted ==
    /\ \A tx \in cePending : tx.nonce <= MinedNonces
    /\ \A a \in Attempts :
          LET mined == {mining.status : mining \in {k \in ceMined : k.tx.attempt = a}}
          IN CASE ceReports[a] = "success" -> mined = {1}
               [] ceReports[a] = "reverted" -> mined = {0}
               [] ceReports[a] \in {"rejected", "simulation_failed"} -> mined = {}
               [] OTHER -> Cardinality(mined) <= 1
=============================================================================
