-------------------------- MODULE EndpointFailover --------------------------
(***************************************************************************)
(* RpcProvider (src/data/rpc_failover.py): endpoints with error counts,    *)
(* disabled for a while after too many.  The client keeps the connection   *)
(* get_web3 gave it, while errors and successes are booked on the current  *)
(* index.  A library: the client says when it calls what.                  *)
(***************************************************************************)
EXTENDS Naturals, Sequences, SequencesExt

CONSTANTS
    NumEndpoints,   \* len(urls)
    MaxErrors       \* max_errors_before_disable

ASSUME FailoverAssumption == NumEndpoints \in Nat \ {0} /\ MaxErrors \in Nat \ {0}

VARIABLES
    foErrors,   \* error_count; what is over the limit counts as the limit
    foDisabled, \* disabled_until lies ahead
    foOldest,   \* the endpoints by last_error_at, those that never erred first
    foCurrent,  \* _current_index
    foUsed      \* the endpoint of the client's Web3

foVars == <<foErrors, foDisabled, foOldest, foCurrent, foUsed>>

FoEndpoints == 0 .. NumEndpoints - 1

FoInit ==
    /\ foErrors = [e \in FoEndpoints |-> 0]
    /\ foDisabled = {}
    /\ foOldest = [i \in 1 .. NumEndpoints |-> i - 1]
    /\ foCurrent = 0
    /\ foUsed = 0

FoNextIndex(e) == (e + 1) % NumEndpoints

RecordSuccess ==
    /\ foErrors' = [foErrors EXCEPT ![foCurrent] = 0]
    /\ UNCHANGED <<foDisabled, foOldest, foCurrent, foUsed>>

\* Mutant: with all endpoints disabled the current one is handed out as it is.
ReenabledNone(oldest) == {}

\* The endpoint that failed longest ago gets another chance.
Reenabled(oldest) == {Head(oldest)}

\* get_web3 after an error: the first enabled endpoint from the index on becomes
\* current. With all disabled the index comes full circle, and the endpoint that
\* is enabled again is used without being current.
SelectEndpoint(from, errors, disabled, oldest) ==
    IF disabled # FoEndpoints
    THEN LET next == CHOOSE k \in 0 .. NumEndpoints - 1 :
                        /\ (from + k) % NumEndpoints \notin disabled
                        /\ \A j \in 0 .. k - 1 : (from + j) % NumEndpoints \in disabled
         IN /\ foCurrent' = (from + next) % NumEndpoints
            /\ foUsed' = foCurrent'
            /\ foErrors' = errors
            /\ foDisabled' = disabled
    ELSE /\ foCurrent' = from
         /\ foUsed' = Head(oldest)
         /\ foErrors' = [errors EXCEPT ![Head(oldest)] = 0]
         /\ foDisabled' = disabled \ Reenabled(oldest)

\* record_error and get_web3 after it. The count survives the backoff, so that
\* afterwards a single error disables the endpoint again.
RecordErrorAndSelect ==
    LET count == IF foErrors[foCurrent] < MaxErrors THEN foErrors[foCurrent] + 1 ELSE MaxErrors
        errors == [foErrors EXCEPT ![foCurrent] = count]
        oldest == Append(Remove(foOldest, foCurrent), foCurrent)
    IN /\ foOldest' = oldest
       /\ IF count >= MaxErrors
          THEN SelectEndpoint(FoNextIndex(foCurrent), errors, foDisabled \cup {foCurrent}, oldest)
          ELSE SelectEndpoint(foCurrent, errors, foDisabled, oldest)

\* backoff_seconds have passed.
BackoffEnds(e) ==
    /\ e \in foDisabled
    /\ foDisabled' = foDisabled \ {e}
    /\ UNCHANGED <<foErrors, foOldest, foCurrent, foUsed>>

\* The client never holds on to an endpoint that is sitting out its backoff, and
\* some endpoint is always enabled: although errors are booked on the current
\* index, which is not the endpoint in use once all had been disabled.
UsedEndpointEnabled == foUsed \notin foDisabled
=============================================================================
