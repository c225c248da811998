----------------------------- MODULE SolanaRpc -----------------------------
(***************************************************************************)
(* One call of SolanaRPC._call (src/market/solana_rpc.py), which tries     *)
(* every configured endpoint at most once, beginning with the one that     *)
(* answered last.  A transport error (network, 429, 5xx, a body that is    *)
(* not JSON) rotates to the next endpoint; a JSON-RPC error is raised to   *)
(* the caller at once.                                                     *)
(*                                                                         *)
(* A library of operators for a client that makes its calls one at a time: *)
(* the client says what a request does at the node and what it does with   *)
(* the answer.                                                             *)
(***************************************************************************)
EXTENDS Naturals

CONSTANT NumUrls    \* len(self._urls)

ASSUME NumUrlsAssumption == NumUrls \in Nat \ {0}

VARIABLES
    currentIdx, \* _current_idx
    attempts,   \* iterations of the loop left, this one included; 0 between calls
    failed,     \* history: the endpoints that failed in this call
    exhausted   \* history: the call ended with all endpoints failed

rpcVars == <<currentIdx, attempts, failed, exhausted>>

Endpoints == 0 .. NumUrls - 1

RpcInit ==
    /\ currentIdx = 0
    /\ attempts = 0
    /\ failed = {}
    /\ exhausted = FALSE

RpcTypeOK ==
    /\ currentIdx \in Endpoints
    /\ attempts \in 0 .. NumUrls
    /\ failed \subseteq Endpoints
    /\ exhausted \in BOOLEAN

BeginCall ==
    /\ attempts' = NumUrls
    /\ failed' = {}
    /\ exhausted' = FALSE
    /\ UNCHANGED currentIdx

\* The endpoint answers with a result, and sticks.
Answered ==
    /\ attempts > 0
    /\ attempts' = 0
    /\ failed' = {}
    /\ UNCHANGED <<currentIdx, exhausted>>

\* The endpoint answers with a JSON-RPC error: RuntimeError, no rotation.
ProtocolError == Answered

\* Mutants: the client stays where it is, or runs past the last endpoint.
NextIdxSticky == currentIdx
NextIdx == (currentIdx + 1) % NumUrls

\* A transport error, on the last attempt the end of the call.
TransportError ==
    /\ attempts > 0
    /\ attempts' = attempts - 1
    /\ failed' = failed \cup {currentIdx}
    /\ exhausted' = (attempts' = 0)
    /\ currentIdx' = NextIdx

\* A call fails with "all endpoints failed" only after each of them failed within
\* this very call: while one endpoint is healthy the caller gets its answer.
HealthyEndpointAnswers == exhausted => failed = Endpoints
=============================================================================
