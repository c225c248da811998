---------------------------- MODULE LegacyProofs ----------------------------
(***************************************************************************)
(* Safety of the legacy trader's chain executor over the failover of its   *)
(* endpoints, for every value of the constants.  They are a part of        *)
(* Components, and a step of the whole is a step of one part.              *)
(***************************************************************************)
EXTENDS ComponentsProofs

\* A step of the composition is a step of the executor with its endpoints, of
\* the discovery, or leaves their variables as they are.
LEMMA LegacySteps ==
    ASSUME [Next]_componentVars
    PROVE  [CeNext]_<<ceVars, foVars>> /\ [DsNext]_dsVars
<1>1. CASE UNCHANGED componentVars
  BY <1>1 DEF componentVars, partVars
<1>2. CASE Chain
  BY <1>2 DEF Chain
<1>3. CASE Pairing
  BY <1>3 DEF Pairing
<1>4. CASE Fanout \/ Jupiter \/ Pools \/ Pricing \/ Scanner \/ Bot
  BY <1>4 DEF Fanout, Jupiter, Pools, Pricing, Scanner, Bot
<1>5. CASE Risk \/ Latency \/ Swap \/ Onchain \/ Reports \/ Dashboard \/ Views
  BY <1>5 DEF Risk, Latency, Swap, Onchain, Reports, Dashboard, Views
<1> QED
  BY <1>1, <1>2, <1>3, <1>4, <1>5 DEF Next

-----------------------------------------------------------------------------
(* The endpoints                                                           *)

EndpointsInv ==
    /\ foDisabled \subseteq FoEndpoints
    /\ foCurrent \in FoEndpoints
    /\ UsedEndpointEnabled

\* Going round the endpoints once comes by each of them.
LEMMA Around ==
    ASSUME NEW from \in FoEndpoints, NEW e \in FoEndpoints
    PROVE  \E k \in 0 .. NumEndpoints - 1 : (from + k) % NumEndpoints = e
<1> USE FailoverAssumption DEF FoEndpoints
<1>1. CASE from <= e
  <2>1. e - from \in 0 .. NumEndpoints - 1 /\ from + (e - from) = e /\ e % NumEndpoints = e
    BY <1>1
  <2> QED
    BY <2>1
<1>2. CASE e < from
  <2> DEFINE k == (e - from) + NumEndpoints
  <2>1. k \in 0 .. NumEndpoints - 1 /\ from + k = e + NumEndpoints /\ (e + NumEndpoints) % NumEndpoints = e
    BY <1>2
  <2> QED
    BY <2>1
<1> QED
  BY <1>1, <1>2

\* Whatever is disabled, the selection hands out an endpoint that is enabled.
LEMMA SelectEnabled ==
    ASSUME NEW from \in FoEndpoints, NEW errors, NEW disabled \in SUBSET FoEndpoints, NEW oldest,
           SelectEndpoint(from, errors, disabled, oldest)
    PROVE  EndpointsInv'
<1> USE FailoverAssumption
<1>1. CASE disabled = FoEndpoints
  BY <1>1 DEF SelectEndpoint, Reenabled, EndpointsInv, UsedEndpointEnabled
<1>2. CASE disabled # FoEndpoints
  <2> DEFINE Enabled == {k \in 0 .. NumEndpoints - 1 : (from + k) % NumEndpoints \notin disabled}
             First(k) == /\ (from + k) % NumEndpoints \notin disabled
                         /\ \A j \in 0 .. k - 1 : (from + j) % NumEndpoints \in disabled
             next == CHOOSE k \in 0 .. NumEndpoints - 1 : First(k)
  <2>1. PICK e \in FoEndpoints : e \notin disabled
    BY <1>2
  <2>2. PICK k \in 0 .. NumEndpoints - 1 : (from + k) % NumEndpoints = e
    BY Around
  <2>3. Enabled \in SUBSET Nat /\ Enabled # {}
    BY <2>1, <2>2
  <2>4. PICK x \in Enabled : \A y \in Enabled : x <= y
    <3> HIDE DEF Enabled
    <3> QED
      BY <2>3, LeastNatural
  <2>5. x \in 0 .. NumEndpoints - 1 /\ First(x)
    BY <2>4
  <2>6. next \in 0 .. NumEndpoints - 1 /\ First(next)
    <3> HIDE DEF First
    <3> QED
      BY <2>5
  <2>7. (from + next) % NumEndpoints \in FoEndpoints \ disabled
    <3>1. from + next \in Nat
      BY <2>6 DEF FoEndpoints
    <3> HIDE DEF next
    <3>2. (from + next) % NumEndpoints \in FoEndpoints
      BY <3>1, Division DEF FoEndpoints
    <3> QED
      BY <2>6, <3>2
  <2>8. foCurrent' = (from + next) % NumEndpoints /\ foUsed' = foCurrent' /\ foDisabled' = disabled
    BY <1>2 DEF SelectEndpoint
  <2> QED
    BY <2>7, <2>8 DEF EndpointsInv, UsedEndpointEnabled
<1> QED
  BY <1>1, <1>2

\* An error booked on the current endpoint.
LEMMA ErrorKeepsEnabled == EndpointsInv /\ RecordErrorAndSelect => EndpointsInv'
<1> SUFFICES ASSUME EndpointsInv, RecordErrorAndSelect PROVE EndpointsInv'
  OBVIOUS
<1> DEFINE count == IF foErrors[foCurrent] < MaxErrors THEN foErrors[foCurrent] + 1 ELSE MaxErrors
           errors == [foErrors EXCEPT ![foCurrent] = count]
           oldest == Append(Remove(foOldest, foCurrent), foCurrent)
<1>1. foCurrent \in FoEndpoints /\ foDisabled \cup {foCurrent} \in SUBSET FoEndpoints /\ foDisabled \in SUBSET FoEndpoints
  BY DEF EndpointsInv
<1>2. FoNextIndex(foCurrent) \in FoEndpoints
  BY <1>1, FailoverAssumption, Division DEF FoNextIndex, FoEndpoints
<1>3. \/ SelectEndpoint(FoNextIndex(foCurrent), errors, foDisabled \cup {foCurrent}, oldest)
      \/ SelectEndpoint(foCurrent, errors, foDisabled, oldest)
  BY DEF RecordErrorAndSelect
<1> HIDE DEF errors, oldest
<1> QED
  BY <1>1, <1>2, <1>3, SelectEnabled

\* Each step of the executor keeps its endpoints' invariant.
LEMMA EndpointsKeep ==
    ASSUME EndpointsInv, [CeNext]_<<ceVars, foVars>>
    PROVE  EndpointsInv'
<1>1. CASE UNCHANGED foVars
  BY <1>1 DEF foVars, EndpointsInv, UsedEndpointEnabled
<1>2. CASE RecordErrorAndSelect
  BY <1>2, ErrorKeepsEnabled
<1>3. CASE RecordSuccess
  BY <1>3 DEF RecordSuccess, EndpointsInv, UsedEndpointEnabled
<1>4. ASSUME NEW e \in FoEndpoints, BackoffEnds(e)
      PROVE  EndpointsInv'
  BY <1>4 DEF BackoffEnds, EndpointsInv, UsedEndpointEnabled
<1>5. CASE BeginExecute \/ BuildTransaction \/ SendRaw \/ Wait
  BY <1>1, <1>2, <1>5 DEF BeginExecute, BuildTransaction, SendRaw, Wait, CeRaises
<1>6. CASE SimulateCall \/ SendBundle \/ \E tx \in cePending : Mine(tx) \/ Drop(tx)
  BY <1>1, <1>3, <1>6 DEF SimulateCall, SendBundle, Mine, Drop
<1> QED
  BY <1>1, <1>4, <1>5, <1>6 DEF CeNext

\* However errors, successes and backoffs alternate, and although errors are
\* booked on an index that may be another endpoint's, the client never holds on
\* to an endpoint that is sitting out its backoff.
THEOREM UsedEndpointEnabledCorrect == Spec => []UsedEndpointEnabled
<1>1. Init => EndpointsInv
  BY FailoverAssumption DEF Init, FoInit, EndpointsInv, UsedEndpointEnabled, FoEndpoints
<1>2. EndpointsInv /\ [Next]_componentVars => EndpointsInv'
  BY LegacySteps, EndpointsKeep
<1>3. EndpointsInv => UsedEndpointEnabled
  BY DEF EndpointsInv
<1> QED
  BY <1>1, <1>2, <1>3, PTL DEF Spec

-----------------------------------------------------------------------------
(* The transactions                                                        *)

ReportValues == {"none", "error", "rejected", "simulation_failed", "success", "reverted"}
ChainTxs == [attempt : Attempts, nonce : Nat]
Minings == [tx : ChainTxs, status : {0, 1}]

\* Transactions that were sent, mined or not.
Known == cePending \cup {mining.tx : mining \in ceMined}

ChainTypeOK ==
    /\ ceStage \in {"idle", "build", "simulate", "send", "public", "wait"}
    /\ ceAttempt \in 0 .. MaxAttempts /\ ceNonce \in Nat
    /\ ceStage # "idle" => ceAttempt \in Attempts
    /\ cePending \subseteq ChainTxs
    /\ ceMined \subseteq Minings /\ IsFiniteSet(ceMined)
    /\ ceReports \in [Attempts -> ReportValues]

\* The chain has used up the nonces below the count of what it holds, each once.
NoncesOK ==
    /\ ceStage \in {"simulate", "send", "public", "wait"} => ceNonce <= MinedNonces
    /\ \A tx \in cePending : tx.nonce <= MinedNonces
    /\ \A mining \in ceMined : mining.tx.nonce < MinedNonces
    /\ \A m1, m2 \in ceMined : m1.tx.nonce = m2.tx.nonce => m1 = m2

\* An attempt sends one transaction, the one in hand, and only once it is past
\* the simulation.
OneEach ==
    /\ \A tx \in Known : tx.attempt <= ceAttempt
    /\ \A tx \in Known : ceReports[tx.attempt] \notin {"rejected", "simulation_failed"}
    /\ \A tx \in Known : ceStage # "idle" /\ tx.attempt = ceAttempt => ceStage \in {"public", "wait"} /\ tx = Tx
    /\ \A t1, t2 \in Known : t1.attempt = t2.attempt => t1 = t2

\* An attempt under way has no report yet, and a report of a receipt has one.
ReportsGrounded ==
    /\ ceStage # "idle" => ceReports[ceAttempt] = "none"
    /\ \A a \in Attempts : a > ceAttempt => ceReports[a] = "none"
    /\ \A a \in Attempts : ceReports[a] = "success" => \E m \in ceMined : m.tx.attempt = a /\ m.status = 1
    /\ \A a \in Attempts : ceReports[a] = "reverted" => \E m \in ceMined : m.tx.attempt = a /\ m.status = 0

ChainInv == ChainTypeOK /\ NoncesOK /\ OneEach /\ ReportsGrounded

\* The count of what was mined is a number.
LEMMA MinedCount == ChainTypeOK => MinedNonces \in Nat
  BY FS_CardinalityType DEF ChainTypeOK, MinedNonces

\* The executor starts in its invariant.
LEMMA ChainInit == CeInit => ChainInv
<1> SUFFICES ASSUME CeInit PROVE ChainInv
  OBVIOUS
<1>1. IsFiniteSet({}) /\ Cardinality({}) = 0
  BY FS_EmptySet
<1>2. ChainTypeOK
  BY <1>1, ChainAssumption DEF CeInit, ChainTypeOK, ReportValues
<1>3. NoncesOK /\ OneEach /\ ReportsGrounded
  BY DEF CeInit, NoncesOK, OneEach, Known, ReportsGrounded
<1> QED
  BY <1>2, <1>3 DEF ChainInv

\* An attempt ends with a report that its transactions bear out.
LEMMA ReturnKeeps ==
    ASSUME ChainInv, ceStage # "idle", NEW result \in ReportValues,
           CeReturn(ceAttempt, result), ceNonce' \in Nat,
           result \in {"rejected", "simulation_failed"} => ceStage \notin {"public", "wait"},
           result = "success" => \E m \in ceMined : m.tx = Tx /\ m.status = 1,
           result = "reverted" => \E m \in ceMined : m.tx = Tx /\ m.status = 0,
           UNCHANGED <<ceAttempt, cePending, ceMined>>
    PROVE  ChainInv'
<1>1. ceAttempt \in Attempts /\ ceReports \in [Attempts -> ReportValues] /\ Tx.attempt = ceAttempt
  BY DEF ChainInv, ChainTypeOK, Tx
<1>2. /\ ceStage' = "idle" /\ ceReports' \in [Attempts -> ReportValues]
      /\ \A a \in Attempts : ceReports'[a] = IF a = ceAttempt THEN result ELSE ceReports[a]
  BY <1>1 DEF CeReturn
<1>3. \A tx \in Known : tx.attempt \in Attempts
  BY DEF ChainInv, ChainTypeOK, Known, ChainTxs, Minings
<1>4. ChainTypeOK'
  BY <1>2 DEF ChainInv, ChainTypeOK
<1>5. NoncesOK'
  BY <1>2 DEF ChainInv, NoncesOK, MinedNonces
<1>6. OneEach'
  <2>1. Known' = Known
    BY DEF Known
  <2>2. \A tx \in Known : ceReports'[tx.attempt] \notin {"rejected", "simulation_failed"}
    BY <1>2, <1>3 DEF ChainInv, OneEach
  <2> QED
    BY <1>2, <2>1, <2>2 DEF ChainInv, OneEach
<1>7. ReportsGrounded'
  <2>1. \A a \in Attempts : a > ceAttempt => a # ceAttempt
    BY <1>1 DEF Attempts
  <2>2. \A m \in ceMined : m.tx = Tx => m.tx.attempt = ceAttempt
    BY <1>1
  <2> QED
    BY <1>2, <2>1, <2>2 DEF ChainInv, ReportsGrounded
<1> QED
  BY <1>4, <1>5, <1>6, <1>7 DEF ChainInv

\* A step to a later stage that sends nothing.
LEMMA AdvanceKeeps ==
    ASSUME ChainInv, ceStage # "idle",
           ceStage' \in {"simulate", "send", "public", "wait"},
           ceNonce' \in Nat, ceNonce' <= MinedNonces,
           \A tx \in Known : tx.attempt # ceAttempt,
           UNCHANGED <<ceAttempt, cePending, ceMined, ceReports>>
    PROVE  ChainInv'
<1>1. Known' = Known
  BY DEF Known
<1>2. ChainTypeOK' /\ NoncesOK' /\ OneEach' /\ ReportsGrounded'
  BY <1>1 DEF ChainInv, ChainTypeOK, NoncesOK, MinedNonces, OneEach, ReportsGrounded
<1> QED
  BY <1>2 DEF ChainInv

\* The transaction in hand goes to a node, whether or not one has it already.
LEMMA SendKeeps ==
    ASSUME ChainInv, ceStage \in {"send", "public"},
           ceStage' \in {"public", "wait"},
           cePending' \in {cePending, cePending \cup {Tx}},
           UNCHANGED <<ceAttempt, ceNonce, ceMined, ceReports>>
    PROVE  ChainInv'
<1>1. Tx \in ChainTxs /\ Tx.attempt = ceAttempt /\ Tx.nonce = ceNonce /\ Tx' = Tx
  BY DEF ChainInv, ChainTypeOK, ChainTxs, Tx
<1>2. MinedNonces' = MinedNonces
  BY DEF MinedNonces
<1>3. ChainTypeOK'
  BY <1>1 DEF ChainInv, ChainTypeOK
<1>4. NoncesOK'
  BY <1>1, <1>2 DEF ChainInv, NoncesOK
<1>5. Known' \subseteq Known \cup {Tx}
  BY DEF Known
<1>6. OneEach'
  <2>1. \A tx \in Known' : tx.attempt <= ceAttempt
    BY <1>1, <1>5 DEF ChainInv, OneEach, ChainTypeOK
  <2>2. \A tx \in Known' : ceReports[tx.attempt] \notin {"rejected", "simulation_failed"}
    BY <1>1, <1>5 DEF ChainInv, OneEach, ReportsGrounded
  <2>3. \A tx \in Known' : tx.attempt = ceAttempt => tx = Tx
    BY <1>1, <1>5 DEF ChainInv, OneEach
  <2>4. \A t1, t2 \in Known' : t1.attempt = t2.attempt => t1 = t2
    BY <1>1, <1>5, <2>3 DEF ChainInv, OneEach
  <2> QED
    BY <1>1, <2>1, <2>2, <2>3, <2>4 DEF OneEach
<1>7. ReportsGrounded'
  BY DEF ChainInv, ReportsGrounded
<1> QED
  BY <1>3, <1>4, <1>6, <1>7 DEF ChainInv

\* A lost answer: the transaction may have arrived, and the attempt is an error.
LEMMA LostKeeps ==
    ASSUME ChainInv, ceStage \in {"send", "public"},
           CeReturn(ceAttempt, "error"),
           cePending' \in {cePending, cePending \cup {Tx}},
           UNCHANGED <<ceAttempt, ceNonce, ceMined>>
    PROVE  ChainInv'
<1>1. /\ Tx \in ChainTxs /\ Tx.attempt = ceAttempt /\ Tx.nonce = ceNonce
      /\ ceAttempt \in Attempts /\ ceReports \in [Attempts -> ReportValues]
  BY DEF ChainInv, ChainTypeOK, ChainTxs, Tx
<1>2. MinedNonces' = MinedNonces
  BY DEF MinedNonces
<1>3. /\ ceStage' = "idle" /\ ceReports' \in [Attempts -> ReportValues]
      /\ \A a \in Attempts : ceReports'[a] = IF a = ceAttempt THEN "error" ELSE ceReports[a]
  BY <1>1 DEF CeReturn, ReportValues
<1>4. ChainTypeOK'
  BY <1>1, <1>3 DEF ChainInv, ChainTypeOK
<1>5. NoncesOK'
  BY <1>1, <1>2, <1>3 DEF ChainInv, NoncesOK
<1>6. Known' \subseteq Known \cup {Tx} /\ \A tx \in Known : tx.attempt \in Attempts
  BY DEF Known, ChainInv, ChainTypeOK, ChainTxs, Minings
<1>7. OneEach'
  <2>1. \A tx \in Known' : tx.attempt <= ceAttempt
    BY <1>1, <1>6 DEF ChainInv, OneEach, ChainTypeOK
  <2>2. \A tx \in Known' : ceReports'[tx.attempt] \notin {"rejected", "simulation_failed"}
    BY <1>1, <1>3, <1>6 DEF ChainInv, OneEach
  <2>3. \A tx \in Known' : tx.attempt = ceAttempt => tx = Tx
    BY <1>1, <1>6 DEF ChainInv, OneEach
  <2>4. \A t1, t2 \in Known' : t1.attempt = t2.attempt => t1 = t2
    BY <1>1, <1>6, <2>3 DEF ChainInv, OneEach
  <2> QED
    BY <1>3, <2>1, <2>2, <2>4 DEF OneEach
<1>8. ReportsGrounded'
  <2>1. \A a \in Attempts : a > ceAttempt => a # ceAttempt
    BY <1>1 DEF Attempts
  <2> QED
    BY <1>3, <2>1 DEF ChainInv, ReportsGrounded
<1> QED
  BY <1>4, <1>5, <1>7, <1>8 DEF ChainInv

\* A transaction with the next nonce is mined.
LEMMA MineKeeps ==
    ASSUME ChainInv, NEW tx \in cePending, Mine(tx)
    PROVE  ChainInv'
<1>1. PICK status \in {0, 1} : ceMined' = ceMined \cup {[tx |-> tx, status |-> status]}
  BY DEF Mine
<1> DEFINE mining == [tx |-> tx, status |-> status]
<1>2. /\ mining \in Minings /\ mining.tx = tx /\ mining.status = status
      /\ tx \in ChainTxs /\ tx.nonce = MinedNonces /\ tx \in Known
      /\ cePending' = cePending \ {tx} /\ UNCHANGED <<ceStage, ceAttempt, ceNonce, ceReports>>
  BY DEF ChainInv, ChainTypeOK, Mine, Minings, Known
<1> HIDE DEF mining
<1>3. ceMined' = ceMined \cup {mining}
  BY <1>1 DEF mining
<1>4. MinedNonces \in Nat /\ IsFiniteSet(ceMined)
  BY MinedCount DEF ChainInv, ChainTypeOK
<1>5. mining \notin ceMined
  BY <1>2, <1>4 DEF ChainInv, NoncesOK
<1>6. MinedNonces' = MinedNonces + 1 /\ IsFiniteSet(ceMined')
  BY <1>3, <1>4, <1>5, FS_AddElement DEF MinedNonces
<1>7. \A m \in ceMined : m.tx \in ChainTxs /\ m.tx.nonce \in Nat
  BY DEF ChainInv, ChainTypeOK, Minings, ChainTxs
<1>8. \A t \in cePending : t.nonce \in Nat
  BY DEF ChainInv, ChainTypeOK, ChainTxs
<1>9. ChainTypeOK'
  BY <1>2, <1>3, <1>6 DEF ChainInv, ChainTypeOK
<1>10. NoncesOK'
  <2>1. ceStage' \in {"simulate", "send", "public", "wait"} => ceNonce' <= MinedNonces'
    BY <1>2, <1>4, <1>6 DEF ChainInv, NoncesOK, ChainTypeOK
  <2>2. \A t \in cePending' : t.nonce <= MinedNonces'
    BY <1>2, <1>4, <1>6, <1>8 DEF ChainInv, NoncesOK
  <2>3. \A m \in ceMined' : m.tx.nonce < MinedNonces'
    BY <1>2, <1>3, <1>4, <1>6, <1>7 DEF ChainInv, NoncesOK
  <2>4. \A m1, m2 \in ceMined' : m1.tx.nonce = m2.tx.nonce => m1 = m2
    <3>1. \A m \in ceMined : m.tx.nonce # mining.tx.nonce
      BY <1>2, <1>4, <1>7 DEF ChainInv, NoncesOK
    <3> QED
      BY <1>3, <3>1 DEF ChainInv, NoncesOK
  <2> QED
    BY <2>1, <2>2, <2>3, <2>4 DEF NoncesOK
<1>11. OneEach'
  <2>1. Known' \subseteq Known
    BY <1>2, <1>3 DEF Known
  <2>2. Tx' = Tx
    BY <1>2 DEF Tx
  <2> QED
    BY <1>2, <2>1, <2>2 DEF ChainInv, OneEach
<1>12. ReportsGrounded'
  BY <1>2, <1>3 DEF ChainInv, ReportsGrounded
<1> QED
  BY <1>9, <1>10, <1>11, <1>12 DEF ChainInv

\* One is dropped.
LEMMA DropKeeps ==
    ASSUME ChainInv, NEW tx \in cePending, Drop(tx)
    PROVE  ChainInv'
<1>1. Known' \subseteq Known /\ Tx' = Tx /\ MinedNonces' = MinedNonces
  BY DEF Drop, Known, Tx, MinedNonces
<1>2. ChainTypeOK' /\ NoncesOK'
  BY <1>1 DEF Drop, ChainInv, ChainTypeOK, NoncesOK
<1>3. OneEach' /\ ReportsGrounded'
  BY <1>1 DEF Drop, ChainInv, OneEach, ReportsGrounded
<1> QED
  BY <1>2, <1>3 DEF ChainInv

\* A new attempt is turned down, raises, or goes on to build.
LEMMA BeginExecuteKeeps ==
    ASSUME ChainInv, BeginExecute
    PROVE  ChainInv'
<1> DEFINE next == ceAttempt + 1
<1>1. /\ next \in Attempts /\ ceAttempt \in Nat /\ ceAttempt' = next
      /\ UNCHANGED <<ceNonce, cePending, ceMined>>
      /\ ceReports \in [Attempts -> ReportValues]
  BY ChainAssumption DEF BeginExecute, ChainInv, ChainTypeOK, Attempts
<1>2. PICK result \in {"none", "rejected", "error"} :
          /\ result = "none" => ceStage' = "build" /\ ceReports' = ceReports
          /\ result # "none" => ceStage' = "idle" /\ ceReports' = [ceReports EXCEPT ![next] = result]
  BY DEF BeginExecute, CeReturn, CeRaises
<1>3. /\ ceReports' \in [Attempts -> ReportValues]
      /\ \A a \in Attempts : a # next => ceReports'[a] = ceReports[a]
      /\ ceReports'[next] \notin {"success", "reverted"}
      /\ ceStage' # "idle" => ceStage' = "build" /\ ceReports'[next] = "none"
  <2>1. ceReports[next] = "none"
    BY <1>1 DEF ChainInv, ReportsGrounded
  <2>2. CASE result = "none"
    BY <1>1, <1>2, <2>1, <2>2
  <2>3. CASE result # "none"
    BY <1>1, <1>2, <2>3 DEF ReportValues
  <2> QED
    BY <2>2, <2>3
<1>4. /\ \A tx \in Known : tx.attempt \in Attempts /\ tx.attempt # next /\ tx.attempt <= next
      /\ Known' = Known /\ MinedNonces' = MinedNonces
  BY <1>1 DEF ChainInv, ChainTypeOK, OneEach, Known, ChainTxs, Minings, MinedNonces, Attempts
<1>5. ChainTypeOK'
  BY <1>1, <1>3, ChainAssumption DEF ChainInv, ChainTypeOK, Attempts
<1>6. NoncesOK'
  BY <1>1, <1>3, <1>4 DEF ChainInv, NoncesOK
<1>7. OneEach'
  BY <1>1, <1>3, <1>4 DEF ChainInv, OneEach
<1>8. ReportsGrounded'
  <2>1. \A a \in Attempts : a > next => a # next /\ a > ceAttempt
    BY <1>1 DEF Attempts
  <2>2. \A a \in Attempts : a > next => ceReports'[a] = "none"
    BY <1>3, <2>1 DEF ChainInv, ReportsGrounded
  <2>3. \A a \in Attempts : ceReports'[a] \in {"success", "reverted"} => ceReports'[a] = ceReports[a]
    BY <1>3
  <2> QED
    BY <1>1, <1>3, <2>2, <2>3 DEF ChainInv, ReportsGrounded
<1> QED
  BY <1>5, <1>6, <1>7, <1>8 DEF ChainInv

\* Each step of the executor and of the chain keeps the invariant.
LEMMA ChainKeeps ==
    ASSUME ChainInv, [CeNext]_<<ceVars, foVars>>
    PROVE  ChainInv'
<1> USE DEF ReportValues
<1>0. ceNonce \in Nat /\ MinedNonces \in Nat
  BY MinedCount DEF ChainInv, ChainTypeOK
<1>1. CASE UNCHANGED ceVars
  <2>1. Known' = Known /\ Tx' = Tx /\ MinedNonces' = MinedNonces
    BY <1>1 DEF ceVars, Known, Tx, MinedNonces
  <2> QED
    BY <1>1, <2>1 DEF ceVars, ChainInv, ChainTypeOK, NoncesOK, OneEach, ReportsGrounded
<1>2. CASE BeginExecute
  BY <1>2, BeginExecuteKeeps
<1>3. CASE BuildTransaction
  <2>1. CASE CeRaises(ceAttempt) /\ UNCHANGED ceNonce
    BY <1>0, <1>3, <2>1, ReturnKeeps DEF BuildTransaction, CeRaises
  <2>2. CASE ceNonce' \in ReportedNonces /\ ceStage' = "simulate" /\ UNCHANGED ceReports
    <3>1. ceNonce' \in Nat /\ ceNonce' <= MinedNonces
      BY <1>0, <2>2 DEF ReportedNonces
    <3>2. \A tx \in Known : tx.attempt # ceAttempt
      BY <1>3 DEF BuildTransaction, ChainInv, OneEach
    <3> QED
      BY <1>3, <2>2, <3>1, <3>2, AdvanceKeeps DEF BuildTransaction
  <2> QED
    BY <1>3, <2>1, <2>2 DEF BuildTransaction
<1>4. CASE SimulateCall
  <2>1. CASE CeReturn(ceAttempt, "simulation_failed")
    BY <1>0, <1>4, <2>1, ReturnKeeps DEF SimulateCall
  <2>2. CASE ceStage' = "send" /\ UNCHANGED ceReports
    <3>1. \A tx \in Known : tx.attempt # ceAttempt
      BY <1>4 DEF SimulateCall, ChainInv, OneEach
    <3>2. ceNonce <= MinedNonces
      BY <1>4 DEF SimulateCall, ChainInv, NoncesOK
    <3> QED
      BY <1>0, <1>4, <2>2, <3>1, <3>2, AdvanceKeeps DEF SimulateCall
  <2> QED
    BY <1>4, <2>1, <2>2 DEF SimulateCall
<1>5. CASE SendBundle
  BY <1>5, SendKeeps DEF SendBundle
<1>6. CASE SendRaw
  <2>1. CASE CeRaises(ceAttempt) /\ cePending' \in {cePending, cePending \cup {Tx}}
    BY <1>6, <2>1, LostKeeps DEF SendRaw, CeRaises
  <2>2. CASE ceStage' = "wait" /\ cePending' = cePending \cup {Tx} /\ UNCHANGED ceReports
    BY <1>6, <2>2, SendKeeps DEF SendRaw
  <2> QED
    BY <1>6, <2>1, <2>2 DEF SendRaw
<1>7. CASE Wait
  <2>1. CASE CeRaises(ceAttempt)
    BY <1>0, <1>7, <2>1, ReturnKeeps DEF Wait, CeRaises
  <2>2. ASSUME NEW m \in ceMined, m.tx = Tx, CeReturn(ceAttempt, IF m.status = 1 THEN "success" ELSE "reverted")
        PROVE  ChainInv'
    <3>1. m.status \in {0, 1}
      BY DEF ChainInv, ChainTypeOK, Minings
    <3>2. CASE m.status = 1
      BY <1>0, <1>7, <2>2, <3>2, ReturnKeeps DEF Wait
    <3>3. CASE m.status = 0
      BY <1>0, <1>7, <2>2, <3>3, ReturnKeeps DEF Wait
    <3> QED
      BY <3>1, <3>2, <3>3
  <2> QED
    BY <1>7, <2>1, <2>2 DEF Wait
<1>8. ASSUME NEW tx \in cePending, Mine(tx) \/ Drop(tx)
      PROVE  ChainInv'
  BY <1>8, MineKeeps, DropKeeps
<1> QED
  BY <1>1, <1>2, <1>3, <1>4, <1>5, <1>6, <1>7, <1>8 DEF CeNext, ceVars

\* What the invariant says of the trades.
LEMMA ChainInvImplies == ChainInv => TradeAccounted
<1> SUFFICES ASSUME ChainInv PROVE TradeAccounted
  OBVIOUS
<1>1. \A tx \in cePending : tx.nonce <= MinedNonces
  BY DEF ChainInv, NoncesOK
<1>2. ASSUME NEW a \in Attempts
      PROVE  LET mined == {mining.status : mining \in {k \in ceMined : k.tx.attempt = a}}
             IN CASE ceReports[a] = "success" -> mined = {1}
                  [] ceReports[a] = "reverted" -> mined = {0}
                  [] ceReports[a] \in {"rejected", "simulation_failed"} -> mined = {}
                  [] OTHER -> Cardinality(mined) <= 1
  <2> DEFINE own == {k \in ceMined : k.tx.attempt = a}
             mined == {mining.status : mining \in own}
  <2>1. \A m1, m2 \in own : m1 = m2
    <3> SUFFICES ASSUME NEW m1 \in own, NEW m2 \in own PROVE m1 = m2
      OBVIOUS
    <3>1. m1.tx \in Known /\ m2.tx \in Known /\ m1.tx.attempt = m2.tx.attempt
      BY DEF Known
    <3>2. m1.tx = m2.tx
      BY <3>1 DEF ChainInv, OneEach
    <3> QED
      BY <3>2 DEF ChainInv, NoncesOK
  <2>2. CASE ceReports[a] \in {"success", "reverted"}
    <3>1. PICK m \in own : m.status = IF ceReports[a] = "success" THEN 1 ELSE 0
      BY <2>2 DEF ChainInv, ReportsGrounded
    <3>2. mined = {m.status}
      BY <2>1
    <3> QED
      BY <2>2, <3>1, <3>2
  <2>3. CASE ceReports[a] \in {"rejected", "simulation_failed"}
    <3>1. own = {}
      BY <2>3 DEF ChainInv, OneEach, Known
    <3> QED
      BY <2>3, <3>1
  <2>4. CASE ceReports[a] \notin {"success", "reverted", "rejected", "simulation_failed"}
    <3>1. mined = {} \/ \E x : mined = {x}
      BY <2>1
    <3>2. Cardinality(mined) <= 1
      <4> HIDE DEF mined
      <4>1. CASE mined = {}
        BY <4>1, FS_EmptySet
      <4>2. ASSUME NEW x, mined = {x}
            PROVE  Cardinality(mined) <= 1
        <5>1. Cardinality({x}) = 1
          BY FS_Singleton
        <5> QED
          BY <4>2, <5>1
      <4> QED
        BY <3>1, <4>1, <4>2
    <3> QED
      BY <2>4, <3>2
  <2> QED
    BY <2>2, <2>3, <2>4
<1> QED
  BY <1>1, <1>2 DEF TradeAccounted

\* Although a failed attempt may have sent a transaction that still lands, and the
\* next attempt does not wait for it, an attempt executes at most once, what is
\* pending competes for one nonce, and what a receipt reports is true of the
\* attempt's own transaction.
THEOREM TradeAccountedCorrect == Spec => []TradeAccounted
<1>1. Init => ChainInv
  BY ChainInit DEF Init
<1>2. ChainInv /\ [Next]_componentVars => ChainInv'
  BY LegacySteps, ChainKeeps
<1> QED
  BY <1>1, <1>2, ChainInvImplies, PTL DEF Spec
=============================================================================
