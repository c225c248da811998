---------------------------- MODULE LiveExecutor ----------------------------
(***************************************************************************)
(* Live execution of opportunities: SolanaExecutor with its safety gates,  *)
(* the preflight simulator, the submitter and the verifier it wires        *)
(* together (src/execution/), the kill-switch file the API touches and     *)
(* removes at any moment (src/api/app.py), and the network as far as they  *)
(* see it.                                                                 *)
(*                                                                         *)
(* An opportunity is executed on one of two paths: CandidatePipeline calls *)
(* simulator.simulate, submitter.submit and verifier.verify, and the first *)
(* two each build and sign a transaction of their own; execute() builds    *)
(* one and simulates and sends it.  Amounts, fees and logs are left out.   *)
(***************************************************************************)
EXTENDS SolanaRpc, FiniteSets

CONSTANT Opps       \* opportunities to execute, one at a time

VARIABLES
    setup,      \* what the constructor finds in the environment
    killSwitch, \* the file data/.execution_kill_switch exists
    path,       \* how each opportunity is executed
    oversized,  \* opportunities whose trade_size exceeds twice the configured one
    stage,      \* where the executor stands
    hand,       \* the transaction being built, simulated, sent or verified
    status,     \* verify(): the last status that was not None
    timedOut,   \* verify(): the deadline has passed
    answer,     \* what became of each opportunity
    preflighted,\* history: transactions the simulation passed
    sent,       \* transactions a node has taken in
    chain,      \* where the network has the transaction in hand
    executed,   \* history: the statuses each transaction has had in some block
    sentSinceKill \* history: transactions sent since the kill switch is active

chainVars == <<sent, chain, executed>>
verifyVars == <<status, timedOut>>
fixedVars == <<setup, path, oversized>>
vars == <<rpcVars, fixedVars, killSwitch, stage, hand, verifyVars, answer, preflighted,
          chainVars, sentSinceKill>>

\* A transaction is known by its opportunity and the time it was built: each
\* build takes a fresh quote and a fresh blockhash.
Txs == [opp : Opps, build : {1, 2}]
NoTx == [opp |-> "none", build |-> 0]

Setups == [env : BOOLEAN, keypair : {"missing", "exposed", "garbled", "valid"}, funded : BOOLEAN]

Statuses == [commit : {"processed", "confirmed"}, err : BOOLEAN]
NoStatus == [commit |-> "none", err |-> FALSE]

RpcStages == {"balance", "simulate", "send", "poll", "fetch"}
Stages ==
    RpcStages \cup {"env", "kill", "wallet", "refused", "idle",
                   "entry", "gate", "sign", "submit", "verify"}

Failures == {"raised", "build_failed", "simulation_failed"}
Verdicts == {"confirmed", "reverted", "dropped"}

Goto(s) == stage' = s /\ IF s \in RpcStages THEN BeginCall ELSE UNCHANGED rpcVars

\* The call of this stage raises, after which the executor goes on to s.
CallRaises(s) ==
    /\ stage \in RpcStages
    /\ ProtocolError \/ (attempts = 1 /\ TransportError)
    /\ stage' = s

Unsent == [at |-> "unsent", err |-> FALSE]

Init ==
    /\ RpcInit
    /\ setup \in Setups
    /\ killSwitch \in BOOLEAN
    /\ path \in [Opps -> {"pipeline", "execute"}]
    /\ oversized \in SUBSET Opps
    /\ stage = "env"
    /\ hand = NoTx
    /\ status = NoStatus
    /\ timedOut = FALSE
    /\ answer = [o \in Opps |-> "waiting"]
    /\ preflighted = {}
    /\ sent = {}
    /\ chain = Unsent
    /\ executed = [t \in Txs |-> {}]
    /\ sentSinceKill = 0

-----------------------------------------------------------------------------
(* Construction: every gate or a refusal                                   *)

Gate(from, holds, to) ==
    /\ stage = from
    /\ Goto(IF holds THEN to ELSE "refused")
    /\ UNCHANGED <<fixedVars, killSwitch, hand, verifyVars, answer, preflighted, chainVars, sentSinceKill>>

CheckEnvGate == Gate("env", setup.env, "kill")
CheckKillSwitch == Gate("kill", ~killSwitch, "wallet")
LoadWallet == Gate("wallet", setup.keypair = "valid", "balance")

\* The balance arrives and is sufficient, or it is not or cannot be read.
CheckWalletBalance ==
    /\ stage = "balance"
    /\ \/ Answered /\ stage' = (IF setup.funded THEN "idle" ELSE "refused")
       \/ CallRaises("refused")
    /\ UNCHANGED <<fixedVars, killSwitch, hand, verifyVars, answer, preflighted, chainVars, sentSinceKill>>

-----------------------------------------------------------------------------
(* Building, simulating and sending                                        *)

Finish(result) ==
    /\ answer' = [answer EXCEPT ![hand.opp] = result]
    /\ hand' = NoTx

\* The consumer hands the executor an opportunity.
Begin(o) ==
    /\ stage = "idle"
    /\ answer[o] = "waiting"
    /\ answer' = [answer EXCEPT ![o] = "running"]
    /\ hand' = [opp |-> o, build |-> 1]
    /\ Goto(IF path[o] = "execute" THEN "entry" ELSE "gate")
    /\ status' = NoStatus
    /\ timedOut' = FALSE
    /\ chain' = Unsent
    /\ UNCHANGED <<fixedVars, killSwitch, preflighted, sent, executed, sentSinceKill>>

\* execute() looks at the kill switch before anything else.
Enter ==
    /\ stage = "entry"
    /\ IF killSwitch THEN Goto("idle") /\ Finish("raised")
                     ELSE Goto("gate") /\ UNCHANGED <<hand, answer>>
    /\ UNCHANGED <<fixedVars, killSwitch, verifyVars, preflighted, chainVars, sentSinceKill>>

\* What a transaction that cannot be built comes to: simulate() takes it for a
\* failed simulation, submit() raises, execute() says what it is.
BuildFailure ==
    CASE path[hand.opp] = "execute" -> "build_failed"
      [] path[hand.opp] = "pipeline" /\ hand.build = 1 -> "simulation_failed"
      [] path[hand.opp] = "pipeline" /\ hand.build = 2 -> "raised"

\* Mutant: a build that does not look at the kill switch.
MayBuildKilled == hand.opp \notin oversized
MayBuild == ~killSwitch /\ hand.opp \notin oversized

\* _build_and_sign: the gates,
CheckBuild ==
    /\ stage = "gate"
    /\ IF MayBuild THEN Goto("sign") /\ UNCHANGED <<hand, answer>>
                   ELSE Goto("idle") /\ Finish(BuildFailure)
    /\ UNCHANGED <<fixedVars, killSwitch, verifyVars, preflighted, chainVars, sentSinceKill>>

\* then Jupiter's quote and swap transaction, either of which may fail, and the
\* signature.
BuildAndSign ==
    /\ stage = "sign"
    /\ \/ Goto(IF hand.build = 1 THEN "simulate" ELSE "send") /\ UNCHANGED <<hand, answer>>
       \/ Goto("idle") /\ Finish(BuildFailure)
    /\ UNCHANGED <<fixedVars, killSwitch, verifyVars, preflighted, chainVars, sentSinceKill>>

\* Mutant: a simulation that cannot be made is no obstacle.
SimulateLeniently ==
    /\ stage = "simulate"
    /\ \/ Answered /\ stage' = "submit" /\ preflighted' = preflighted \cup {hand}
       \/ CallRaises("submit") /\ UNCHANGED preflighted
    /\ UNCHANGED <<fixedVars, killSwitch, hand, answer, verifyVars, chainVars, sentSinceKill>>

\* simulateTransaction passes, fails, answers nothing or raises.
Simulate ==
    /\ stage = "simulate"
    /\ \/ /\ Answered
          /\ stage' = "submit"
          /\ preflighted' = preflighted \cup {hand}
          /\ UNCHANGED <<hand, answer>>
       \/ /\ (Answered /\ stage' = "idle") \/ CallRaises("idle")
          /\ Finish("simulation_failed")
          /\ UNCHANGED preflighted
    /\ UNCHANGED <<fixedVars, killSwitch, verifyVars, chainVars, sentSinceKill>>

\* What is submitted: execute() sends what it simulated, the pipeline has
\* submit() build the transaction anew.
Submit ==
    /\ stage = "submit"
    /\ IF path[hand.opp] = "execute"
       THEN Goto("send") /\ UNCHANGED hand
       ELSE Goto("gate") /\ hand' = [hand EXCEPT !.build = 2]
    /\ UNCHANGED <<fixedVars, killSwitch, verifyVars, answer, preflighted, chainVars, sentSinceKill>>

\* A node takes the transaction in. The same signed transaction may reach
\* several nodes, and is one transaction all the same.
Deliver ==
    /\ sent' = sent \cup {hand}
    /\ chain' = IF hand \in sent THEN chain ELSE [chain EXCEPT !.at = "pending"]
    /\ sentSinceKill' = IF killSwitch /\ hand \notin sent THEN sentSinceKill + 1 ELSE sentSinceKill
    /\ UNCHANGED executed

\* Mutant: the pipeline's exception handler sends again what has just failed.
SendAgain ==
    /\ stage = "send"
    /\ CallRaises("gate")
    /\ Deliver
    /\ hand' = [hand EXCEPT !.build = 3 - hand.build]
    /\ UNCHANGED <<fixedVars, killSwitch, verifyVars, answer, preflighted>>

\* sendTransaction answers with the signature, or raises: rejected, or taken in
\* by a node whose answer was lost.
Send ==
    /\ stage = "send"
    /\ \/ Answered /\ stage' = "verify" /\ Deliver /\ UNCHANGED <<hand, answer>>
       \/ /\ CallRaises("idle")
          /\ Finish("raised")
          /\ Deliver \/ UNCHANGED <<chainVars, sentSinceKill>>
    /\ UNCHANGED <<fixedVars, killSwitch, verifyVars, preflighted>>

\* In any call: the endpoint fails and another one is tried. A transaction may
\* have been taken in by the endpoint that failed.
TryNextEndpoint ==
    /\ attempts > 1
    /\ TransportError
    /\ (stage = "send" /\ Deliver) \/ UNCHANGED <<chainVars, sentSinceKill>>
    /\ UNCHANGED <<fixedVars, killSwitch, stage, hand, verifyVars, answer, preflighted>>

-----------------------------------------------------------------------------
(* Verification                                                            *)

\* Mutant: the loop waits for a status, whatever the time.
PollPatiently ==
    /\ stage = "verify"
    /\ IF status # NoStatus THEN Goto("fetch") ELSE Goto("poll")
    /\ UNCHANGED <<fixedVars, killSwitch, hand, answer, verifyVars, preflighted, chainVars, sentSinceKill>>

\* The head of the polling loop. It ends with a status that is confirmed or, at
\* the deadline, with any status or none. A transaction without an error is then
\* looked up for its fee.
Poll ==
    /\ stage = "verify"
    /\ IF status.commit = "confirmed" \/ (timedOut /\ status # NoStatus)
       THEN Goto("fetch") /\ UNCHANGED <<hand, answer>>
       ELSE IF timedOut THEN Goto("idle") /\ Finish("dropped")
       ELSE Goto("poll") /\ UNCHANGED <<hand, answer>>
    /\ UNCHANGED <<fixedVars, killSwitch, verifyVars, preflighted, chainVars, sentSinceKill>>

\* What getSignatureStatuses may say of the transaction in hand: nothing, or any
\* status it has had on some fork, for nodes lag behind each other.
Views == {NoStatus} \cup executed[hand]

\* Mutant: an error in the status is not looked at.
TakeStatusBlindly ==
    /\ stage = "poll"
    /\ stage' = "verify"
    /\ \/ CallRaises("verify") /\ UNCHANGED status
       \/ Answered /\ \E view \in Views : status' = IF view = NoStatus THEN status ELSE view
    /\ UNCHANGED <<fixedVars, killSwitch, hand, answer, timedOut, preflighted, chainVars, sentSinceKill>>

\* One poll. A call that raises is no answer, and an answer without the
\* transaction leaves the status as it was. An error ends the verification.
TakeStatus ==
    /\ stage = "poll"
    /\ \/ CallRaises("verify") /\ UNCHANGED <<hand, status, answer>>
       \/ /\ Answered
          /\ \E view \in Views :
                /\ status' = IF view = NoStatus THEN status ELSE view
                /\ IF view # NoStatus /\ view.err
                   THEN stage' = "idle" /\ Finish("reverted")
                   ELSE stage' = "verify" /\ UNCHANGED <<hand, answer>>
    /\ UNCHANGED <<fixedVars, killSwitch, timedOut, preflighted, chainVars, sentSinceKill>>

\* getTransaction answers, or raises and the fee is taken to be zero.
Fetch ==
    /\ stage = "fetch"
    /\ (Answered /\ stage' = "idle") \/ CallRaises("idle")
    /\ Finish("confirmed")
    /\ UNCHANGED <<fixedVars, killSwitch, verifyVars, preflighted, chainVars, sentSinceKill>>

\* Sixty seconds have passed since verify() began.
Deadline ==
    /\ stage \in {"verify", "poll"}
    /\ ~timedOut
    /\ timedOut' = TRUE
    /\ UNCHANGED <<rpcVars, fixedVars, killSwitch, stage, hand, status, answer, preflighted,
                   chainVars, sentSinceKill>>

-----------------------------------------------------------------------------
(* The operator and the network                                            *)

\* POST /execution/kill.
Kill ==
    /\ killSwitch' = TRUE
    /\ UNCHANGED <<rpcVars, fixedVars, stage, hand, verifyVars, answer, preflighted, chainVars, sentSinceKill>>

\* POST /execution/resume.
Resume ==
    /\ killSwitch' = FALSE
    /\ sentSinceKill' = 0
    /\ UNCHANGED <<rpcVars, fixedVars, stage, hand, verifyVars, answer, preflighted, chainVars>>

\* The transaction in hand reaches a commitment, with or without an error.
Reach(commit, e) ==
    /\ chain' = [at |-> commit, err |-> e]
    /\ executed' = [executed EXCEPT ![hand] = @ \cup {[commit |-> commit, err |-> e]}]

\* It gets into a block or its blockhash expires; the block is confirmed or
\* abandoned with its fork. What becomes of a transaction nobody asks about any
\* more is left out.
Network ==
    /\ hand # NoTx
    /\ \/ chain.at = "pending" /\ \E e \in BOOLEAN : Reach("processed", e)
       \/ chain.at = "processed" /\ Reach("confirmed", chain.err)
       \/ /\ \/ chain.at = "pending" /\ chain' = [chain EXCEPT !.at = "expired"]
             \/ chain.at = "processed" /\ chain' = [chain EXCEPT !.at = "pending"]
          /\ UNCHANGED executed
    /\ UNCHANGED <<rpcVars, fixedVars, killSwitch, stage, hand, verifyVars, answer, preflighted, sent,
                   sentSinceKill>>

Step ==
    \/ CheckEnvGate \/ CheckKillSwitch \/ LoadWallet \/ CheckWalletBalance
    \/ Enter \/ CheckBuild \/ BuildAndSign \/ Simulate \/ Submit \/ Send \/ TryNextEndpoint
    \/ Poll \/ TakeStatus \/ Fetch

Next == Step \/ (\E o \in Opps : Begin(o)) \/ Deadline \/ Kill \/ Resume \/ Network

Spec == Init /\ [][Next]_vars

\* Every HTTP request has a timeout, so the executor always gets on, and the
\* monotonic clock reaches the deadline.
FairSpec == Spec /\ WF_vars(Step) /\ WF_vars(Deadline)

-----------------------------------------------------------------------------
(* Properties                                                              *)

\* Every variable holds a value of its type.
ExecutorTypeOK ==
    /\ RpcTypeOK
    /\ setup \in Setups
    /\ killSwitch \in BOOLEAN
    /\ path \in [Opps -> {"pipeline", "execute"}]
    /\ oversized \subseteq Opps
    /\ stage \in Stages
    /\ hand \in Txs \cup {NoTx}
    /\ status \in Statuses \cup {NoStatus}
    /\ timedOut \in BOOLEAN
    /\ answer \in [Opps -> {"waiting", "running"} \cup Failures \cup Verdicts]
    /\ preflighted \subseteq Txs
    /\ sent \subseteq Txs
    /\ chain \in [at : {"unsent", "pending", "processed", "confirmed", "expired"}, err : BOOLEAN]
    /\ executed \in [Txs -> SUBSET Statuses]
    /\ sentSinceKill \in Nat
    /\ stage \in RpcStages <=> attempts > 0

\* Touching the kill switch stops a running executor: at most the transaction
\* that was already built still goes out while the file is there.
KillSwitchStops == sentSinceKill <= 1

\* Nothing is sent without a simulation that passed before it: of the very
\* transaction in execute(), of the opportunity's other build in the pipeline.
SentAfterSimulation ==
    \A t \in sent :
        \E u \in preflighted : u.opp = t.opp /\ (path[t.opp] = "execute" => u = t)

\* What the executor answers accounts for what reached the network, across
\* retries at other endpoints and lost answers: a verdict stands for exactly one
\* transaction and a refusal for none, an oversized opportunity is never sent,
\* and no opportunity is ever traded twice.
AnswerAccountsForSent ==
    \A o \in Opps : LET mine == {t \in sent : t.opp = o} IN
        /\ Cardinality(mine) <= 1
        /\ answer[o] \in Verdicts => mine # {}
        /\ answer[o] \in {"build_failed", "simulation_failed"} \/ o \in oversized => mine = {}

\* A verdict has its ground, whatever nodes answered, lagged or failed, and the
\* deadline is what lowers the standard: before it only a confirmed success counts
\* as confirmed and nothing as dropped; after it a block seen once is enough, also
\* one that its fork took along. reverted was the result in some block.
VerdictGrounded ==
    [][\A o \in Opps :
          answer'[o] # answer[o] /\ answer'[o] \in Verdicts =>
             /\ hand.opp = o /\ hand \in sent
             /\ answer'[o] = "confirmed" =>
                   \E s \in executed[hand] : ~s.err /\ (s.commit = "confirmed" \/ timedOut)
             /\ answer'[o] = "reverted" => \E s \in executed[hand] : s.err
             /\ answer'[o] = "dropped" => timedOut]_vars

\* Status CONFIRMED stands for "landed + finalized": the network has confirmed the
\* transaction by the time the executor says so.
ConfirmedIsFinal ==
    \A t \in sent :
        answer[t.opp] = "confirmed" => [commit |-> "confirmed", err |-> FALSE] \in executed[t]

\* Execution of an opportunity always ends, however long the network is silent.
ExecutionEnds == \A o \in Opps : (answer[o] = "running") ~> (answer[o] # "running")
=============================================================================
