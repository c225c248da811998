-------------------------- MODULE LiveExecutorProofs --------------------------
(***************************************************************************)
(* Proofs about LiveExecutor, and with it about the calls of SolanaRpc,    *)
(* for any set of opportunities and any number of endpoints.               *)
(*                                                                         *)
(* The inductive invariant ExecutorInv has one part for each question. Why *)
(* an exhausted call has tried everybody: CallOK counts how far ahead of   *)
(* the client the endpoints lie that have not failed yet.  Which           *)
(* transaction is in hand: HandOK.  What was sent, and what is known of    *)
(* it: SentOK.  Who can still send under the kill switch: KillOK.  Where   *)
(* the status in memory comes from, and what ended the polling: ChainOK.   *)
(***************************************************************************)
EXTENDS LiveExecutor, FiniteSetTheorems, TLAPS

\* How many rotations away from the client an endpoint is.
Ahead(e) == IF e >= currentIdx THEN e - currentIdx ELSE e - currentIdx + NumUrls

\* During a call, every endpoint that has not failed is still to be tried.
CallOK ==
    /\ RpcTypeOK
    /\ stage \in RpcStages <=> attempts > 0
    /\ exhausted => attempts = 0
    /\ attempts > 0 \/ exhausted => \A e \in Endpoints \ failed : Ahead(e) < attempts

Working == {"entry", "gate", "sign", "simulate", "submit", "send", "verify", "poll", "fetch"}
Sending == {"send", "verify", "poll", "fetch"}

\* The build that is sent on each path.
SentBuild(o) == IF path[o] = "execute" THEN 1 ELSE 2

\* There is a transaction in hand exactly while an opportunity is executed, and
\* the path and the stage say which.
HandOK ==
    /\ IF stage \in Working THEN hand \in Txs ELSE hand = NoTx
    /\ \A o \in Opps : answer[o] = "running" <=> stage \in Working /\ hand.opp = o
    /\ stage = "entry" => path[hand.opp] = "execute"
    /\ stage \in {"entry", "simulate", "submit"} => hand.build = 1
    /\ stage \in {"gate", "sign"} /\ path[hand.opp] = "execute" => hand.build = 1
    /\ stage \in Sending => hand.build = SentBuild(hand.opp)

Simulated(t) == \E u \in preflighted : u.opp = t.opp /\ (path[t.opp] = "execute" => u = t)

\* What is or may be sent was simulated and is small enough; what was sent is in
\* hand or its execution is over, not without a trace in the answer.
SentOK ==
    /\ stage \in Sending \cup {"submit"} => Simulated(hand)
    /\ stage \in {"gate", "sign"} /\ hand.build = 2 => Simulated(hand)
    /\ stage \in Working \ {"entry", "gate"} => hand.opp \notin oversized
    /\ stage \in Sending \ {"send"} => hand \in sent
    /\ \A t \in sent :
          /\ t.build = SentBuild(t.opp)
          /\ Simulated(t)
          /\ t.opp \notin oversized
          /\ \/ t = hand /\ stage \in Sending
             \/ answer[t.opp] \in {"raised"} \cup Verdicts
    /\ \A o \in Opps : answer[o] \in Verdicts => \E t \in sent : t.opp = o

\* After one transaction was sent under the kill switch none is on its way.
KillOK ==
    /\ sentSinceKill \in {0, 1}
    /\ ~killSwitch => sentSinceKill = 0
    /\ sentSinceKill = 1 => /\ stage \notin {"sign", "simulate", "submit"}
                            /\ stage = "send" => hand \in sent

\* The status verify() keeps is a success the transaction in hand has had, and
\* polling ended with it when it was confirmed or at the deadline.
ChainOK ==
    /\ stage \in Working /\ status # NoStatus =>
          /\ stage \in {"verify", "poll", "fetch"}
          /\ ~status.err
          /\ status \in executed[hand]
    /\ stage = "fetch" => status # NoStatus /\ (status.commit = "confirmed" \/ timedOut)
    /\ stage \in Working /\ chain.at # "unsent" => hand \in sent

\* The types of the variables that are not the RPC client's.
ValuesOK ==
    /\ setup \in Setups
    /\ killSwitch \in BOOLEAN
    /\ path \in [Opps -> {"pipeline", "execute"}]
    /\ oversized \subseteq Opps
    /\ stage \in Stages
    /\ hand \in Txs \cup {NoTx}
    /\ status \in Statuses \cup {NoStatus}
    /\ timedOut \in BOOLEAN
    /\ answer \in [Opps -> {"waiting", "running"} \cup Failures \cup Verdicts]
    /\ preflighted \subseteq Txs
    /\ sent \subseteq Txs
    /\ chain \in [at : {"unsent", "pending", "processed", "confirmed", "expired"}, err : BOOLEAN]
    /\ executed \in [Txs -> SUBSET Statuses]
    /\ sentSinceKill \in Nat

ExecutorInv == CallOK /\ ValuesOK /\ HandOK /\ SentOK /\ KillOK /\ ChainOK

-----------------------------------------------------------------------------
(* Calls of the RPC client                                                 *)

\* Rotation goes round.
LEMMA NextIdxFacts ==
    ASSUME currentIdx \in Endpoints
    PROVE  NextIdx = IF currentIdx = NumUrls - 1 THEN 0 ELSE currentIdx + 1
  BY NumUrlsAssumption DEF NextIdx, Endpoints

\* A call begins with every endpoint to be tried; between other stages nothing
\* is called.
LEMMA GotoCall ==
    ASSUME CallOK, stage \notin RpcStages, NEW s, Goto(s)
    PROVE  CallOK' /\ stage' = s
<1>1. stage' = s /\ attempts = 0
  BY DEF CallOK, Goto, RpcTypeOK
<1>2. CASE s \in RpcStages
  <2>1. attempts' = NumUrls /\ failed' = {} /\ exhausted' = FALSE /\ currentIdx' = currentIdx
    BY <1>2 DEF Goto, BeginCall
  <2>2. RpcTypeOK'
    <3>1. attempts' \in 0 .. NumUrls
      BY <2>1, NumUrlsAssumption
    <3>2. exhausted' \in BOOLEAN
      BY <2>1
    <3> QED
      BY <2>1, <3>1, <3>2 DEF CallOK, RpcTypeOK
  <2>3. ASSUME NEW e \in Endpoints
        PROVE  (IF e >= currentIdx THEN e - currentIdx ELSE e - currentIdx + NumUrls) < NumUrls
    BY NumUrlsAssumption DEF CallOK, RpcTypeOK, Endpoints
  <2> QED
    BY <1>1, <1>2, <2>1, <2>2, <2>3, NumUrlsAssumption DEF CallOK, Ahead
<1>3. CASE s \notin RpcStages
  BY <1>1, <1>3 DEF Goto, rpcVars, CallOK, RpcTypeOK, Ahead
<1> QED
  BY <1>2, <1>3

\* An answer ends the call, a result as well as an error.
LEMMA AnsweredCall ==
    ASSUME CallOK, Answered, stage' \notin RpcStages
    PROVE  CallOK'
  BY NumUrlsAssumption DEF CallOK, Answered, RpcTypeOK, Endpoints, Ahead

\* A transport error takes one endpoint off those to be tried.
LEMMA TransportErrorCall ==
    ASSUME CallOK, TransportError, stage' \in RpcStages <=> attempts # 1
    PROVE  CallOK'
<1>1. /\ currentIdx' = IF currentIdx = NumUrls - 1 THEN 0 ELSE currentIdx + 1
      /\ attempts' = attempts - 1 /\ failed' = failed \cup {currentIdx}
      /\ exhausted' = (attempts' = 0) /\ attempts > 0 /\ ~exhausted
  BY NextIdxFacts DEF TransportError, CallOK, RpcTypeOK
<1>2. ASSUME NEW e \in Endpoints \ failed'
      PROVE  (IF e >= currentIdx' THEN e - currentIdx' ELSE e - currentIdx' + NumUrls) < attempts'
  <2>1. e \in Endpoints \ failed /\ e # currentIdx /\ Ahead(e) < attempts
    BY <1>1 DEF CallOK
  <2> QED
    BY <1>1, <2>1, NumUrlsAssumption DEF CallOK, RpcTypeOK, Endpoints, Ahead
<1> QED
  BY <1>1, <1>2, NumUrlsAssumption DEF CallOK, RpcTypeOK, Endpoints, Ahead

\* A call that raises is over.
LEMMA CallRaisesCall ==
    ASSUME CallOK, NEW s, s \notin RpcStages, CallRaises(s)
    PROVE  CallOK' /\ stage' = s
  BY AnsweredCall, TransportErrorCall DEF CallRaises, ProtocolError

-----------------------------------------------------------------------------
(* The invariant                                                           *)

\* The executor is under construction and has done nothing.
LEMMA ExecutorInit == Init => ExecutorInv
<1> SUFFICES ASSUME Init PROVE ExecutorInv
  OBVIOUS
<1>1. CallOK
  <2>1. RpcTypeOK
    <3>1. currentIdx \in Endpoints /\ attempts \in 0 .. NumUrls
      BY NumUrlsAssumption DEF Init, RpcInit, Endpoints
    <3>2. failed \subseteq Endpoints /\ exhausted \in BOOLEAN
      BY DEF Init, RpcInit
    <3> QED
      BY <3>1, <3>2 DEF RpcTypeOK
  <2> QED
    BY <2>1 DEF Init, RpcInit, CallOK, RpcStages
<1>2. ValuesOK
  BY DEF Init, ValuesOK, Stages, Unsent
<1>3. HandOK
  BY DEF Init, HandOK, Working, Sending
<1>4. SentOK /\ KillOK
  BY DEF Init, SentOK, KillOK, Working, Sending, Verdicts
<1>5. ChainOK
  BY DEF Init, ChainOK, Working
<1> QED
  BY <1>1, <1>2, <1>3, <1>4, <1>5 DEF ExecutorInv

\* Steps before the first opportunity keep the invariant.
LEMMA GatesKeepInv ==
    ExecutorInv /\ (CheckEnvGate \/ CheckKillSwitch \/ LoadWallet \/ CheckWalletBalance) => ExecutorInv'
<1> SUFFICES ASSUME ExecutorInv,
                    CheckEnvGate \/ CheckKillSwitch \/ LoadWallet \/ CheckWalletBalance
             PROVE  ExecutorInv'
  OBVIOUS
<1> USE DEF ExecutorInv
<1>1. /\ UNCHANGED <<fixedVars, killSwitch, hand, verifyVars, answer, preflighted, chainVars, sentSinceKill>>
      /\ stage \in {"env", "kill", "wallet", "balance"}
      /\ stage' \in {"kill", "wallet", "balance", "refused", "idle"} /\ CallOK'
  <2>1. CASE CheckEnvGate
    BY <2>1, GotoCall DEF CheckEnvGate, Gate, RpcStages
  <2>2. CASE CheckKillSwitch
    BY <2>2, GotoCall DEF CheckKillSwitch, Gate, RpcStages
  <2>3. CASE LoadWallet
    BY <2>3, GotoCall DEF LoadWallet, Gate, RpcStages
  <2>4. CASE CheckWalletBalance
    BY <2>4, AnsweredCall, CallRaisesCall DEF CheckWalletBalance, RpcStages
  <2> QED
    BY <2>1, <2>2, <2>3, <2>4
<1> USE <1>1 DEF fixedVars, verifyVars, chainVars, Working, Sending
<1>2. ValuesOK'
  BY DEF ValuesOK, Stages, RpcStages
<1>3. HandOK'
  BY DEF HandOK
<1>4. SentOK' /\ KillOK'
  BY DEF SentOK, KillOK, Simulated, SentBuild
<1>5. ChainOK'
  BY DEF ChainOK
<1> QED
  BY <1>2, <1>3, <1>4, <1>5

\* The consumer hands over an opportunity, of which nothing was sent.
LEMMA BeginKeepsInv == ASSUME ExecutorInv, NEW o \in Opps, Begin(o) PROVE ExecutorInv'
<1> USE DEF ExecutorInv
<1>1. /\ stage = "idle" /\ answer[o] = "waiting"
      /\ answer' = [answer EXCEPT ![o] = "running"]
      /\ hand' = [opp |-> o, build |-> 1]
      /\ stage' = (IF path[o] = "execute" THEN "entry" ELSE "gate") /\ CallOK'
      /\ status' = NoStatus /\ timedOut' = FALSE /\ chain' = Unsent
      /\ UNCHANGED <<setup, path, oversized, killSwitch, preflighted, sent, executed, sentSinceKill>>
  BY GotoCall DEF Begin, RpcStages, fixedVars
<1>2. hand' \in Txs /\ hand'.opp = o /\ hand'.build = 1
  BY <1>1 DEF Txs
<1>3. ValuesOK'
  BY <1>1, <1>2 DEF ValuesOK, Stages, Unsent
<1>4. HandOK'
  BY <1>1, <1>2 DEF HandOK, ValuesOK, Working, Sending
<1>5. SentOK'
  <2>1. \A t \in sent : t.opp # o
    BY <1>1 DEF SentOK, ValuesOK, Verdicts, Sending
  <2>2. \A t \in sent : answer'[t.opp] = answer[t.opp] /\ t.opp \in Opps
    BY <1>1, <2>1 DEF ValuesOK, Txs
  <2> QED
    BY <1>1, <1>2, <2>1, <2>2 DEF SentOK, ValuesOK, Working, Sending, Simulated, SentBuild, Verdicts
<1>6. KillOK'
  BY <1>1 DEF KillOK
<1>7. ChainOK'
  BY <1>1 DEF ChainOK, Unsent, ValuesOK, Txs
<1> QED
  BY <1>1, <1>3, <1>4, <1>5, <1>6, <1>7

\* The end of an execution: the opportunity has its answer and the hand is empty.
LEMMA FinishKeepsInv ==
    ASSUME ExecutorInv, stage \in Working, CallOK', stage' = "idle",
           NEW result \in Failures \cup Verdicts, Finish(result),
           sent' \in {sent, sent \cup {hand}}, sent' # sent => stage \in Sending /\ result = "raised",
           result \in {"build_failed", "simulation_failed"} => hand \notin sent,
           result \in Verdicts => hand \in sent,
           UNCHANGED <<setup, path, oversized, killSwitch, preflighted, executed>>,
           ValuesOK', KillOK'
    PROVE  ExecutorInv'
<1> USE DEF ExecutorInv
<1>1. /\ hand \in Txs /\ hand.opp \in Opps /\ hand' = NoTx
      /\ answer' = [answer EXCEPT ![hand.opp] = result]
      /\ answer'[hand.opp] = result
      /\ \A o \in Opps : o # hand.opp => answer'[o] = answer[o]
  BY DEF Finish, HandOK, ValuesOK, Txs
<1>2. \A t \in sent' : t \in Txs /\ t.opp \in Opps /\ t.build = SentBuild(t.opp)
  BY <1>1 DEF SentOK, ValuesOK, HandOK, Txs
<1>3. \A t \in sent : t.opp = hand.opp => t = hand
  BY <1>1 DEF SentOK, HandOK, Verdicts
<1>4. HandOK'
  BY <1>1 DEF HandOK, Working, Sending, Failures, Verdicts
<1>5. SentOK'
  <2>1. ASSUME NEW t \in sent'
        PROVE  /\ t.build = SentBuild(t.opp) /\ Simulated(t) /\ t.opp \notin oversized
               /\ answer'[t.opp] \in {"raised"} \cup Verdicts
    <3>1. CASE t \in sent /\ t # hand
      <4>1. answer[t.opp] \in {"raised"} \cup Verdicts /\ t.opp # hand.opp
        BY <1>3, <3>1 DEF SentOK
      <4> QED
        BY <1>1, <1>2, <3>1, <4>1 DEF SentOK
    <3>2. CASE t = hand
      <4>1. result \in {"raised"} \cup Verdicts
        BY <2>1, <3>2 DEF Failures
      <4>2. Simulated(hand) /\ hand.opp \notin oversized
        BY <2>1, <3>2 DEF SentOK, Sending, Working
      <4> QED
        BY <1>1, <1>2, <2>1, <3>2, <4>1, <4>2
    <3> QED
      BY <2>1, <3>1, <3>2
  <2>2. \A o \in Opps : answer'[o] \in Verdicts => \E t \in sent' : t.opp = o
    BY <1>1 DEF SentOK
  <2> QED
    BY <2>1, <2>2 DEF SentOK, Simulated, SentBuild, Working, Sending
<1>6. ChainOK'
  BY DEF ChainOK, Working
<1> QED
  BY <1>4, <1>5, <1>6

\* A step to the next stage with the same transaction, of which nothing is sent.
LEMMA MoveKeepsInv ==
    ASSUME ExecutorInv, stage \in Working, stage' \in Working, CallOK',
           <<stage, stage'>> \in {<<"entry", "gate">>, <<"gate", "sign">>, <<"sign", "simulate">>,
                                  <<"sign", "send">>, <<"simulate", "submit">>, <<"submit", "send">>},
           stage = "gate" => ~killSwitch /\ hand.opp \notin oversized,
           stage = "sign" => stage' = (IF hand.build = 1 THEN "simulate" ELSE "send"),
           stage = "submit" => path[hand.opp] = "execute",
           preflighted' = IF stage = "simulate" THEN preflighted \cup {hand} ELSE preflighted,
           UNCHANGED <<fixedVars, killSwitch, hand, answer, verifyVars, chainVars, sentSinceKill>>
    PROVE  ExecutorInv'
<1> USE DEF ExecutorInv, fixedVars, verifyVars, chainVars
<1>1. hand \in Txs /\ hand.opp \in Opps /\ hand.build \in {1, 2} /\ path[hand.opp] \in {"pipeline", "execute"}
  BY DEF HandOK, ValuesOK, Txs
<1>2. ValuesOK'
  BY <1>1 DEF ValuesOK, Working, Stages, RpcStages
<1>3. HandOK'
  BY <1>1 DEF HandOK, Working, Sending, SentBuild
<1>4. \A t : Simulated(t) => Simulated(t)'
  BY DEF Simulated
<1>5. SentOK'
  <2>1. stage' \in Sending \cup {"submit"} => Simulated(hand)'
    <3>1. CASE stage = "simulate"
      BY <1>1, <3>1 DEF Simulated
    <3>2. CASE stage # "simulate"
      BY <1>1, <1>4, <3>2 DEF SentOK, Sending
    <3> QED
      BY <3>1, <3>2
  <2>2. stage' \in {"gate", "sign"} /\ hand.build = 2 => Simulated(hand)'
    BY <1>4 DEF SentOK, HandOK
  <2>3. stage' \in Working \ {"entry", "gate"} => hand.opp \notin oversized
    BY DEF SentOK, Working
  <2>4. \A t \in sent : answer[t.opp] \in {"raised"} \cup Verdicts
    BY DEF SentOK, Sending
  <2> QED
    BY <1>4, <2>1, <2>2, <2>3, <2>4 DEF SentOK, SentBuild, Sending
<1>6. KillOK'
  BY DEF KillOK
<1>7. ChainOK'
  BY DEF ChainOK, Working
<1> QED
  BY <1>2, <1>3, <1>5, <1>6, <1>7

\* Nothing of the transaction in hand was sent before its stage is "send".
LEMMA UnsentBefore ==
    ASSUME ExecutorInv, stage \in Working \ Sending
    PROVE  hand \notin sent /\ status = NoStatus /\ chain.at = "unsent"
  BY DEF ExecutorInv, SentOK, ChainOK, HandOK, ValuesOK, Txs, Working, Sending, Verdicts

\* Building, signing and simulating keep the invariant.
LEMMA BuildKeepsInv ==
    ExecutorInv /\ (Enter \/ CheckBuild \/ BuildAndSign \/ Simulate \/ Submit) => ExecutorInv'
<1> SUFFICES ASSUME ExecutorInv, Enter \/ CheckBuild \/ BuildAndSign \/ Simulate \/ Submit
             PROVE  ExecutorInv'
  OBVIOUS
<1>1. /\ stage \in {"entry", "gate", "sign", "simulate", "submit"}
      /\ stage \in Working \ Sending
      /\ CallOK
  BY DEF Enter, CheckBuild, BuildAndSign, Simulate, Submit, Working, Sending, ExecutorInv
<1>2. hand \notin sent /\ status = NoStatus /\ chain.at = "unsent"
  BY <1>1, UnsentBefore
<1>3. /\ hand \in Txs /\ hand.opp \in Opps /\ hand.build \in {1, 2}
      /\ path[hand.opp] \in {"pipeline", "execute"}
  BY <1>1 DEF ExecutorInv, HandOK, ValuesOK, Txs
<1>4. BuildFailure \in Failures
  BY <1>3 DEF BuildFailure, Failures
<1>5. ASSUME NEW result \in Failures, Finish(result), stage' = "idle", CallOK',
             UNCHANGED <<fixedVars, killSwitch, verifyVars, preflighted, chainVars, sentSinceKill>>
      PROVE  ExecutorInv'
  <2>1. ValuesOK'
    BY <1>3, <1>5 DEF ExecutorInv, ValuesOK, Finish, Stages, fixedVars, verifyVars, chainVars
  <2>2. KillOK'
    BY <1>5 DEF ExecutorInv, KillOK, chainVars
  <2>3. result \notin Verdicts
    BY <1>5 DEF Failures, Verdicts
  <2> QED
    BY <1>1, <1>2, <1>5, <2>1, <2>2, <2>3, FinishKeepsInv DEF fixedVars, chainVars, Verdicts
<1>6. CASE Enter
  <2>1. CASE killSwitch
    <3>1. Goto("idle") /\ Finish("raised")
      BY <1>6, <2>1 DEF Enter
    <3>2. CallOK' /\ stage' = "idle"
      BY <1>1, <1>6, <3>1, GotoCall DEF Enter, RpcStages
    <3> QED
      BY <1>5, <1>6, <3>1, <3>2 DEF Enter, Failures
  <2>2. CASE ~killSwitch
    <3>1. CallOK' /\ stage' = "gate"
      BY <1>1, <1>6, <2>2, GotoCall DEF Enter, RpcStages
    <3> QED
      BY <1>1, <1>6, <2>2, <3>1, MoveKeepsInv DEF Enter, Working
  <2> QED
    BY <2>1, <2>2
<1>7. CASE CheckBuild
  <2>1. CASE ~MayBuild
    <3>1. Goto("idle") /\ Finish(BuildFailure)
      BY <1>7, <2>1 DEF CheckBuild
    <3>2. CallOK' /\ stage' = "idle"
      BY <1>1, <1>7, <3>1, GotoCall DEF CheckBuild, RpcStages
    <3> QED
      BY <1>4, <1>5, <1>7, <3>1, <3>2 DEF CheckBuild
  <2>2. CASE MayBuild
    <3>1. CallOK' /\ stage' = "sign"
      BY <1>1, <1>7, <2>2, GotoCall DEF CheckBuild, RpcStages
    <3> QED
      BY <1>1, <1>7, <2>2, <3>1, MoveKeepsInv DEF CheckBuild, MayBuild, Working
  <2> QED
    BY <2>1, <2>2
<1>8. CASE BuildAndSign
  <2>1. CASE Goto("idle") /\ Finish(BuildFailure)
    <3>1. CallOK' /\ stage' = "idle"
      BY <1>1, <1>8, <2>1, GotoCall DEF BuildAndSign, RpcStages
    <3> QED
      BY <1>4, <1>5, <1>8, <2>1, <3>1 DEF BuildAndSign
  <2>2. CASE Goto(IF hand.build = 1 THEN "simulate" ELSE "send") /\ UNCHANGED <<hand, answer>>
    <3>1. CallOK' /\ stage' = (IF hand.build = 1 THEN "simulate" ELSE "send")
      BY <1>1, <1>8, <2>2, GotoCall DEF BuildAndSign, RpcStages
    <3> QED
      BY <1>1, <1>8, <2>2, <3>1, MoveKeepsInv DEF BuildAndSign, Working
  <2> QED
    BY <1>8, <2>1, <2>2 DEF BuildAndSign
<1>9. CASE Simulate
  <2>1. CASE /\ (Answered /\ stage' = "idle") \/ CallRaises("idle")
             /\ Finish("simulation_failed") /\ UNCHANGED preflighted
    <3>1. CallOK' /\ stage' = "idle"
      BY <1>1, <2>1, AnsweredCall, CallRaisesCall DEF RpcStages
    <3> QED
      BY <1>5, <1>9, <2>1, <3>1 DEF Simulate, Failures
  <2>2. CASE /\ Answered /\ stage' = "submit" /\ preflighted' = preflighted \cup {hand}
             /\ UNCHANGED <<hand, answer>>
    <3>1. CallOK'
      BY <1>1, <2>2, AnsweredCall DEF RpcStages
    <3> QED
      BY <1>1, <1>9, <2>2, <3>1, MoveKeepsInv DEF Simulate, Working
  <2> QED
    BY <1>9, <2>1, <2>2 DEF Simulate
<1>10. CASE Submit
  <2>1. CASE path[hand.opp] = "execute"
    <3>1. CallOK' /\ stage' = "send"
      BY <1>1, <1>10, <2>1, GotoCall DEF Submit, RpcStages
    <3> QED
      BY <1>1, <1>10, <2>1, <3>1, MoveKeepsInv DEF Submit, Working
  <2>2. CASE path[hand.opp] # "execute"
    <3>1. CallOK' /\ stage = "submit" /\ stage' = "gate"
      BY <1>1, <1>10, <2>2, GotoCall DEF Submit, RpcStages
    <3>2. /\ hand' \in Txs /\ hand'.opp = hand.opp /\ hand'.build = 2
          /\ UNCHANGED <<setup, path, oversized, killSwitch, status, timedOut, answer, preflighted,
                         sent, chain, executed, sentSinceKill>>
      BY <1>3, <1>10, <2>2 DEF Submit, Txs, fixedVars, verifyVars, chainVars
    <3>3. ValuesOK'
      BY <3>1, <3>2 DEF ExecutorInv, ValuesOK, Stages
    <3>4. HandOK'
      BY <1>1, <2>2, <3>1, <3>2 DEF ExecutorInv, HandOK, Working, Sending
    <3>5. SentOK'
      <4>1. Simulated(hand)'
        BY <2>2, <3>1, <3>2 DEF ExecutorInv, SentOK, Simulated
      <4>2. \A t \in sent : t # hand
        BY <1>2
      <4> QED
        BY <3>1, <3>2, <4>1, <4>2 DEF ExecutorInv, SentOK, Simulated, SentBuild, Sending, Working
    <3>6. KillOK'
      BY <3>1, <3>2 DEF ExecutorInv, KillOK
    <3>7. ChainOK'
      BY <1>2, <3>1, <3>2 DEF ExecutorInv, ChainOK
    <3> QED
      BY <3>1, <3>3, <3>4, <3>5, <3>6, <3>7 DEF ExecutorInv
  <2> QED
    BY <2>1, <2>2
<1> QED
  BY <1>6, <1>7, <1>8, <1>9, <1>10

\* A node takes in the transaction in hand, which only the stage "send" does.
LEMMA DeliverFacts ==
    ASSUME ExecutorInv, stage = "send", Deliver, UNCHANGED <<killSwitch, hand>>
    PROVE  /\ hand \in Txs
           /\ sent' = sent \cup {hand} /\ sent' \subseteq Txs /\ executed' = executed
           /\ chain' \in [at : {"unsent", "pending", "processed", "confirmed", "expired"}, err : BOOLEAN]
           /\ chain' = chain \/ chain'.at = "pending"
           /\ sentSinceKill' \in {0, 1}
           /\ ~killSwitch => sentSinceKill' = 0
<1>1. hand \in Txs
  BY DEF ExecutorInv, HandOK, Working
<1>2. chain' = chain \/ (chain' = [chain EXCEPT !.at = "pending"] /\ chain'.at = "pending")
  BY DEF Deliver, ExecutorInv, ValuesOK
<1>3. sentSinceKill' \in {0, 1} /\ (~killSwitch => sentSinceKill' = 0)
  BY DEF Deliver, ExecutorInv, KillOK
<1> QED
  BY <1>1, <1>2, <1>3 DEF Deliver, ExecutorInv, ValuesOK

\* Sending keeps the invariant, also at several endpoints.
LEMMA SendKeepsInv == ExecutorInv /\ Send => ExecutorInv'
<1> SUFFICES ASSUME ExecutorInv, Send PROVE ExecutorInv'
  OBVIOUS
<1>1. /\ stage = "send" /\ hand \in Txs /\ CallOK
      /\ UNCHANGED <<setup, path, oversized, killSwitch, status, timedOut, preflighted>>
  BY DEF Send, ExecutorInv, HandOK, Working, fixedVars, verifyVars
<1>2. CASE /\ CallRaises("idle") /\ Finish("raised")
           /\ Deliver \/ UNCHANGED <<chainVars, sentSinceKill>>
  <2>1. CallOK' /\ stage' = "idle"
    BY <1>1, <1>2, CallRaisesCall DEF RpcStages
  <2>2. /\ sent' \in {sent, sent \cup {hand}} /\ sent' \subseteq Txs /\ executed' = executed
        /\ chain' \in [at : {"unsent", "pending", "processed", "confirmed", "expired"}, err : BOOLEAN]
        /\ sentSinceKill' \in {0, 1}
        /\ ~killSwitch => sentSinceKill' = 0
    <3>1. CASE Deliver
      BY <1>1, <3>1 DEF Deliver, ExecutorInv, ValuesOK, KillOK
    <3>2. CASE UNCHANGED <<chainVars, sentSinceKill>>
      BY <3>2 DEF chainVars, ExecutorInv, ValuesOK, KillOK
    <3> QED
      BY <1>2, <3>1, <3>2
  <2>3. ValuesOK'
    <3>1. hand' = NoTx /\ answer' \in [Opps -> {"waiting", "running"} \cup Failures \cup Verdicts]
      BY <1>2 DEF Finish, ExecutorInv, ValuesOK, Failures
    <3> QED
      BY <1>1, <2>1, <2>2, <3>1 DEF ExecutorInv, ValuesOK, Stages
  <2>4. KillOK'
    BY <1>1, <2>1, <2>2 DEF KillOK
  <2> QED
    BY <1>1, <1>2, <2>1, <2>2, <2>3, <2>4, FinishKeepsInv DEF Failures, Verdicts, Working, Sending
<1>3. CASE Answered /\ stage' = "verify" /\ Deliver /\ UNCHANGED <<hand, answer>>
  <2>1. CallOK'
    BY <1>1, <1>3, AnsweredCall DEF RpcStages
  <2>2. /\ sent' = sent \cup {hand} /\ sent' \subseteq Txs /\ executed' = executed
        /\ chain' \in [at : {"unsent", "pending", "processed", "confirmed", "expired"}, err : BOOLEAN]
        /\ chain' = chain \/ chain'.at = "pending"
        /\ sentSinceKill' \in {0, 1}
        /\ ~killSwitch => sentSinceKill' = 0
    BY <1>1, <1>3, DeliverFacts
  <2>3. ValuesOK'
    BY <1>1, <1>3, <2>2 DEF ExecutorInv, ValuesOK, Stages
  <2>4. HandOK'
    BY <1>1, <1>3 DEF ExecutorInv, HandOK, Working, Sending, SentBuild
  <2>5. SentOK'
    BY <1>1, <1>3, <2>2 DEF ExecutorInv, HandOK, SentOK, Working, Sending, SentBuild, Simulated
  <2>6. KillOK'
    BY <1>1, <1>3, <2>2 DEF KillOK
  <2>7. ChainOK'
    BY <1>1, <1>3, <2>2 DEF ExecutorInv, ChainOK, Working
  <2> QED
    BY <2>1, <2>3, <2>4, <2>5, <2>6, <2>7 DEF ExecutorInv
<1> QED
  BY <1>2, <1>3 DEF Send

\* So does going on to the next endpoint, even if the last one took it in.
LEMMA TryNextKeepsInv == ExecutorInv /\ TryNextEndpoint => ExecutorInv'
<1> SUFFICES ASSUME ExecutorInv, TryNextEndpoint PROVE ExecutorInv'
  OBVIOUS
<1>1. /\ attempts > 1 /\ TransportError /\ CallOK /\ stage' = stage
      /\ UNCHANGED <<setup, path, oversized, killSwitch, hand, status, timedOut, answer, preflighted>>
  BY DEF TryNextEndpoint, ExecutorInv, fixedVars, verifyVars
<1>2. CallOK'
  BY <1>1, TransportErrorCall DEF CallOK, RpcTypeOK
<1>3. CASE UNCHANGED <<chainVars, sentSinceKill>>
  <2> USE <1>1, <1>3 DEF chainVars, ExecutorInv
  <2>1. ValuesOK'
    BY DEF ValuesOK
  <2>2. HandOK'
    BY DEF HandOK, SentBuild
  <2>3. SentOK' /\ KillOK'
    BY DEF SentOK, SentBuild, Simulated, KillOK
  <2>4. ChainOK'
    BY DEF ChainOK
  <2> QED
    BY <1>2, <2>1, <2>2, <2>3, <2>4
<1>4. CASE stage = "send" /\ Deliver
  <2>1. /\ hand \in Txs /\ sent' = sent \cup {hand} /\ sent' \subseteq Txs /\ executed' = executed
        /\ chain' \in [at : {"unsent", "pending", "processed", "confirmed", "expired"}, err : BOOLEAN]
        /\ chain' = chain \/ chain'.at = "pending"
        /\ sentSinceKill' \in {0, 1}
        /\ ~killSwitch => sentSinceKill' = 0
    BY <1>1, <1>4, DeliverFacts
  <2>2. ValuesOK'
    BY <1>1, <2>1 DEF ExecutorInv, ValuesOK
  <2>3. HandOK'
    BY <1>1 DEF ExecutorInv, HandOK, SentBuild
  <2>4. SentOK'
    BY <1>1, <1>4, <2>1 DEF ExecutorInv, HandOK, SentOK, Working, Sending, SentBuild, Simulated
  <2>5. KillOK'
    BY <1>1, <1>4, <2>1 DEF KillOK
  <2>6. ChainOK'
    BY <1>1, <1>4, <2>1 DEF ExecutorInv, ChainOK, Working
  <2> QED
    BY <1>2, <2>2, <2>3, <2>4, <2>5, <2>6 DEF ExecutorInv
<1> QED
  BY <1>3, <1>4 DEF TryNextEndpoint

\* A step of verify() that does not end it.
LEMMA VerifyMoveKeepsInv ==
    ASSUME ExecutorInv, CallOK', stage \in {"verify", "poll"}, stage' \in {"verify", "poll", "fetch"},
           status' \in Statuses \cup {NoStatus}, timedOut' \in BOOLEAN,
           status' # NoStatus => ~status'.err /\ status' \in executed[hand],
           stage' = "fetch" => status' # NoStatus /\ (status'.commit = "confirmed" \/ timedOut'),
           UNCHANGED <<fixedVars, killSwitch, hand, answer, preflighted, chainVars, sentSinceKill>>
    PROVE  ExecutorInv'
<1> USE DEF ExecutorInv, fixedVars, chainVars
<1>1. ValuesOK'
  BY DEF ValuesOK, Stages, RpcStages
<1>2. HandOK'
  BY DEF HandOK, Working, Sending, SentBuild
<1>3. SentOK'
  BY DEF SentOK, Working, Sending, SentBuild, Simulated
<1>4. KillOK'
  BY DEF KillOK
<1>5. ChainOK'
  BY DEF ChainOK, Working
<1> QED
  BY <1>1, <1>2, <1>3, <1>4, <1>5

\* Verification keeps the invariant, whatever the nodes say.
LEMMA VerifyKeepsInv == ExecutorInv /\ (Poll \/ TakeStatus \/ Fetch \/ Deadline) => ExecutorInv'
<1> SUFFICES ASSUME ExecutorInv, Poll \/ TakeStatus \/ Fetch \/ Deadline PROVE ExecutorInv'
  OBVIOUS
<1>1. /\ stage \in {"verify", "poll", "fetch"} /\ stage \in Working /\ hand \in Txs /\ hand \in sent
      /\ CallOK
      /\ UNCHANGED <<fixedVars, killSwitch, preflighted, chainVars, sentSinceKill>>
  BY DEF Poll, TakeStatus, Fetch, Deadline, ExecutorInv, HandOK, SentOK, Working, Sending
<1>2. status # NoStatus => ~status.err /\ status \in executed[hand]
  BY <1>1 DEF ExecutorInv, ChainOK
<1>3. /\ status \in Statuses \cup {NoStatus} /\ timedOut \in BOOLEAN
      /\ executed[hand] \subseteq Statuses
  BY <1>1 DEF ExecutorInv, ValuesOK
<1>4. ASSUME NEW result \in Verdicts, Finish(result), stage' = "idle", CallOK',
             status' \in Statuses \cup {NoStatus}, timedOut' \in BOOLEAN
      PROVE  ExecutorInv'
  <2>1. ValuesOK'
    BY <1>1, <1>4 DEF ExecutorInv, ValuesOK, Finish, Stages, fixedVars, chainVars
  <2>2. KillOK'
    BY <1>1, <1>4 DEF ExecutorInv, KillOK, chainVars
  <2>3. result \notin {"build_failed", "simulation_failed"}
    BY <1>4 DEF Verdicts
  <2> QED
    BY <1>1, <1>4, <2>1, <2>2, <2>3, FinishKeepsInv DEF fixedVars, chainVars
<1>5. CASE Poll
  <2>1. CASE status.commit = "confirmed" \/ (timedOut /\ status # NoStatus)
    <3>1. CallOK' /\ stage' = "fetch"
      BY <1>1, <1>5, <2>1, GotoCall DEF Poll, RpcStages
    <3>2. status # NoStatus
      BY <2>1 DEF NoStatus
    <3> QED
      BY <1>1, <1>2, <1>3, <1>5, <2>1, <3>1, <3>2, VerifyMoveKeepsInv DEF Poll, verifyVars
  <2>2. CASE ~(status.commit = "confirmed" \/ (timedOut /\ status # NoStatus)) /\ timedOut
    <3>1. Goto("idle") /\ Finish("dropped") /\ UNCHANGED verifyVars
      BY <1>5, <2>2 DEF Poll
    <3>2. CallOK' /\ stage' = "idle"
      BY <1>1, <1>5, <3>1, GotoCall DEF Poll, RpcStages
    <3> QED
      BY <1>3, <1>4, <3>1, <3>2 DEF Verdicts, verifyVars
  <2>3. CASE ~(status.commit = "confirmed" \/ (timedOut /\ status # NoStatus)) /\ ~timedOut
    <3>1. CallOK' /\ stage' = "poll"
      BY <1>1, <1>5, <2>3, GotoCall DEF Poll, RpcStages
    <3> QED
      BY <1>1, <1>2, <1>3, <1>5, <2>3, <3>1, VerifyMoveKeepsInv DEF Poll, verifyVars
  <2> QED
    BY <2>1, <2>2, <2>3
<1>6. CASE TakeStatus
  <2>1. CASE CallRaises("verify") /\ UNCHANGED <<hand, status, answer>>
    <3>1. CallOK' /\ stage' = "verify"
      BY <1>1, <2>1, CallRaisesCall DEF RpcStages
    <3> QED
      BY <1>1, <1>2, <1>3, <1>6, <2>1, <3>1, VerifyMoveKeepsInv DEF TakeStatus
  <2>2. CASE Answered /\ \E view \in Views :
                /\ status' = IF view = NoStatus THEN status ELSE view
                /\ IF view # NoStatus /\ view.err
                   THEN stage' = "idle" /\ Finish("reverted")
                   ELSE stage' = "verify" /\ UNCHANGED <<hand, answer>>
    <3>1. PICK view \in Views :
                /\ status' = IF view = NoStatus THEN status ELSE view
                /\ IF view # NoStatus /\ view.err
                   THEN stage' = "idle" /\ Finish("reverted")
                   ELSE stage' = "verify" /\ UNCHANGED <<hand, answer>>
      BY <2>2
    <3>2. view # NoStatus => view \in Statuses /\ view \in executed[hand]
      BY <1>3, <3>1 DEF Views
    <3>3. CallOK'
      BY <1>1, <2>2, <3>1, AnsweredCall DEF RpcStages
    <3>4. status' \in Statuses \cup {NoStatus} /\ timedOut' \in BOOLEAN
      BY <1>3, <1>6, <3>1, <3>2 DEF TakeStatus
    <3>5. CASE view # NoStatus /\ view.err
      BY <1>4, <3>1, <3>3, <3>4, <3>5 DEF Verdicts
    <3>6. CASE ~(view # NoStatus /\ view.err)
      <4>1. status' # NoStatus => ~status'.err /\ status' \in executed[hand]
        BY <1>2, <1>3, <3>1, <3>2, <3>6
      <4> QED
        BY <1>1, <1>6, <3>1, <3>3, <3>4, <3>6, <4>1, VerifyMoveKeepsInv DEF TakeStatus
    <3> QED
      BY <3>5, <3>6
  <2> QED
    BY <1>6, <2>1, <2>2 DEF TakeStatus
<1>7. CASE Fetch
  <2>1. CallOK' /\ stage' = "idle"
    BY <1>1, <1>7, AnsweredCall, CallRaisesCall DEF Fetch, RpcStages
  <2> QED
    BY <1>3, <1>4, <1>7, <2>1 DEF Fetch, Verdicts, verifyVars
<1>8. CASE Deadline
  <2>1. CallOK'
    BY <1>1, <1>8 DEF Deadline, CallOK, rpcVars, RpcTypeOK, Ahead
  <2> QED
    BY <1>1, <1>2, <1>3, <1>8, <2>1, VerifyMoveKeepsInv DEF Deadline
<1> QED
  BY <1>5, <1>6, <1>7, <1>8

\* The operator and the network keep the invariant.
LEMMA OthersKeepInv == ExecutorInv /\ (Kill \/ Resume \/ Network) => ExecutorInv'
<1> SUFFICES ASSUME ExecutorInv, Kill \/ Resume \/ Network PROVE ExecutorInv'
  OBVIOUS
<1> USE DEF ExecutorInv
<1>1. CallOK' /\ UNCHANGED <<fixedVars, stage, hand, verifyVars, answer, preflighted, sent>>
  BY DEF Kill, Resume, Network, chainVars, CallOK, rpcVars, RpcTypeOK, Ahead
<1>2. HandOK' /\ SentOK'
  BY <1>1 DEF HandOK, SentOK, SentBuild, Simulated, fixedVars
<1>3. CASE Kill \/ Resume
  <2>1. ValuesOK'
    <3>1. killSwitch' \in BOOLEAN
      BY <1>3 DEF Kill, Resume
    <3>2. sentSinceKill' \in Nat /\ UNCHANGED chainVars
      BY <1>3 DEF Kill, Resume, ValuesOK
    <3> QED
      BY <1>1, <3>1, <3>2 DEF ValuesOK, fixedVars, verifyVars, chainVars
  <2>2. KillOK'
    BY <1>1, <1>3 DEF Kill, Resume, KillOK, chainVars
  <2>3. ChainOK'
    BY <1>1, <1>3 DEF Kill, Resume, ChainOK, verifyVars, chainVars
  <2> QED
    BY <1>1, <1>2, <2>1, <2>2, <2>3
<1>4. CASE Network
  <2>1. hand \in Txs /\ stage \in Working
    BY <1>4 DEF Network, HandOK
  <2>2. /\ executed' \in [Txs -> SUBSET Statuses]
        /\ \A t \in Txs : executed[t] \subseteq executed'[t]
        /\ chain' \in [at : {"unsent", "pending", "processed", "confirmed", "expired"}, err : BOOLEAN]
        /\ chain.at # "unsent"
        /\ UNCHANGED <<killSwitch, sentSinceKill>>
    <3>1. ASSUME NEW commit \in {"processed", "confirmed"}, NEW e \in BOOLEAN, Reach(commit, e),
                 chain.at # "unsent"
          PROVE  <2>2
      BY <1>4, <2>1, <3>1 DEF Reach, Network, ValuesOK, Statuses
    <3>2. CASE /\ \/ chain.at = "pending" /\ chain' = [chain EXCEPT !.at = "expired"]
                  \/ chain.at = "processed" /\ chain' = [chain EXCEPT !.at = "pending"]
               /\ UNCHANGED executed
      BY <1>4, <3>2 DEF Network, ValuesOK
    <3> QED
      BY <1>4, <3>1, <3>2 DEF Network, ValuesOK
  <2>3. ValuesOK'
    BY <1>1, <2>2 DEF ValuesOK, fixedVars, verifyVars
  <2>4. KillOK'
    BY <1>1, <2>2 DEF KillOK
  <2>5. ChainOK'
    BY <1>1, <2>1, <2>2 DEF ChainOK, SentOK, Sending, verifyVars
  <2> QED
    BY <1>1, <1>2, <2>3, <2>4, <2>5
<1> QED
  BY <1>3, <1>4

-----------------------------------------------------------------------------
(* The theorems                                                            *)

\* In every behaviour of the executor the inductive invariant holds.
THEOREM ExecutorInvCorrect == Spec => []ExecutorInv
<1>1. ExecutorInv /\ UNCHANGED vars => ExecutorInv'
  <2> SUFFICES ASSUME ExecutorInv, UNCHANGED vars PROVE ExecutorInv'
    OBVIOUS
  <2> USE DEF ExecutorInv, vars, fixedVars, verifyVars, chainVars
  <2>1. CallOK'
    BY DEF CallOK, rpcVars, RpcTypeOK, Ahead
  <2>2. ValuesOK'
    BY DEF ValuesOK
  <2>3. HandOK' /\ SentOK' /\ KillOK'
    BY DEF HandOK, SentOK, KillOK, SentBuild, Simulated
  <2>4. ChainOK'
    BY DEF ChainOK
  <2> QED
    BY <2>1, <2>2, <2>3, <2>4
<1>2. ExecutorInv /\ Next => ExecutorInv'
  BY GatesKeepInv, BeginKeepsInv, BuildKeepsInv, SendKeepsInv, TryNextKeepsInv, VerifyKeepsInv,
     OthersKeepInv DEF Next, Step
<1> QED
  BY <1>1, <1>2, ExecutorInit, PTL DEF Spec

\* Every variable holds a value of its type; a call is on its way exactly in the
\* stages that make one.
THEOREM ExecutorTypeCorrect == Spec => []ExecutorTypeOK
<1>1. ExecutorInv => ExecutorTypeOK
  BY DEF ExecutorInv, CallOK, ValuesOK, ExecutorTypeOK
<1> QED
  BY <1>1, ExecutorInvCorrect, PTL

\* A call that gives up has seen every endpoint fail.
THEOREM HealthyEndpointAnswersCorrect == Spec => []HealthyEndpointAnswers
<1>1. ExecutorInv => HealthyEndpointAnswers
  <2> SUFFICES ASSUME ExecutorInv, exhausted PROVE failed = Endpoints
    BY DEF HealthyEndpointAnswers
  <2>1. attempts = 0 /\ failed \subseteq Endpoints /\ currentIdx \in Endpoints
    BY DEF ExecutorInv, CallOK, RpcTypeOK
  <2>2. ASSUME NEW e \in Endpoints \ failed  PROVE FALSE
    <3>1. Ahead(e) < 0
      BY <2>1 DEF ExecutorInv, CallOK
    <3> QED
      BY <2>1, <3>1, NumUrlsAssumption DEF Ahead, Endpoints
  <2> QED
    BY <2>1, <2>2
<1> QED
  BY <1>1, ExecutorInvCorrect, PTL

\* With the kill switch active at most one more transaction goes out.
THEOREM KillSwitchStopsCorrect == Spec => []KillSwitchStops
<1>1. ExecutorInv => KillSwitchStops
  BY DEF ExecutorInv, KillOK, KillSwitchStops
<1> QED
  BY <1>1, ExecutorInvCorrect, PTL

\* Whatever was sent had passed the simulation that its path makes.
THEOREM SentAfterSimulationCorrect == Spec => []SentAfterSimulation
<1>1. ExecutorInv => SentAfterSimulation
  BY DEF ExecutorInv, SentOK, Simulated, SentAfterSimulation
<1> QED
  BY <1>1, ExecutorInvCorrect, PTL

\* What the executor answers accounts for every transaction on the network.
THEOREM AnswerAccountsForSentCorrect == Spec => []AnswerAccountsForSent
<1>1. ExecutorInv => AnswerAccountsForSent
  <2> SUFFICES ASSUME ExecutorInv, NEW o \in Opps
               PROVE  LET mine == {t \in sent : t.opp = o} IN
                         /\ Cardinality(mine) <= 1
                         /\ answer[o] \in Verdicts => mine # {}
                         /\ answer[o] \in {"build_failed", "simulation_failed"} \/ o \in oversized
                               => mine = {}
    BY DEF AnswerAccountsForSent
  <2> DEFINE mine == {t \in sent : t.opp = o}
             only == [opp |-> o, build |-> SentBuild(o)]
  <2>1. \A t \in mine : t = only
    BY DEF ExecutorInv, ValuesOK, SentOK, Txs
  <2>2. Cardinality(mine) <= 1
    <3>1. mine = {} \/ mine = {only}
      BY <2>1
    <3>2. Cardinality({}) = 0 /\ Cardinality({only}) = 1
      BY FS_EmptySet, FS_Singleton
    <3> HIDE DEF mine, only
    <3> QED
      BY <3>1, <3>2
  <2>3. answer[o] \in Verdicts => mine # {}
    BY DEF ExecutorInv, SentOK
  <2>4. answer[o] \in {"build_failed", "simulation_failed"} \/ o \in oversized => mine = {}
    <3>1. \A t \in mine : t.opp \notin oversized
      BY DEF ExecutorInv, SentOK
    <3>2. \A t \in mine : answer[o] \in {"running", "raised"} \cup Verdicts
      BY DEF ExecutorInv, SentOK, HandOK, Working, Sending
    <3> QED
      BY <3>1, <3>2 DEF Verdicts
  <2> QED
    BY <2>2, <2>3, <2>4
<1> QED
  BY <1>1, ExecutorInvCorrect, PTL

\* What VerdictGrounded asks of one step.
Grounded ==
    \A o \in Opps :
        answer'[o] # answer[o] /\ answer'[o] \in Verdicts =>
           /\ hand.opp = o /\ hand \in sent
           /\ answer'[o] = "confirmed" =>
                 \E s \in executed[hand] : ~s.err /\ (s.commit = "confirmed" \/ timedOut)
           /\ answer'[o] = "reverted" => \E s \in executed[hand] : s.err
           /\ answer'[o] = "dropped" => timedOut

\* A step that gives the hand's opportunity an answer gives no other one.
LEMMA FinishGrounded ==
    ASSUME ExecutorInv, stage \in Working, NEW result, Finish(result),
           result \in Verdicts => hand \in sent,
           result = "confirmed" =>
              \E s \in executed[hand] : ~s.err /\ (s.commit = "confirmed" \/ timedOut),
           result = "reverted" => \E s \in executed[hand] : s.err,
           result = "dropped" => timedOut
    PROVE  Grounded
<1>1. hand \in Txs /\ hand.opp \in Opps
  BY DEF ExecutorInv, HandOK, ValuesOK, Txs
<1>2. \A o \in Opps : answer'[o] = IF o = hand.opp THEN result ELSE answer[o]
  BY <1>1 DEF Finish, ExecutorInv, ValuesOK
<1> QED
  BY <1>1, <1>2 DEF Grounded

\* Before the first verification nothing is answered with a verdict.
LEMMA NoVerdict ==
    ASSUME ExecutorInv, stage \in Working, NEW result \in Failures, Finish(result) \/ UNCHANGED answer
    PROVE  Grounded
<1>1. result \notin Verdicts
  BY DEF Failures, Verdicts
<1> QED
  BY <1>1, FinishGrounded DEF Grounded, Verdicts

\* A verdict rests on a status of its transaction, and before the deadline on a
\* confirmed one: the status in memory is one it has had, and the loop is left with
\* one that is confirmed or at the deadline.
THEOREM VerdictGroundedCorrect == Spec => VerdictGrounded
<1>1. ExecutorInv /\ [Next]_vars => [Grounded]_vars
  <2> SUFFICES ASSUME ExecutorInv, Next PROVE Grounded
    BY DEF vars
  <2>1. CASE UNCHANGED answer
    BY <2>1 DEF Grounded
  <2>2. ASSUME NEW o \in Opps, Begin(o)
        PROVE  Grounded
    BY <2>2 DEF Begin, Grounded, Verdicts, ExecutorInv, ValuesOK
  <2>3. CASE Enter \/ CheckBuild \/ BuildAndSign \/ Simulate
    <3>1. stage \in Working /\ BuildFailure \in Failures
      BY <2>3 DEF Enter, CheckBuild, BuildAndSign, Simulate, Working, BuildFailure, Failures,
                  ExecutorInv, HandOK, ValuesOK, Txs
    <3>2. \E result \in Failures : Finish(result) \/ UNCHANGED answer
      BY <2>3, <3>1 DEF Enter, CheckBuild, BuildAndSign, Simulate, Failures
    <3> QED
      BY <3>1, <3>2, NoVerdict
  <2>4. CASE Send
    <3>1. stage \in Working /\ (Finish("raised") \/ UNCHANGED answer)
      BY <2>4 DEF Send, Working
    <3> QED
      BY <3>1, NoVerdict DEF Failures
  <2>5. CASE Poll
    <3>1. stage = "verify" /\ hand \in sent
      BY <2>5 DEF Poll, ExecutorInv, SentOK, Sending
    <3>2. UNCHANGED answer \/ (timedOut /\ Finish("dropped"))
      BY <2>5 DEF Poll
    <3> QED
      BY <2>1, <3>1, <3>2, FinishGrounded DEF Working
  <2>6. CASE TakeStatus
    <3>1. stage = "poll" /\ hand \in sent
      BY <2>6 DEF TakeStatus, ExecutorInv, SentOK, Sending
    <3>2. UNCHANGED answer \/ (Finish("reverted") /\ \E s \in executed[hand] : s.err)
      BY <2>6 DEF TakeStatus, Views
    <3> QED
      BY <2>1, <3>1, <3>2, FinishGrounded DEF Working
  <2>7. CASE Fetch
    <3>1. stage = "fetch" /\ hand \in sent /\ Finish("confirmed")
      BY <2>7 DEF Fetch, ExecutorInv, SentOK, Sending
    <3>2. ~status.err /\ status \in executed[hand] /\ (status.commit = "confirmed" \/ timedOut)
      BY <3>1 DEF ExecutorInv, ChainOK, Working
    <3> QED
      BY <3>1, <3>2, FinishGrounded DEF Working
  <2>8. CASE \/ CheckEnvGate \/ CheckKillSwitch \/ LoadWallet \/ CheckWalletBalance \/ Submit
            \/ TryNextEndpoint \/ Deadline \/ Kill \/ Resume \/ Network
    BY <2>1, <2>8 DEF CheckEnvGate, CheckKillSwitch, LoadWallet, Gate, CheckWalletBalance, Submit,
                      TryNextEndpoint, Deadline, Kill, Resume, Network
  <2> QED
    BY <2>2, <2>3, <2>4, <2>5, <2>6, <2>7, <2>8 DEF Next, Step
<1> QED
  BY <1>1, ExecutorInvCorrect, PTL DEF Spec, VerdictGrounded, Grounded
=============================================================================
