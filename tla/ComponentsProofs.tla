-------------------------- MODULE ComponentsProofs --------------------------
(***************************************************************************)
(* Safety of the parts that share no state (Components), for every value   *)
(* of their constants.  A step of the whole is a step of one part and      *)
(* leaves the others as they are (lemma PartSteps), so that each part's    *)
(* invariant is proved over its own next-state relation.                   *)
(***************************************************************************)
EXTENDS Components, FiniteSetTheorems, SequenceTheorems, WellFoundedInduction, TLAPS


\* The order of the naturals as a relation.
Below == {ss \in Nat \X Nat : ss[1] < ss[2]}

\* It is well-founded.
LEMMA BelowWellFounded == IsWellFoundedOn(Below, Nat)
  BY NatLessThanWellFounded, Zenon DEF OpToRel, Below

\* A non-empty set of numbers has a least one.
LEMMA LeastNatural ==
    ASSUME NEW T \in SUBSET Nat, T # {}
    PROVE  \E x \in T : \A y \in T : x <= y
<1>1. PICK x \in T : \A y \in T : ~(<<y, x>> \in Below)
  BY BelowWellFounded, WFMin
<1>2. \A y \in T : ~(y < x)
  BY <1>1 DEF Below
<1>3. \A y \in T : x <= y
  BY <1>2
<1> QED
  BY <1>3

\* The elements of two sequences one after the other.
LEMMA ConcatElements ==
    ASSUME NEW S, NEW s \in Seq(S), NEW t \in Seq(S)
    PROVE  /\ s \o t \in Seq(S) /\ Len(s \o t) = Len(s) + Len(t)
           /\ \A i \in 1 .. Len(s \o t) : (s \o t)[i] = IF i <= Len(s) THEN s[i] ELSE t[i - Len(s)]
  OBVIOUS

\* A step of the side-by-side composition is, for each part, a step of that
\* part or one that leaves its variables as they are.
LEMMA PartSteps ==
    ASSUME [Next]_componentVars
    PROVE  /\ [FanNext]_fanVars
           /\ [RiskNext]_riskVars
           /\ [LatNext]_latVars
           /\ [SwNext]_swVars
           /\ [OmNext]_omVars
           /\ [SmNext]_smVars
           /\ [LdNext]_ldVars
<1>1. CASE UNCHANGED componentVars
  BY <1>1 DEF componentVars, partVars
<1>2. CASE Fanout
  BY <1>2 DEF Fanout
<1>3. CASE Risk
  BY <1>3 DEF Risk
<1>4. CASE Latency
  BY <1>4 DEF Latency
<1>5. CASE Swap
  BY <1>5 DEF Swap
<1>6. CASE Onchain
  BY <1>6 DEF Onchain
<1>7. CASE Reports
  BY <1>7 DEF Reports
<1>8. CASE Dashboard
  BY <1>8 DEF Dashboard
<1>9. CASE Jupiter \/ Pools \/ Pricing \/ Scanner \/ Bot
  BY <1>9 DEF Jupiter, Pools, Pricing, Scanner, Bot
<1>10. CASE Chain \/ Pairing \/ Views
  BY <1>10 DEF Chain, Pairing, Views
<1> QED
  BY <1>1, <1>2, <1>3, <1>4, <1>5, <1>6, <1>7, <1>8, <1>9, <1>10 DEF Next

-----------------------------------------------------------------------------
(* Latency records                                                         *)

Stages == {"rpc_fetch", "scanner"}

OwnMarks(scan) == {[stage |-> stage, scan |-> scan] : stage \in Stages}

\* An opportunity is queued with both marks of the scan that found it.
Snapshots == {[found |-> n, marks |-> OwnMarks(n)] : n \in Nat}

OwnRecord(r) ==
    /\ r.found \in Nat /\ r.index \in Nat
    /\ r.marks = OwnMarks(r.found)
    /\ r.found <= r.index

\* The marks the tracker holds are of the current scan, with no scanner mark
\* before the fetch's; what is queued or written was marked by an earlier one
\* or by this.
LatencyInv ==
    /\ latScan \in Nat
    /\ latMarks \in {{}, {[stage |-> "rpc_fetch", scan |-> latScan]}, OwnMarks(latScan)}
    /\ latQueue \in Seq(Snapshots)
    /\ \A i \in 1 .. Len(latQueue) : latQueue[i].found <= latScan
    /\ \A r \in latWriting \cup latFile : OwnRecord(r)

\* The latency part starts in its invariant.
LEMMA LatencyInit == LatInit => LatencyInv
  BY DEF LatInit, LatencyInv

\* Each of its steps keeps it.
LEMMA LatencyKeeps ==
    ASSUME LatencyInv, [LatNext]_latVars
    PROVE  LatencyInv'
<1> USE DEF LatencyInv
<1>1. CASE UNCHANGED latVars
  BY <1>1 DEF latVars
<1>2. CASE StartScan
  <2>1. \A i \in 1 .. Len(latQueue) : latQueue[i].found \in Nat
    BY DEF Snapshots
  <2> QED
    BY <1>2, <2>1 DEF StartScan
<1>3. ASSUME NEW stage \in Stages, Mark(stage)
      PROVE  LatencyInv'
  <2>1. latMarks' \in {{[stage |-> "rpc_fetch", scan |-> latScan]}, OwnMarks(latScan)}
    BY <1>3 DEF Mark, Stages, OwnMarks
  <2> QED
    BY <1>3, <2>1 DEF Mark
<1>4. CASE QueueWithMarks
  <2>1. latMarks = OwnMarks(latScan)
    BY <1>4 DEF QueueWithMarks
  <2>2. [found |-> latScan, marks |-> latMarks] \in Snapshots
    BY <2>1 DEF Snapshots
  <2> DEFINE item == [found |-> latScan, marks |-> latMarks]
  <2>3. item \in Snapshots /\ item.found = latScan
    BY <2>2
  <2>4. latQueue' = Append(latQueue, item)
    BY <1>4 DEF QueueWithMarks
  <2> HIDE DEF item
  <2>5. latQueue' \in Seq(Snapshots) /\ \A i \in 1 .. Len(latQueue') : latQueue'[i].found <= latScan
    BY <2>3, <2>4
  <2> QED
    BY <1>4, <2>5 DEF QueueWithMarks
<1>5. CASE BuildRecord
  <2>1. Head(latQueue) \in Snapshots /\ Head(latQueue).found <= latScan
    BY <1>5 DEF BuildRecord
  <2>2. /\ Tail(latQueue) \in Seq(Snapshots)
        /\ Len(Tail(latQueue)) = Len(latQueue) - 1
        /\ \A i \in 1 .. Len(Tail(latQueue)) : Tail(latQueue)[i] = latQueue[i + 1]
    BY <1>5 DEF BuildRecord
  <2> DEFINE item == Head(latQueue)
             record == [found |-> item.found, marks |-> item.marks, index |-> latScan]
  <2>3. PICK n \in Nat : item = [found |-> n, marks |-> OwnMarks(n)]
    BY <2>1 DEF Snapshots
  <2>4. record = [found |-> n, marks |-> OwnMarks(n), index |-> latScan] /\ n <= latScan
    BY <2>1, <2>3
  <2>5. OwnRecord(record)
    BY <2>4 DEF OwnRecord
  <2>6. \A i \in 1 .. Len(Tail(latQueue)) : Tail(latQueue)[i].found <= latScan
    BY <2>2
  <2> HIDE DEF record
  <2>7. latWriting' = {record}
    BY <1>5 DEF BuildRecord, MarksFor, record
  <2> QED
    BY <1>5, <2>2, <2>5, <2>6, <2>7 DEF BuildRecord
<1>6. CASE WriteRecord
  BY <1>6 DEF WriteRecord
<1>7. CASE Close
  BY <1>7 DEF Close
<1> QED
  BY <1>1, <1>2, <1>3, <1>4, <1>5, <1>6, <1>7 DEF LatNext, Stages

\* LatencyTracker's snapshots: a record written by the consumer carries both
\* marks of the scan that found its opportunity, however many scans and
\* records there are.
THEOREM MarksOfOwnScanCorrect == Spec => []MarksOfOwnScan
<1>1. Init => LatencyInv
  BY LatencyInit DEF Init
<1>2. LatencyInv /\ [Next]_componentVars => LatencyInv'
  BY LatencyKeeps, PartSteps
<1>3. LatencyInv => MarksOfOwnScan
  BY DEF LatencyInv, MarksOfOwnScan, OwnRecord, OwnMarks, Stages
<1> QED
  BY <1>1, <1>2, <1>3, PTL DEF Spec

-----------------------------------------------------------------------------
(* Risk rules                                                              *)

\* No rule fails.
AllPass(p, o, l) == \A i \in 1 .. 9 : ~Fails(RuleOrder[i], p, o, l)

Approval(l) == IF l.mode = "simulation" THEN "simulation_approved" ELSE "approved"

\* evaluate approves exactly the offers no rule fails, and then by mode.
LEMMA ApprovedVerdict ==
    ASSUME NEW p, NEW o, NEW l
    PROVE  /\ AllPass(p, o, l) => Verdict(p, o, l) = Approval(l)
           /\ Passes(Verdict(p, o, l)) => AllPass(p, o, l)
<1>1. DOMAIN RuleOrder = 1 .. 9
  BY DEF RuleOrder
<1>2. ASSUME AllPass(p, o, l)
      PROVE  Verdict(p, o, l) = Approval(l)
  BY <1>1, <1>2 DEF AllPass, Verdict, Approval
<1>3. ASSUME ~AllPass(p, o, l)
      PROVE  ~Passes(Verdict(p, o, l))
  <2> DEFINE S == {i \in 1 .. 9 : Fails(RuleOrder[i], p, o, l)}
             First(i) == Fails(RuleOrder[i], p, o, l) /\ \A j \in 1 .. i - 1 : ~Fails(RuleOrder[j], p, o, l)
             chosen == CHOOSE i \in DOMAIN RuleOrder : First(i)
  <2>0. S # {} /\ S \in SUBSET Nat
    BY <1>3 DEF AllPass
  <2>1. \E i \in S : \A j \in S : i <= j
    BY <2>0, LeastNatural
  <2>2. \E i \in 1 .. 9 : First(i)
    BY <2>1
  <2>3. chosen \in 1 .. 9
    BY <1>1, <2>2
  <2>4. Verdict(p, o, l) = RuleOrder[chosen]
    BY <1>1, <1>3 DEF AllPass, Verdict
  <2> HIDE DEF chosen
  <2>5. RuleOrder[chosen] \notin {"approved", "simulation_approved"}
    BY <2>3 DEF RuleOrder
  <2> QED
    BY <2>4, <2>5 DEF Passes
<1> QED
  BY <1>2, <1>3

\* The rules one by one.
LEMMA RulesPassed ==
    ASSUME NEW p, NEW o, NEW l
    PROVE  AllPass(p, o, l) <=>
             /\ l.mode # "disabled"
             /\ ~(o.spread < p.minSpread) /\ ~(o.profit < p.minProfit)
             /\ ~(o.liquidity > 0 /\ o.liquidity < p.minLiquidity)
             /\ ~(o.flags > p.maxFlags) /\ ~(o.score < p.minScore)
             /\ ~FeeTooExpensive(p, o)
             /\ ~(l.hour >= p.maxPerHour)
             /\ ~(l.exposure + o.size > EffectiveMax(p, o))
<1> HIDE DEF FeeTooExpensive, EffectiveMax
<1>1. /\ RuleOrder[1] = "execution_disabled" /\ RuleOrder[2] = "below_min_spread"
      /\ RuleOrder[3] = "below_min_profit" /\ RuleOrder[4] = "pool_too_thin"
      /\ RuleOrder[5] = "too_many_flags" /\ RuleOrder[6] = "low_liquidity_score"
      /\ RuleOrder[7] = "fee_too_expensive" /\ RuleOrder[8] = "rate_limit_exceeded"
      /\ RuleOrder[9] = "exposure_limit"
  BY DEF RuleOrder
<1>2. AllPass(p, o, l) <=>
        /\ ~Fails(RuleOrder[1], p, o, l) /\ ~Fails(RuleOrder[2], p, o, l) /\ ~Fails(RuleOrder[3], p, o, l)
        /\ ~Fails(RuleOrder[4], p, o, l) /\ ~Fails(RuleOrder[5], p, o, l) /\ ~Fails(RuleOrder[6], p, o, l)
        /\ ~Fails(RuleOrder[7], p, o, l) /\ ~Fails(RuleOrder[8], p, o, l) /\ ~Fails(RuleOrder[9], p, o, l)
  BY DEF AllPass
<1>3. /\ Fails("execution_disabled", p, o, l) <=> l.mode = "disabled"
      /\ Fails("below_min_spread", p, o, l) <=> o.spread < p.minSpread
      /\ Fails("below_min_profit", p, o, l) <=> o.profit < p.minProfit
  BY DEF Fails
<1>4. /\ Fails("pool_too_thin", p, o, l) <=> o.liquidity > 0 /\ o.liquidity < p.minLiquidity
      /\ Fails("too_many_flags", p, o, l) <=> o.flags > p.maxFlags
      /\ Fails("low_liquidity_score", p, o, l) <=> o.score < p.minScore
  BY DEF Fails
<1>5. /\ Fails("fee_too_expensive", p, o, l) <=> FeeTooExpensive(p, o)
      /\ Fails("rate_limit_exceeded", p, o, l) <=> l.hour >= p.maxPerHour
      /\ Fails("exposure_limit", p, o, l) <=> l.exposure + o.size > EffectiveMax(p, o)
  BY DEF Fails
<1> QED
  BY <1>1, <1>2, <1>3, <1>4, <1>5

\* The types of what the rules read.
LEMMA RiskTypes ==
    ASSUME NEW p \in Policies, NEW o \in Offers, NEW l \in Loads
    PROVE  /\ p.minSpread \in Int /\ p.minProfit \in Int /\ p.minLiquidity \in Nat /\ p.maxFlags \in Nat
           /\ p.minScore \in Int /\ p.feeShare \in Nat /\ p.maxPerHour \in Nat /\ p.maxPerPair \in Nat
           /\ o.spread \in Int /\ o.profit \in Int /\ o.liquidity \in Nat /\ o.flags \in Nat
           /\ o.score \in Int /\ o.fee \in Nat /\ o.size \in Nat /\ o.override \in Nat
           /\ l.hour \in Nat /\ l.exposure \in Nat
  BY RiskAssumption

\* A fee that is a small enough share of the profit is one too when it is lower, of
\* a higher profit, or measured by a more generous share.
LEMMA FeeStaysCheap ==
    ASSUME NEW fee \in Nat, NEW share \in Nat, NEW profit \in Int,
           NEW fee2 \in Nat, NEW share2 \in Nat, NEW profit2 \in Int,
           fee * share <= profit, fee2 <= fee, share2 <= share, profit2 >= profit
    PROVE  fee2 * share2 <= profit2
<1>1. fee2 * share2 <= fee * share2 /\ fee * share2 <= fee * share
  OBVIOUS
<1>2. fee2 * share2 \in Int /\ fee * share2 \in Int /\ fee * share \in Int
  OBVIOUS
<1> QED
  BY <1>1, <1>2

\* An offer that is better by one unit in one measure passes every rule the
\* offer passes.
LEMMA ImprovedPasses ==
    ASSUME NEW p \in Policies, NEW o \in Offers, NEW l \in Loads, AllPass(p, o, l),
           NEW better \in Improved(p, o)
    PROVE  AllPass(p, better, l)
<1>1. /\ p.minSpread \in Int /\ p.minProfit \in Int /\ p.minLiquidity \in Nat /\ p.maxFlags \in Nat
      /\ p.minScore \in Int /\ p.feeShare \in Nat /\ p.maxPerHour \in Nat /\ p.maxPerPair \in Nat
      /\ o.spread \in Int /\ o.profit \in Int /\ o.liquidity \in Nat /\ o.flags \in Nat
      /\ o.score \in Int /\ o.fee \in Nat /\ o.size \in Nat /\ o.override \in Nat
      /\ l.hour \in Nat /\ l.exposure \in Nat
  BY RiskTypes
<1>2. o \in [spread : Int, profit : Int, liquidity : Nat, flags : Nat, score : Int,
            fee : Nat, size : Nat, override : Nat]
  BY RiskAssumption
<1>3. /\ better.spread \in Int /\ better.profit \in Int /\ better.liquidity \in Nat /\ better.flags \in Nat
      /\ better.score \in Int /\ better.fee \in Nat /\ better.size \in Nat
      /\ better.override = o.override
  BY <1>1, <1>2 DEF Improved
<1>4. /\ better.spread >= o.spread /\ better.score >= o.score
      /\ better.flags <= o.flags /\ better.fee <= o.fee
  BY <1>1, <1>2 DEF Improved
<1>5. /\ better.profit = o.profit \/ (o.profit > 0 /\ better.profit > o.profit)
      /\ better.liquidity = o.liquidity \/ (0 < o.liquidity /\ o.liquidity < better.liquidity)
      /\ better.size = o.size \/ (better.size < o.size /\ ~Exempt(p, o))
  BY <1>1, <1>2 DEF Improved
<1>6. ~FeeTooExpensive(p, better)
  <2>1. ~FeeTooExpensive(p, o)
    BY RulesPassed
  <2>2. ASSUME better.profit > 0, better.fee > 0
        PROVE  better.fee * p.feeShare <= better.profit
    <3>1. o.profit > 0 /\ o.fee > 0 /\ better.profit >= o.profit
      BY <1>1, <1>3, <1>4, <1>5, <2>2
    <3>2. o.fee * p.feeShare <= o.profit
      BY <1>1, <2>1, <3>1 DEF FeeTooExpensive
    <3> QED
      BY <1>1, <1>3, <1>4, <3>1, <3>2, FeeStaysCheap
  <2> QED
    BY <1>1, <1>3, <2>2 DEF FeeTooExpensive
<1>7. ~(l.exposure + better.size > EffectiveMax(p, better))
  <2>1. ~(l.exposure + o.size > EffectiveMax(p, o))
    BY RulesPassed
  <2> QED
    BY <1>1, <1>3, <1>5, <2>1 DEF EffectiveMax, Exempt
<1>8. /\ l.mode # "disabled" /\ ~(o.spread < p.minSpread) /\ ~(o.profit < p.minProfit)
      /\ ~(o.liquidity > 0 /\ o.liquidity < p.minLiquidity)
      /\ ~(o.flags > p.maxFlags) /\ ~(o.score < p.minScore) /\ ~(l.hour >= p.maxPerHour)
  BY RulesPassed
<1>9. /\ ~(better.spread < p.minSpread) /\ ~(better.profit < p.minProfit)
      /\ ~(better.liquidity > 0 /\ better.liquidity < p.minLiquidity)
      /\ ~(better.flags > p.maxFlags) /\ ~(better.score < p.minScore)
  BY <1>1, <1>3, <1>4, <1>5, <1>8
<1> QED
  BY <1>6, <1>7, <1>8, <1>9, RulesPassed

\* So does an offer when the hour or the pair carries less.
LEMMA EasedPasses ==
    ASSUME NEW p \in Policies, NEW o \in Offers, NEW l \in Loads, AllPass(p, o, l), NEW lighter \in Eased(l)
    PROVE  AllPass(p, o, lighter) /\ lighter.mode = l.mode
<1>1. /\ o.size \in Nat /\ o.override \in Nat /\ p.maxPerHour \in Nat /\ p.maxPerPair \in Nat
      /\ l.hour \in Nat /\ l.exposure \in Nat
  BY RiskTypes
<1>2. EffectiveMax(p, o) \in Nat
  BY <1>1 DEF EffectiveMax
<1>3. /\ lighter.hour <= l.hour /\ lighter.exposure <= l.exposure /\ lighter.mode = l.mode
      /\ lighter.hour \in Nat /\ lighter.exposure \in Nat
  <2>1. l \in [hour : Nat, exposure : Nat, mode : {"disabled", "simulation", "enabled"}]
    BY RiskAssumption
  <2> QED
    BY <1>1, <2>1 DEF Eased
<1> QED
  BY <1>1, <1>2, <1>3, RulesPassed

\* And so does one when a limit is looser.
LEMMA LoosenedPasses ==
    ASSUME NEW p \in Policies, NEW o \in Offers, NEW l \in Loads, AllPass(p, o, l),
           NEW looser \in Loosened(p, o)
    PROVE  AllPass(looser, o, l)
<1>1. /\ p.minSpread \in Int /\ p.minProfit \in Int /\ p.minLiquidity \in Nat /\ p.maxFlags \in Nat
      /\ p.minScore \in Int /\ p.feeShare \in Nat /\ p.maxPerHour \in Nat /\ p.maxPerPair \in Nat
      /\ o.spread \in Int /\ o.profit \in Int /\ o.liquidity \in Nat /\ o.flags \in Nat
      /\ o.score \in Int /\ o.fee \in Nat /\ o.size \in Nat /\ o.override \in Nat
      /\ l.hour \in Nat /\ l.exposure \in Nat
  BY RiskTypes
<1>2. p \in [minSpread : Int, minProfit : Int, minLiquidity : Nat, maxFlags : Nat,
            minScore : Int, feeShare : Nat, maxPerHour : Nat, maxPerPair : Nat]
  BY RiskAssumption
<1>3. /\ looser.minSpread \in Int /\ looser.minProfit \in Int /\ looser.minLiquidity \in Nat
      /\ looser.maxFlags \in Nat /\ looser.minScore \in Int /\ looser.feeShare \in Nat
      /\ looser.maxPerHour \in Nat /\ looser.maxPerPair \in Nat
  BY <1>1, <1>2 DEF Loosened
<1>4. /\ looser.minSpread <= p.minSpread /\ looser.minProfit <= p.minProfit
      /\ looser.minLiquidity <= p.minLiquidity /\ looser.maxFlags >= p.maxFlags
      /\ looser.minScore <= p.minScore /\ looser.feeShare <= p.feeShare
      /\ looser.maxPerHour >= p.maxPerHour
      /\ looser.maxPerPair = p.maxPerPair \/ (looser.maxPerPair > p.maxPerPair /\ ~Exempt(p, o))
  BY <1>1, <1>2 DEF Loosened
<1>5. ~FeeTooExpensive(looser, o)
  <2>1. ~FeeTooExpensive(p, o)
    BY RulesPassed
  <2>2. ASSUME o.profit > 0, o.fee > 0
        PROVE  o.fee * looser.feeShare <= o.profit
    <3>1. o.fee * p.feeShare <= o.profit
      BY <1>1, <2>1, <2>2 DEF FeeTooExpensive
    <3> QED
      BY <1>1, <1>3, <1>4, <3>1, FeeStaysCheap
  <2> QED
    BY <1>1, <1>3, <2>2 DEF FeeTooExpensive
<1>6. ~(l.exposure + o.size > EffectiveMax(looser, o))
  <2>1. ~(l.exposure + o.size > EffectiveMax(p, o))
    BY RulesPassed
  <2> QED
    BY <1>1, <1>3, <1>4, <2>1 DEF EffectiveMax, Exempt
<1>7. /\ l.mode # "disabled" /\ ~(o.spread < p.minSpread) /\ ~(o.profit < p.minProfit)
      /\ ~(o.liquidity > 0 /\ o.liquidity < p.minLiquidity)
      /\ ~(o.flags > p.maxFlags) /\ ~(o.score < p.minScore) /\ ~(l.hour >= p.maxPerHour)
  BY RulesPassed
<1>8. /\ ~(o.spread < looser.minSpread) /\ ~(o.profit < looser.minProfit)
      /\ ~(o.liquidity > 0 /\ o.liquidity < looser.minLiquidity)
      /\ ~(o.flags > looser.maxFlags) /\ ~(o.score < looser.minScore) /\ ~(l.hour >= looser.maxPerHour)
  BY <1>1, <1>3, <1>4, <1>7
<1> QED
  BY <1>5, <1>6, <1>7, <1>8, RulesPassed

\* A verdict other than the initial one is that of the policy, offer and load at hand.
RiskInv ==
    riskVerdict # "none" =>
        /\ riskPolicy \in Policies /\ riskOffer \in Offers /\ riskLoad \in Loads
        /\ riskVerdict = Verdict(riskPolicy, riskOffer, riskLoad)

\* The rules of RiskPolicy.evaluate never work against each other, whatever the
\* limits: what passes still passes with a better offer, a lighter load or a looser
\* limit, but for the special cases in which a rule looks away.
THEOREM SaferIsApprovedCorrect == Spec => []SaferIsApproved
<1>1. Init => RiskInv
  BY DEF Init, RiskInit, RiskInv
<1>2. RiskInv /\ [Next]_componentVars => RiskInv'
  <2> SUFFICES ASSUME RiskInv, [RiskNext]_riskVars
               PROVE  RiskInv'
    BY PartSteps
  <2>1. CASE RiskNext
    BY <2>1 DEF RiskNext, EvaluateOffer, RiskInv
  <2>2. CASE UNCHANGED riskVars
    BY <2>2 DEF riskVars, RiskInv
  <2> QED
    BY <2>1, <2>2
<1>3. RiskInv => SaferIsApproved
  <2> SUFFICES ASSUME RiskInv, Passes(riskVerdict)
               PROVE  /\ \A o \in Improved(riskPolicy, riskOffer) : Verdict(riskPolicy, o, riskLoad) = riskVerdict
                      /\ \A l \in Eased(riskLoad) : Verdict(riskPolicy, riskOffer, l) = riskVerdict
                      /\ \A p \in Loosened(riskPolicy, riskOffer) : Verdict(p, riskOffer, riskLoad) = riskVerdict
    BY DEF SaferIsApproved
  <2>1. /\ riskPolicy \in Policies /\ riskOffer \in Offers /\ riskLoad \in Loads
        /\ riskVerdict = Verdict(riskPolicy, riskOffer, riskLoad)
    BY DEF RiskInv, Passes
  <2>2. AllPass(riskPolicy, riskOffer, riskLoad)
    BY <2>1, ApprovedVerdict
  <2>3. riskVerdict = Approval(riskLoad)
    BY <2>1, <2>2, ApprovedVerdict
  <2>4. \A o \in Improved(riskPolicy, riskOffer) : Verdict(riskPolicy, o, riskLoad) = riskVerdict
    BY <2>1, <2>2, <2>3, ImprovedPasses, ApprovedVerdict
  <2>5. \A l \in Eased(riskLoad) : Verdict(riskPolicy, riskOffer, l) = riskVerdict
    BY <2>1, <2>2, <2>3, EasedPasses, ApprovedVerdict DEF Approval
  <2>6. \A p \in Loosened(riskPolicy, riskOffer) : Verdict(p, riskOffer, riskLoad) = riskVerdict
    BY <2>1, <2>2, <2>3, LoosenedPasses, ApprovedVerdict
  <2> QED
    BY <2>4, <2>5, <2>6
<1> QED
  BY <1>1, <1>2, <1>3, PTL DEF Spec

-----------------------------------------------------------------------------
(* Fan-out over the venues                                                 *)

\* A job is queued once, then in a worker's hands, then done: never two of
\* these, so that no outcome is written twice.
EachJobOnce ==
    /\ fanQueue \in Seq(Jobs) /\ fanRunning \subseteq Jobs /\ DOMAIN fanDone \subseteq Jobs
    /\ \A i, k \in 1 .. Len(fanQueue) : fanQueue[i] = fanQueue[k] => i = k
    /\ \A i \in 1 .. Len(fanQueue) : fanQueue[i] \notin fanRunning \cup DOMAIN fanDone
    /\ fanRunning \cap DOMAIN fanDone = {}

\* No job is of a scan that has not begun.
NoFutureJob ==
    /\ \A i \in 1 .. Len(fanQueue) : fanQueue[i].scan <= fanScan
    /\ \A j \in fanRunning \cup DOMAIN fanDone : j.scan <= fanScan

FanInv ==
    /\ fanScan \in Nat
    /\ fanStage \in {"idle", "collecting"}
    /\ EachJobOnce
    /\ NoFutureJob
    /\ fanYielded \subseteq DOMAIN fanDone \cap JobsOfScan
    /\ fanOut = {j \in fanYielded : fanDone[j] = "quotes"}
    /\ fanStage = "idle" /\ fanResult.kind = "returned" =>
          fanYielded = JobsOfScan /\ fanResult.quotes = fanOut

\* The fan-out starts in its invariant.
LEMMA FanInitInv == FanInit => FanInv
<1> SUFFICES ASSUME FanInit PROVE FanInv
  OBVIOUS
<1>1. DOMAIN fanDone = {} /\ fanQueue = <<>> /\ fanRunning = {} /\ fanYielded = {} /\ fanOut = {}
  BY DEF FanInit
<1>2. EachJobOnce /\ NoFutureJob
  BY <1>1 DEF EachJobOnce, NoFutureJob
<1> QED
  BY <1>1, <1>2 DEF FanInit, FanInv

\* The jobs a scan submits are new and differ from each other.
LEMMA SubmitKeeps ==
    ASSUME FanInv, SubmitJobs
    PROVE  FanInv'
<1> DEFINE submitted == [i \in DOMAIN Backends |-> [scan |-> fanScan + 1, venue |-> Backends[i]]]
<1>1. /\ fanScan \in Nat /\ fanScan < MaxScans /\ MaxScans \in Nat /\ fanScan' = fanScan + 1
      /\ fanQueue' = fanQueue \o submitted
      /\ fanRunning' = fanRunning /\ fanDone' = fanDone
  BY FanoutAssumption DEF FanInv, SubmitJobs
<1>2. DOMAIN Backends = 1 .. Len(Backends) /\ Len(Backends) \in Nat
  BY FanoutAssumption
<1>3. \A i \in DOMAIN Backends : submitted[i] \in Jobs /\ submitted[i].scan = fanScan + 1
  BY <1>1 DEF Jobs
<1>4. \A i, k \in DOMAIN Backends : submitted[i] = submitted[k] => i = k
  BY FanoutAssumption
<1>5. submitted \in Seq(Jobs) /\ Len(submitted) = Len(Backends)
  BY <1>2, <1>3
<1> HIDE DEF submitted
<1>6. fanQueue \in Seq(Jobs) /\ \A i \in 1 .. Len(fanQueue) : fanQueue[i] \in Jobs /\ fanQueue[i].scan <= fanScan
  BY DEF FanInv, EachJobOnce, NoFutureJob
<1>7. \A j \in Jobs : j.scan \in Nat
  BY DEF Jobs
<1>8. /\ fanQueue' \in Seq(Jobs) /\ Len(fanQueue') = Len(fanQueue) + Len(submitted)
      /\ \A i \in 1 .. Len(fanQueue') : fanQueue'[i] = IF i <= Len(fanQueue) THEN fanQueue[i] ELSE submitted[i - Len(fanQueue)]
  BY <1>1, <1>5, <1>6, ConcatElements
<1>9. \A i \in 1 .. Len(fanQueue') :
         /\ i <= Len(fanQueue) => fanQueue'[i] = fanQueue[i] /\ fanQueue'[i].scan < fanScan + 1
         /\ i > Len(fanQueue) => /\ i - Len(fanQueue) \in DOMAIN Backends
                                 /\ fanQueue'[i] = submitted[i - Len(fanQueue)]
                                 /\ fanQueue'[i].scan = fanScan + 1
  <2> SUFFICES ASSUME NEW i \in 1 .. Len(fanQueue')
               PROVE  /\ i <= Len(fanQueue) => fanQueue'[i] = fanQueue[i] /\ fanQueue'[i].scan < fanScan + 1
                      /\ i > Len(fanQueue) => /\ i - Len(fanQueue) \in DOMAIN Backends
                                              /\ fanQueue'[i] = submitted[i - Len(fanQueue)]
                                              /\ fanQueue'[i].scan = fanScan + 1
    OBVIOUS
  <2>1. CASE i <= Len(fanQueue)
    BY <1>1, <1>6, <1>7, <1>8, <2>1
  <2>2. CASE i > Len(fanQueue)
    <3>1. i - Len(fanQueue) \in DOMAIN Backends
      BY <1>2, <1>5, <1>6, <1>8, <2>2
    <3> QED
      BY <1>3, <1>6, <1>8, <2>2, <3>1
  <2> QED
    BY <1>6, <2>1, <2>2
<1>10. \A j \in fanRunning \cup DOMAIN fanDone : j \in Jobs /\ j.scan < fanScan + 1
  BY <1>1, <1>7 DEF FanInv, EachJobOnce, NoFutureJob
<1>11. \A i, k \in 1 .. Len(fanQueue') : fanQueue'[i] = fanQueue'[k] => i = k
  <2> SUFFICES ASSUME NEW i \in 1 .. Len(fanQueue'), NEW k \in 1 .. Len(fanQueue'), fanQueue'[i] = fanQueue'[k]
               PROVE  i = k
    OBVIOUS
  <2>1. CASE i <= Len(fanQueue) /\ k <= Len(fanQueue)
    BY <1>6, <1>9, <2>1 DEF FanInv, EachJobOnce
  <2>2. CASE i > Len(fanQueue) /\ k > Len(fanQueue)
    BY <1>4, <1>6, <1>9, <2>2
  <2>3. Len(fanQueue) \in Nat /\ i \in Int /\ k \in Int
    BY <1>6, <1>8
  <2>4. CASE i <= Len(fanQueue) /\ k > Len(fanQueue)
    <3>1. fanQueue'[i].scan < fanScan + 1
      BY <1>9, <2>4
    <3>2. fanQueue'[k].scan = fanScan + 1
      BY <1>9, <2>4
    <3> QED
      BY <1>1, <3>1, <3>2
  <2>5. CASE i > Len(fanQueue) /\ k <= Len(fanQueue)
    <3>1. fanQueue'[k].scan < fanScan + 1
      BY <1>9, <2>5
    <3>2. fanQueue'[i].scan = fanScan + 1
      BY <1>9, <2>5
    <3> QED
      BY <1>1, <3>1, <3>2
  <2> QED
    BY <2>1, <2>2, <2>3, <2>4, <2>5
<1>12. \A i \in 1 .. Len(fanQueue') : fanQueue'[i] \notin fanRunning \cup DOMAIN fanDone
  <2> SUFFICES ASSUME NEW i \in 1 .. Len(fanQueue')
               PROVE  fanQueue'[i] \notin fanRunning \cup DOMAIN fanDone
    OBVIOUS
  <2>1. CASE i <= Len(fanQueue)
    BY <1>6, <1>9, <2>1 DEF FanInv, EachJobOnce
  <2>2. CASE i > Len(fanQueue)
    <3>1. fanQueue'[i].scan = fanScan + 1
      BY <1>9, <2>2
    <3> QED
      BY <1>1, <1>10, <3>1
  <2> QED
    BY <1>6, <2>1, <2>2
<1>13. EachJobOnce'
  BY <1>1, <1>8, <1>11, <1>12 DEF FanInv, EachJobOnce
<1>14. NoFutureJob'
  BY <1>1, <1>6, <1>7, <1>8, <1>9, <1>10 DEF NoFutureJob
<1> QED
  BY <1>1, <1>13, <1>14 DEF SubmitJobs, FanInv

\* A worker takes the first job of the queue.
LEMMA TakeKeeps ==
    ASSUME FanInv, TakeJob
    PROVE  FanInv'
<1>1. /\ fanQueue \in Seq(Jobs) /\ fanQueue # <<>>
      /\ fanQueue' = Tail(fanQueue) /\ fanRunning' = fanRunning \cup {fanQueue[1]} /\ fanDone' = fanDone
      /\ fanScan' = fanScan
  BY DEF FanInv, EachJobOnce, TakeJob
<1>2. /\ fanQueue' \in Seq(Jobs) /\ Len(fanQueue') = Len(fanQueue) - 1 /\ Len(fanQueue) \in Nat \ {0}
      /\ \A i \in 1 .. Len(fanQueue') : fanQueue'[i] = fanQueue[i + 1] /\ i + 1 \in 1 .. Len(fanQueue)
      /\ fanQueue[1] \in Jobs
  BY <1>1
<1>3. \A i \in 1 .. Len(fanQueue') : fanQueue'[i] # fanQueue[1]
  BY <1>2 DEF FanInv, EachJobOnce
<1>4. \A i, k \in 1 .. Len(fanQueue') : fanQueue'[i] = fanQueue'[k] => i = k
  <2> SUFFICES ASSUME NEW i \in 1 .. Len(fanQueue'), NEW k \in 1 .. Len(fanQueue'), fanQueue'[i] = fanQueue'[k]
               PROVE  i = k
    OBVIOUS
  <2>1. i + 1 = k + 1
    BY <1>2 DEF FanInv, EachJobOnce
  <2> QED
    BY <1>2, <2>1
<1>5. fanQueue[1] \notin DOMAIN fanDone
  BY <1>2 DEF FanInv, EachJobOnce
<1>6. EachJobOnce'
  BY <1>1, <1>2, <1>3, <1>4, <1>5 DEF FanInv, EachJobOnce
<1>7. NoFutureJob'
  BY <1>1, <1>2 DEF FanInv, NoFutureJob
<1> QED
  BY <1>6, <1>7 DEF TakeJob, FanInv, JobsOfScan

\* A job that ends had no outcome before.
LEMMA EndKeeps ==
    ASSUME FanInv, NEW j \in Jobs, EndJob(j)
    PROVE  FanInv'
<1>1. j \in fanRunning /\ j \notin DOMAIN fanDone
  BY DEF EndJob, FanInv, EachJobOnce
<1>2. PICK outcome \in JobOutcomes : fanDone' = [k \in DOMAIN fanDone \cup {j} |-> IF k = j THEN outcome ELSE fanDone[k]]
  BY DEF EndJob
<1>3. DOMAIN fanDone' = DOMAIN fanDone \cup {j} /\ \A k \in DOMAIN fanDone : fanDone'[k] = fanDone[k]
  BY <1>1, <1>2
<1>4. /\ fanRunning' = fanRunning \ {j} /\ fanQueue' = fanQueue /\ fanScan' = fanScan
      /\ fanYielded' = fanYielded /\ fanOut' = fanOut /\ fanStage' = fanStage /\ fanResult' = fanResult
  BY DEF EndJob
<1>5. EachJobOnce' /\ NoFutureJob'
  BY <1>1, <1>3, <1>4 DEF FanInv, EachJobOnce, NoFutureJob
<1>6. fanYielded \subseteq DOMAIN fanDone /\ fanOut' = {k \in fanYielded' : fanDone'[k] = "quotes"}
  BY <1>3, <1>4 DEF FanInv
<1> QED
  BY <1>3, <1>4, <1>5, <1>6 DEF FanInv, JobsOfScan

\* The other steps of the fan-out keep its invariant.
LEMMA FanKeeps ==
    ASSUME FanInv, [FanNext]_fanVars
    PROVE  FanInv'
<1>1. CASE UNCHANGED fanVars
  BY <1>1 DEF fanVars, FanInv, EachJobOnce, NoFutureJob, JobsOfScan
<1>2. ASSUME NEW j \in Jobs, Collect(j)
      PROVE  FanInv'
  BY <1>2 DEF Collect, Collectable, Pending, FanInv, EachJobOnce, NoFutureJob, JobsOfScan
<1>3. CASE Return
  BY <1>3 DEF Return, Pending, FanInv, EachJobOnce, NoFutureJob, JobsOfScan
<1>4. CASE TimeUp
  BY <1>4 DEF TimeUp, FanInv, EachJobOnce, NoFutureJob, JobsOfScan
<1> QED
  BY <1>1, <1>2, <1>3, <1>4, SubmitKeeps, TakeKeeps, EndKeeps DEF FanNext

\* MultiVenueMarket.get_quotes, for any backends of different names: what a call
\* returns is exactly what its own jobs brought, whatever jobs of earlier scans
\* still run, queue or end meanwhile.
THEOREM QuotesOfThisScanCorrect == Spec => []QuotesOfThisScan
<1>1. Init => FanInv
  BY FanInitInv DEF Init
<1>2. FanInv /\ [Next]_componentVars => FanInv'
  BY FanKeeps, PartSteps
<1>3. FanInv => QuotesOfThisScan
  BY DEF FanInv, QuotesOfThisScan
<1> QED
  BY <1>1, <1>2, <1>3, PTL DEF Spec

-----------------------------------------------------------------------------
(* The on-chain market and its skip cache                                  *)

Asking == {"first", "retry", "fallback", "estimate"}

OnchainTypeOK ==
    /\ omStage \in {"idle", "waiting"}
    /\ omTask \in [Requests -> Asking \cup {"skipped", "quote", "lasting", "transient", "timeout"}]
    /\ omCache \in [Requests -> [age : Nat, ttl : Nat]]
    /\ omTvl \in [Requests -> [age : Nat, estimate : Estimates]]
    /\ omUsedTvl \in [Requests -> [age : Nat, estimate : Estimates]]
    /\ omAge \in [Requests -> Nat]
    /\ omEnd \in [Requests -> {"none", "quote", "lasting", "transient", "timeout"}]

\* A request in hand has no entry and was asked just now; between scans nothing is in hand.
InHand(r) ==
    /\ omStage = "waiting" /\ omTask[r] # "skipped" => omCache[r].ttl = 0 /\ omAge[r] = 0 /\ omTask[r] # "timeout"
    /\ omStage = "idle" => omTask[r] \notin Asking

\* An entry is as old as the request's last answer, and its time is what that
\* answer warrants.
EntryOfLastAnswer(r) ==
    omCache[r].ttl > 0 =>
        /\ omCache[r].age = omAge[r]
        /\ omEnd[r] \in {"lasting", "transient", "timeout"}
        /\ omCache[r].ttl = TtlOf(omEnd[r])

EstimateInTime(r) ==
    omUsedTvl[r].estimate # "unknown" => omUsedTvl[r].age < TvlTtl(omUsedTvl[r].estimate)

OnchainInv ==
    /\ OnchainTypeOK
    /\ \A r \in Requests : InHand(r) /\ EntryOfLastAnswer(r) /\ EstimateInTime(r)

\* The TTLs are positive numbers.
LEMMA TtlTypes ==
    /\ ShortTtl \in Nat \ {0} /\ LongTtl \in Nat \ {0}
    /\ \A end : TtlOf(end) \in Nat \ {0}
    /\ \A estimate : TvlTtl(estimate) \in Nat \ {0}
    /\ \A age \in Nat : Older(age) \in Nat
  BY OnchainAssumption DEF TtlOf, TvlTtl, Older

\* The market starts in its invariant.
LEMMA OnchainInit == OmInit => OnchainInv
  BY DEF OmInit, OnchainInv, OnchainTypeOK, InHand, EntryOfLastAnswer, EstimateInTime, NoEstimate, Estimates, Asking

\* Entry and answer grow old together.
LEMMA TickKeeps ==
    ASSUME OnchainInv, OmTick
    PROVE  OnchainInv'
<1>1. OnchainTypeOK'
  <2>1. omCache' \in [Requests -> [age : Nat, ttl : Nat]]
    BY TtlTypes DEF OmTick, OnchainInv, OnchainTypeOK
  <2>2. omTvl' \in [Requests -> [age : Nat, estimate : Estimates]]
    BY TtlTypes DEF OmTick, OnchainInv, OnchainTypeOK
  <2>3. omUsedTvl' \in [Requests -> [age : Nat, estimate : Estimates]] /\ omAge' \in [Requests -> Nat]
    BY TtlTypes DEF OmTick, OnchainInv, OnchainTypeOK, NoEstimate, Estimates
  <2> QED
    BY <2>1, <2>2, <2>3 DEF OmTick, OnchainInv, OnchainTypeOK
<1>2. ASSUME NEW r \in Requests
      PROVE  InHand(r)' /\ EntryOfLastAnswer(r)' /\ EstimateInTime(r)'
  <2>1. omUsedTvl'[r].estimate = "unknown"
    BY DEF OmTick, NoEstimate
  <2>2. omCache'[r].ttl = omCache[r].ttl /\ (omCache[r].ttl > 0 => omCache'[r].age = Older(omCache[r].age))
    BY DEF OmTick, OnchainInv, OnchainTypeOK
  <2>3. omAge'[r] = Older(omAge[r]) /\ omStage = "idle" /\ UNCHANGED <<omStage, omTask, omEnd>>
    BY DEF OmTick
  <2> QED
    BY <2>1, <2>2, <2>3 DEF OnchainInv, InHand, EntryOfLastAnswer, EstimateInTime
<1> QED
  BY <1>1, <1>2 DEF OnchainInv

\* A scan drops the entries that have expired, and asks for just these requests.
LEMMA BeginKeeps ==
    ASSUME OnchainInv, BeginQuotes
    PROVE  OnchainInv'
<1>1. OnchainTypeOK'
  BY DEF BeginQuotes, OnchainInv, OnchainTypeOK, Asking, NoEstimate, Estimates
<1>2. ASSUME NEW r \in Requests
      PROVE  InHand(r)' /\ EntryOfLastAnswer(r)' /\ EstimateInTime(r)'
  <2>1. omUsedTvl'[r].estimate = "unknown" /\ omEnd' = omEnd
    BY DEF BeginQuotes, NoEstimate
  <2>2. CASE ShouldSkip(r)
    BY <2>1, <2>2 DEF BeginQuotes, OnchainInv, InHand, EntryOfLastAnswer, EstimateInTime, Asking
  <2>3. CASE ~ShouldSkip(r)
    <3>1. omTask'[r] = "first" /\ omCache'[r].ttl = 0 /\ omAge'[r] = 0 /\ omStage' = "waiting"
      BY <2>3 DEF BeginQuotes
    <3> QED
      BY <2>1, <3>1 DEF InHand, EntryOfLastAnswer, EstimateInTime
  <2> QED
    BY <2>2, <2>3
<1> QED
  BY <1>1, <1>2 DEF OnchainInv

\* Every request that was asked for gets the entry its answer warrants.
LEMMA EndQuotesKeeps ==
    ASSUME OnchainInv, EndQuotes
    PROVE  OnchainInv'
<1> DEFINE ended == [r \in Requests |-> IF omTask[r] \in Running THEN "timeout" ELSE omTask[r]]
<1>1. /\ omStage = "waiting" /\ omStage' = "idle" /\ omTask' = ended
      /\ omCache' = [r \in Requests |-> Marked(r, ended[r])]
      /\ omEnd' = [r \in Requests |-> IF ended[r] = "skipped" THEN omEnd[r] ELSE ended[r]]
      /\ UNCHANGED <<omTvl, omUsedTvl, omAge>>
  BY DEF EndQuotes
<1>2. /\ ended \in [Requests -> {"skipped", "quote", "lasting", "transient", "timeout"}]
      /\ \A r \in Requests : ended[r] = "skipped" <=> omTask[r] = "skipped"
  BY DEF OnchainInv, OnchainTypeOK, Asking, Running
<1> HIDE DEF ended
<1>3. omCache' \in [Requests -> [age : Nat, ttl : Nat]]
  BY <1>1, TtlTypes DEF OnchainInv, OnchainTypeOK, Marked
<1>4. omEnd' \in [Requests -> {"none", "quote", "lasting", "transient", "timeout"}]
  BY <1>1, <1>2 DEF OnchainInv, OnchainTypeOK
<1>5. OnchainTypeOK'
  BY <1>1, <1>2, <1>3, <1>4 DEF OnchainInv, OnchainTypeOK
<1>6. ASSUME NEW r \in Requests
      PROVE  InHand(r)' /\ EntryOfLastAnswer(r)' /\ EstimateInTime(r)'
  <2>1. InHand(r)' /\ EstimateInTime(r)'
    BY <1>1, <1>2 DEF OnchainInv, InHand, EstimateInTime, Asking
  <2>2. CASE ended[r] \in {"skipped", "quote"}
    <3>1. omCache'[r] = omCache[r] /\ omAge' = omAge
      BY <1>1, <2>2 DEF Marked
    <3>2. omCache[r].ttl > 0 => omEnd'[r] = omEnd[r]
      BY <1>1, <1>2, <2>2 DEF OnchainInv, OnchainTypeOK, InHand
    <3> QED
      BY <2>1, <3>1, <3>2 DEF OnchainInv, EntryOfLastAnswer
  <2>3. CASE ended[r] \in {"lasting", "transient", "timeout"}
    <3>1. omCache[r].ttl = 0 /\ omAge'[r] = 0
      BY <1>1, <1>2, <2>3 DEF OnchainInv, InHand
    <3>2. omCache'[r] = [age |-> 0, ttl |-> TtlOf(ended[r])] /\ omEnd'[r] = ended[r]
      BY <1>1, <2>3, <3>1 DEF Marked, ShouldSkip
    <3>3. EntryOfLastAnswer(r)'
      BY <2>3, <3>1, <3>2 DEF EntryOfLastAnswer
    <3> QED
      BY <2>1, <3>3
  <2> QED
    BY <1>2, <2>2, <2>3
<1> QED
  BY <1>5, <1>6 DEF OnchainInv

\* What an adapter answers changes only the request's own job.
LEMMA QuoteKeeps ==
    ASSUME OnchainInv, NEW r \in Requests, DoQuote(r)
    PROVE  OnchainInv'
<1>1. omTask[r] \in Asking
  BY DEF DoQuote, Asking
<1>2. PICK task \in Asking \cup {"lasting", "transient"} : omTask' = [omTask EXCEPT ![r] = task]
  BY DEF DoQuote, ErrorOf, Asking
<1>3. UNCHANGED <<omStage, omCache, omTvl, omUsedTvl, omAge, omEnd>>
  BY DEF DoQuote
<1>4. omTask' \in [Requests -> Asking \cup {"skipped", "quote", "lasting", "transient", "timeout"}]
  BY <1>2 DEF OnchainInv, OnchainTypeOK
<1>5. omStage = "waiting" /\ omTask[r] # "skipped" /\ omTask'[r] \in Asking \cup {"lasting", "transient"}
  BY <1>1, <1>2 DEF OnchainInv, OnchainTypeOK, InHand, Asking
<1>6. \A q \in Requests : InHand(q)'
  BY <1>2, <1>3, <1>5 DEF OnchainInv, OnchainTypeOK, InHand, Asking
<1> QED
  BY <1>3, <1>4, <1>6 DEF OnchainInv, OnchainTypeOK, EntryOfLastAnswer, EstimateInTime

\* A quote's estimate is new, or of the cache and in its time.
LEMMA EstimateKeeps ==
    ASSUME OnchainInv, NEW r \in Requests, EstimateLiquidity(r)
    PROVE  OnchainInv'
<1>1. /\ omTask[r] = "estimate" /\ omTask' = [omTask EXCEPT ![r] = "quote"]
      /\ UNCHANGED <<omStage, omCache, omAge, omEnd>>
  BY DEF EstimateLiquidity
<1>2. omStage = "waiting" /\ omTask' \in [Requests -> Asking \cup {"skipped", "quote", "lasting", "transient", "timeout"}]
  BY <1>1 DEF OnchainInv, OnchainTypeOK, InHand, Asking
<1>3. \A q \in Requests : InHand(q)'
  BY <1>1, <1>2 DEF OnchainInv, OnchainTypeOK, InHand, Asking
<1>4. QuoteSmallAmount(r) \subseteq Estimates
  BY DEF QuoteSmallAmount, Estimates
<1>5. /\ omUsedTvl' \in [Requests -> [age : Nat, estimate : Estimates]]
      /\ omTvl' \in [Requests -> [age : Nat, estimate : Estimates]]
      /\ \A q \in Requests : EstimateInTime(q)'
  <2>1. CASE TvlFresh(r)
    BY <2>1 DEF EstimateLiquidity, TvlFresh, OnchainInv, OnchainTypeOK, EstimateInTime
  <2>2. CASE ~TvlFresh(r)
    <3>1. PICK estimate \in Estimates :
            /\ omUsedTvl' = [omUsedTvl EXCEPT ![r] = [age |-> 0, estimate |-> estimate]]
            /\ omTvl' = IF estimate = "unknown" THEN omTvl ELSE [omTvl EXCEPT ![r] = [age |-> 0, estimate |-> estimate]]
      BY <1>4, <2>2 DEF EstimateLiquidity
    <3>2. 0 < TvlTtl(estimate)
      BY TtlTypes
    <3> QED
      BY <3>1, <3>2 DEF OnchainInv, OnchainTypeOK, EstimateInTime
  <2> QED
    BY <2>1, <2>2
<1> QED
  BY <1>1, <1>2, <1>3, <1>5 DEF OnchainInv, OnchainTypeOK, EntryOfLastAnswer

\* An abandoned job writes no entry, and of the estimates only the cached one.
LEMMA LateJobKeeps ==
    ASSUME OnchainInv, NEW r \in Requests, LateJob(r)
    PROVE  OnchainInv'
<1>1. UNCHANGED <<omStage, omTask, omCache, omUsedTvl, omAge, omEnd>>
  BY DEF LateJob
<1>2. omTvl' \in [Requests -> [age : Nat, estimate : Estimates]]
  BY DEF LateJob, QuoteSmallAmount, Estimates, OnchainInv, OnchainTypeOK
<1> QED
  BY <1>1, <1>2 DEF OnchainInv, OnchainTypeOK, InHand, EntryOfLastAnswer, EstimateInTime

\* The EVM market with its skip cache, for any requests, DEX types and TTLs: no
\* request is left out for longer than its last answer warrants, and no quote
\* uses an estimate of liquidity older than its size allows.
THEOREM RecheckedWithinTtlCorrect == Spec => []RecheckedWithinTtl
<1>1. Init => OnchainInv
  BY OnchainInit DEF Init
<1>2. OnchainInv /\ [Next]_componentVars => OnchainInv'
  <2> SUFFICES ASSUME OnchainInv, [OmNext]_omVars
               PROVE  OnchainInv'
    BY PartSteps
  <2>1. CASE UNCHANGED omVars
    BY <2>1 DEF omVars, OnchainInv, OnchainTypeOK, InHand, EntryOfLastAnswer, EstimateInTime
  <2> QED
    BY <2>1, TickKeeps, BeginKeeps, EndQuotesKeeps, QuoteKeeps, EstimateKeeps, LateJobKeeps DEF OmNext
<1>3. OnchainInv => RecheckedWithinTtl
  <2> SUFFICES ASSUME OnchainInv, NEW r \in Requests
               PROVE  /\ omTask[r] = "skipped" /\ omEnd[r] # "none" /\ ShouldSkip(r) =>
                            omEnd[r] # "quote" /\ omAge[r] < (IF omEnd[r] = "lasting" THEN LongTtl ELSE ShortTtl)
                      /\ omTask[r] = "quote" /\ omUsedTvl[r].estimate # "unknown" =>
                            omUsedTvl[r].age < TvlTtl(omUsedTvl[r].estimate)
    BY DEF RecheckedWithinTtl
  <2>1. EntryOfLastAnswer(r) /\ EstimateInTime(r)
    BY DEF OnchainInv
  <2> QED
    BY <2>1 DEF EntryOfLastAnswer, EstimateInTime, ShouldSkip, TtlOf
<1> QED
  BY <1>1, <1>2, <1>3, PTL DEF Spec

-----------------------------------------------------------------------------
(* Reports by mail                                                         *)

\* Quotient and remainder.
LEMMA Division ==
    ASSUME NEW a \in Nat, NEW d \in Nat \ {0}
    PROVE  a = d * (a \div d) + (a % d) /\ a % d \in 0 .. d - 1 /\ a \div d \in Nat
  OBVIOUS

\* The quotient does not fall as the number grows.
LEMMA QuotientMonotone ==
    ASSUME NEW d \in Nat \ {0}, NEW a \in Nat, NEW b \in Nat, a <= b
    PROVE  a \div d <= b \div d
<1> DEFINE p == a \div d
           q == b \div d
           r == a % d
           s == b % d
<1>1. /\ p \in Nat /\ q \in Nat /\ r \in 0 .. d - 1 /\ s \in 0 .. d - 1
      /\ d * p + r <= d * q + s
  BY Division
<1> HIDE DEF p, q, r, s
<1>2. p <= q
  <2> SUFFICES ASSUME q + 1 <= p
               PROVE  FALSE
    BY <1>1
  <2>1. d * (q + 1) <= d * p /\ d * (q + 1) = d * q + d
    BY <1>1
  <2> QED
    BY <1>1, <2>1
<1> QED
  BY <1>2 DEF p, q

Mails == [kind : {"hourly", "daily"}, by : {"loop", "main"}, at : Nat, date : Nat]

\* The clock, and the days it goes through.
ClockOK ==
    /\ smNow \in Nat /\ smLastEmail \in Nat /\ smLastDaily \in Nat
    /\ smLastEmail <= smNow /\ smLastDaily <= Today
    /\ smReports \in Seq(Mails)

HourlyBy(i, thread) == smReports[i].kind = "hourly" /\ smReports[i].by = thread

\* No hourly report is later than the last one noted; where a thread is about
\* to send one, its own last is an interval ago.
HourlyInv ==
    /\ \A i \in 1 .. Len(smReports) : smReports[i].kind = "hourly" => smReports[i].at <= smLastEmail
    /\ \A i \in 1 .. Len(smReports) :
          /\ smLoop = "hourly_send" /\ HourlyBy(i, "loop") => smReports[i].at + EmailInterval <= smNow
          /\ smMain = "hourly_send" /\ HourlyBy(i, "main") => smReports[i].at + EmailInterval <= smNow

\* No daily report is of a later date than the last one noted; where one is
\* about to be sent, none is of that date, and its hour has come.
DailyInv ==
    /\ \A i \in 1 .. Len(smReports) : smReports[i].kind = "daily" => smReports[i].date <= smLastDaily
    /\ smLoop = "daily_send" =>
          /\ smLastDaily > 0
          /\ smNow >= (smLastDaily - 1) * DayLength + DailyHour
          /\ \A i \in 1 .. Len(smReports) : smReports[i].kind = "daily" => smReports[i].date < smLastDaily

ReportsInv == ClockOK /\ HourlyInv /\ DailyInv /\ ReportsSpaced

\* What is known of each report.
LEMMA ReportTypes ==
    ASSUME ReportsInv, NEW i \in 1 .. Len(smReports)
    PROVE  smReports[i] \in Mails /\ smReports[i].at \in Nat /\ smReports[i].date \in Nat
<1>1. smReports \in Seq(Mails)
  BY DEF ReportsInv, ClockOK
<1>2. smReports[i] \in Mails
  BY <1>1
<1> QED
  BY <1>2 DEF Mails

\* The alerter starts in its invariant.
LEMMA ReportsInit == SmInit => ReportsInv
<1> SUFFICES ASSUME SmInit PROVE ReportsInv
  OBVIOUS
<1>1. smReports = <<>> /\ Len(smReports) = 0
  BY DEF SmInit
<1>2. DayLength \in Nat \ {0} /\ EmailInterval \in Nat /\ FirstEmail \in Nat /\ FirstEmail <= EmailInterval
  BY AlertAssumption
<1>3. smNow = EmailInterval /\ smLastEmail = FirstEmail /\ smLastDaily = 0 /\ smLoop = "asleep" /\ smMain = "scanning"
  BY DEF SmInit
<1>4. Today \in Nat
  BY <1>2, <1>3, Division DEF Today
<1>5. ClockOK
  BY <1>1, <1>2, <1>3, <1>4 DEF ClockOK
<1>6. HourlyInv /\ DailyInv /\ ReportsSpaced
  BY <1>1, <1>3 DEF HourlyInv, DailyInv, ReportsSpaced
<1> QED
  BY <1>5, <1>6 DEF ReportsInv

\* A step that sends nothing keeps the spacing of what was sent.
LEMMA QuietKeeps ==
    ASSUME ReportsInv, smReports' = smReports
    PROVE  ReportsSpaced'
  BY DEF ReportsInv, ReportsSpaced

\* As time goes on the date does not go back.
LEMMA ClockKeeps ==
    ASSUME ReportsInv, ClockTicks
    PROVE  ReportsInv'
<1>1. /\ smNow \in Nat /\ smNow' = smNow + 1
      /\ UNCHANGED <<smLastEmail, smLastDaily, smLoop, smMain, smReports>>
  BY DEF ClockTicks, ReportsInv, ClockOK
<1>2. DayLength \in Nat \ {0} /\ EmailInterval \in Nat /\ DailyHour \in Nat
  BY AlertAssumption
<1>3. Today <= Today' /\ Today \in Nat /\ Today' \in Nat
  BY <1>1, <1>2, Division, QuotientMonotone DEF Today
<1>4. ClockOK'
  BY <1>1, <1>3 DEF ReportsInv, ClockOK
<1>5. \A i \in 1 .. Len(smReports) : smReports[i].at \in Nat
  BY ReportTypes
<1>6. HourlyInv'
  BY <1>1, <1>2, <1>5 DEF ReportsInv, HourlyInv, HourlyBy
<1>7. (smLastDaily - 1) * DayLength + DailyHour \in Int
  BY <1>2 DEF ReportsInv, ClockOK
<1>8. DailyInv'
  BY <1>1, <1>7 DEF ReportsInv, DailyInv
<1> QED
  BY <1>1, <1>4, <1>6, <1>8, QuietKeeps DEF ReportsInv

\* The checks and the steps that raise or stop.
LEMMA ChecksKeep ==
    ASSUME ReportsInv,
           WakeUp \/ HourlyDue \/ ReportRaises \/ MainChecksHourly \/ MainRaises \/ StopReports
    PROVE  ReportsInv'
<1>1. UNCHANGED <<smNow, smLastEmail, smLastDaily, smReports>>
  BY DEF WakeUp, HourlyDue, ReportRaises, MainChecksHourly, MainRaises, StopReports
<1>2. ClockOK'
  BY <1>1 DEF ReportsInv, ClockOK, Today
<1>3. smLoop' # "daily_send" \/ smLoop' = smLoop
  BY DEF WakeUp, HourlyDue, ReportRaises, MainChecksHourly, MainRaises, StopReports
<1>4. DailyInv'
  BY <1>1, <1>3 DEF ReportsInv, DailyInv
<1>5. /\ smLoop' = "hourly_send" => smLoop = "hourly_send" \/ HourlyIsDue
      /\ smMain' = "hourly_send" => smMain = "hourly_send" \/ HourlyIsDue
  BY DEF WakeUp, HourlyDue, ReportRaises, MainChecksHourly, MainRaises, StopReports
<1>6. ASSUME HourlyIsDue, NEW i \in 1 .. Len(smReports), smReports[i].kind = "hourly"
      PROVE  smReports[i].at + EmailInterval <= smNow
  <2>1. smReports[i].at \in Nat /\ smReports[i].at <= smLastEmail
    BY <1>6, ReportTypes DEF ReportsInv, HourlyInv
  <2> QED
    BY <1>6, <2>1, AlertAssumption DEF HourlyIsDue, ReportsInv, ClockOK
<1>7. HourlyInv'
  BY <1>1, <1>5, <1>6 DEF ReportsInv, HourlyInv, HourlyBy
<1> QED
  BY <1>1, <1>2, <1>4, <1>7, QuietKeeps DEF ReportsInv

\* The daily check notes a date after every one noted, once its hour has come.
LEMMA DailyDueKeeps ==
    ASSUME ReportsInv, DailyDue
    PROVE  ReportsInv'
<1> DEFINE due == smNow % DayLength >= DailyHour /\ Today # smLastDaily
<1>1. /\ UNCHANGED <<smNow, smLastEmail, smMain, smReports>>
      /\ smLoop' \in {"daily_send", "asleep", "ended"}
      /\ smLoop' = "daily_send" => due
      /\ smLastDaily' = IF due THEN Today ELSE smLastDaily
  BY DEF DailyDue
<1>2. /\ DayLength \in Nat \ {0} /\ DailyHour \in Nat /\ smNow \in Nat
      /\ smLastDaily \in Nat /\ smLastDaily <= Today
  BY AlertAssumption DEF ReportsInv, ClockOK
<1>3. /\ Today - 1 \in Nat /\ Today \in Nat \ {0} /\ smNow = DayLength * (Today - 1) + (smNow % DayLength)
      /\ smNow % DayLength \in Nat
  BY <1>2, Division DEF Today
<1>4. due => Today > smLastDaily /\ smNow >= (Today - 1) * DayLength + DailyHour
  BY <1>2, <1>3
<1>5. Today' = Today
  BY <1>1 DEF Today
<1> HIDE DEF due
<1>6. ClockOK'
  BY <1>1, <1>2, <1>3, <1>5 DEF ReportsInv, ClockOK
<1>7. HourlyInv'
  BY <1>1 DEF ReportsInv, HourlyInv, HourlyBy
<1>8. \A i \in 1 .. Len(smReports) : smReports[i].date \in Nat
  BY ReportTypes
<1>9. DailyInv'
  <2>1. CASE due
    BY <1>1, <1>2, <1>3, <1>4, <1>8, <2>1 DEF ReportsInv, DailyInv
  <2>2. CASE ~due
    BY <1>1, <2>2 DEF ReportsInv, DailyInv
  <2> QED
    BY <2>1, <2>2
<1> QED
  BY <1>1, <1>6, <1>7, <1>9, QuietKeeps DEF ReportsInv

\* A report is the last of the history, with the time and the date noted.
LEMMA SentReport ==
    ASSUME ReportsInv, NEW kind \in {"hourly", "daily"}, NEW thread \in {"loop", "main"}, Reported(kind, thread)
    PROVE  /\ smReports' \in Seq(Mails) /\ Len(smReports') = Len(smReports) + 1 /\ Len(smReports) \in Nat
           /\ \A i \in 1 .. Len(smReports) : smReports'[i] = smReports[i] /\ smReports[i] \in Mails
           /\ smReports'[Len(smReports) + 1] = [kind |-> kind, by |-> thread, at |-> smNow, date |-> smLastDaily]
<1> DEFINE report == [kind |-> kind, by |-> thread, at |-> smNow, date |-> smLastDaily]
<1>1. report \in Mails /\ smReports \in Seq(Mails)
  BY DEF ReportsInv, ClockOK, Mails
<1>2. smReports' = Append(smReports, report)
  BY DEF Reported
<1> HIDE DEF report
<1>3. /\ smReports' \in Seq(Mails) /\ Len(smReports') = Len(smReports) + 1 /\ Len(smReports) \in Nat
      /\ \A i \in 1 .. Len(smReports) : smReports'[i] = smReports[i] /\ smReports[i] \in Mails
      /\ smReports'[Len(smReports) + 1] = report
  BY <1>1, <1>2
<1> QED
  BY <1>3 DEF report

\* An hourly report of either thread is an interval after that thread's last.
LEMMA HourlyKeeps ==
    ASSUME ReportsInv, SendHourly \/ MainSendsHourly
    PROVE  ReportsInv'
<1>1. PICK thread \in {"loop", "main"} :
        /\ Reported("hourly", thread)
        /\ thread = "loop" => smLoop = "hourly_send" /\ smLoop' # "hourly_send" /\ smMain' = smMain
        /\ thread = "main" => smMain = "hourly_send" /\ smMain' # "hourly_send" /\ smLoop' = smLoop
        /\ smLoop' = smLoop \/ smLoop' = "daily"
        /\ smLastEmail' = smNow /\ UNCHANGED <<smNow, smLastDaily>>
  BY DEF SendHourly, MainSendsHourly, StampedAt
<1> DEFINE n == Len(smReports) + 1
           report == [kind |-> "hourly", by |-> thread, at |-> smNow, date |-> smLastDaily]
<1>2. /\ smReports' \in Seq(Mails) /\ Len(smReports') = n /\ n \in Nat \ {0}
      /\ \A i \in 1 .. Len(smReports) : smReports'[i] = smReports[i] /\ smReports[i] \in Mails
      /\ smReports'[n] = report
  BY <1>1, SentReport
<1>3. smNow \in Nat /\ smLastEmail <= smNow /\ smLastEmail \in Nat /\ EmailInterval \in Nat
  BY AlertAssumption DEF ReportsInv, ClockOK
<1>4. \A i \in 1 .. n : i = n \/ (i < n /\ i \in 1 .. Len(smReports))
  BY <1>2
<1>5. /\ \A i \in 1 .. Len(smReports) : smReports[i].kind = "hourly" => smReports[i].at <= smNow
      /\ \A i \in 1 .. Len(smReports) : HourlyBy(i, thread) => smReports[i].at + EmailInterval <= smNow
  <2>1. ASSUME NEW i \in 1 .. Len(smReports), smReports[i].kind = "hourly"
        PROVE  smReports[i].at <= smNow
    BY <1>3, <2>1, ReportTypes DEF ReportsInv, HourlyInv
  <2>2. ASSUME NEW i \in 1 .. Len(smReports), HourlyBy(i, thread)
        PROVE  smReports[i].at + EmailInterval <= smNow
    BY <1>1, <2>2 DEF ReportsInv, HourlyInv
  <2> QED
    BY <2>1, <2>2
<1> HIDE DEF n
<1>6. ClockOK'
  BY <1>1, <1>2, <1>3 DEF ReportsInv, ClockOK, Today
<1>7. HourlyInv'
  <2>1. \A i \in 1 .. n : smReports'[i].kind = "hourly" => smReports'[i].at <= smNow
    BY <1>2, <1>3, <1>4, <1>5
  <2>2. ASSUME NEW i \in 1 .. n, NEW other \in {"loop", "main"}, other # thread,
               (IF other = "loop" THEN smLoop' ELSE smMain') = "hourly_send",
               smReports'[i].kind = "hourly", smReports'[i].by = other
        PROVE  smReports'[i].at + EmailInterval <= smNow
    <3>1. i \in 1 .. Len(smReports) /\ smReports'[i] = smReports[i]
      BY <1>2, <1>4, <2>2
    <3> QED
      BY <1>1, <2>2, <3>1 DEF ReportsInv, HourlyInv, HourlyBy
  <2> QED
    BY <1>1, <1>2, <2>1, <2>2 DEF HourlyInv, HourlyBy
<1>8. DailyInv'
  BY <1>1, <1>2, <1>4 DEF ReportsInv, DailyInv
<1>9. ReportsSpaced'
  <2>1. ASSUME NEW i \in 1 .. n, NEW j \in 1 .. n, i < j, smReports'[i].kind = smReports'[j].kind
        PROVE  IF smReports'[i].kind = "hourly"
               THEN smReports'[i].by = smReports'[j].by => smReports'[j].at >= smReports'[i].at + EmailInterval
               ELSE smReports'[j].date # smReports'[i].date
    <3>1. i \in 1 .. Len(smReports) /\ smReports'[i] = smReports[i]
      BY <1>2, <1>4, <2>1
    <3>2. CASE j = n
      BY <1>2, <1>5, <2>1, <3>1, <3>2 DEF HourlyBy
    <3>3. CASE j \in 1 .. Len(smReports)
      BY <1>2, <2>1, <3>1, <3>3 DEF ReportsInv, ReportsSpaced
    <3> QED
      BY <1>4, <3>2, <3>3
  <2>2. \A i \in 1 .. n : smReports'[i].kind = "daily" => smReports'[i].at >= (smReports'[i].date - 1) * DayLength + DailyHour
    BY <1>2, <1>4 DEF ReportsInv, ReportsSpaced
  <2> QED
    BY <1>2, <2>1, <2>2 DEF ReportsSpaced
<1> QED
  BY <1>6, <1>7, <1>8, <1>9 DEF ReportsInv

\* A daily report is the first of its date, and after its hour.
LEMMA DailyKeeps ==
    ASSUME ReportsInv, SendDaily
    PROVE  ReportsInv'
<1>1. /\ Reported("daily", "loop") /\ smLoop = "daily_send" /\ smLoop' \in {"asleep", "ended"}
      /\ UNCHANGED <<smNow, smLastEmail, smLastDaily, smMain>>
  BY DEF SendDaily
<1> DEFINE n == Len(smReports) + 1
           report == [kind |-> "daily", by |-> "loop", at |-> smNow, date |-> smLastDaily]
<1>2. /\ smReports' \in Seq(Mails) /\ Len(smReports') = n /\ n \in Nat \ {0}
      /\ \A i \in 1 .. Len(smReports) : smReports'[i] = smReports[i] /\ smReports[i] \in Mails
      /\ smReports'[n] = report
  BY <1>1, SentReport
<1>3. \A i \in 1 .. n : i = n \/ (i < n /\ i \in 1 .. Len(smReports))
  BY <1>2
<1> HIDE DEF n
<1>4. ClockOK'
  BY <1>1, <1>2 DEF ReportsInv, ClockOK, Today
<1>5. HourlyInv'
  BY <1>1, <1>2, <1>3 DEF ReportsInv, HourlyInv, HourlyBy
<1>6. smLastDaily \in Nat
  BY DEF ReportsInv, ClockOK
<1>7. DailyInv'
  BY <1>1, <1>2, <1>3, <1>6 DEF ReportsInv, DailyInv
<1>8. ReportsSpaced'
  <2>1. ASSUME NEW i \in 1 .. n, NEW j \in 1 .. n, i < j, smReports'[i].kind = smReports'[j].kind
        PROVE  IF smReports'[i].kind = "hourly"
               THEN smReports'[i].by = smReports'[j].by => smReports'[j].at >= smReports'[i].at + EmailInterval
               ELSE smReports'[j].date # smReports'[i].date
    <3>1. i \in 1 .. Len(smReports) /\ smReports'[i] = smReports[i]
      BY <1>2, <1>3, <2>1
    <3>2. CASE j = n
      <4>1. smReports[i].kind = "daily" /\ smReports[i].date < smLastDaily /\ smReports[i].date \in Nat
        BY <1>1, <1>2, <2>1, <3>1, <3>2 DEF ReportsInv, DailyInv, Mails
      <4> QED
        BY <1>2, <1>6, <3>1, <3>2, <4>1
    <3>3. CASE j \in 1 .. Len(smReports)
      BY <1>2, <2>1, <3>1, <3>3 DEF ReportsInv, ReportsSpaced
    <3> QED
      BY <1>3, <3>2, <3>3
  <2>2. ASSUME NEW i \in 1 .. n, smReports'[i].kind = "daily"
        PROVE  smReports'[i].at >= (smReports'[i].date - 1) * DayLength + DailyHour
    <3>1. CASE i = n
      BY <1>1, <1>2, <3>1 DEF ReportsInv, DailyInv
    <3>2. CASE i \in 1 .. Len(smReports)
      BY <1>2, <2>2, <3>2 DEF ReportsInv, ReportsSpaced
    <3> QED
      BY <1>3, <3>1, <3>2
  <2> QED
    BY <1>2, <2>1, <2>2 DEF ReportsSpaced
<1> QED
  BY <1>4, <1>5, <1>7, <1>8 DEF ReportsInv

\* SmartAlerter with the main thread's own check, for any intervals, days and
\* delays: two hourly reports of one thread are an interval apart, no date has
\* two daily reports, and none comes before its hour.
THEOREM ReportsSpacedCorrect == Spec => []ReportsSpaced
<1>1. Init => ReportsInv
  BY ReportsInit DEF Init
<1>2. ReportsInv /\ [Next]_componentVars => ReportsInv'
  <2> SUFFICES ASSUME ReportsInv, [SmNext]_smVars
               PROVE  ReportsInv'
    BY PartSteps
  <2>1. CASE UNCHANGED smVars
    BY <2>1 DEF smVars, ReportsInv, ClockOK, Today, HourlyInv, HourlyBy, DailyInv, ReportsSpaced
  <2> QED
    BY <2>1, ClockKeeps, ChecksKeep, DailyDueKeeps, HourlyKeeps, DailyKeeps DEF SmNext
<1>3. ReportsInv => ReportsSpaced
  BY DEF ReportsInv
<1> QED
  BY <1>1, <1>2, <1>3, PTL DEF Spec

-----------------------------------------------------------------------------
(* The live dashboard's scan loop                                          *)

RecordStatuses == {"processed", "detected", "rejected"}
RecordRows == [opp : Spreads, status : RecordStatuses]

Recorded == {ldRecords[i].opp : i \in 1 .. Len(ldRecords)}

DashboardTypeOK ==
    /\ ldScan \in Nat
    /\ ldStage \in {"check", "fetch", "chains", "best", "recording", "alert", "serving", "done", "crashed"}
    /\ ldBest \in Spreads
    /\ \A c \in DOMAIN ldOfChain : ldOfChain[c] \in Spreads /\ ldOfChain[c].buyChain = c
    /\ ldKeys \subseteq Spreads /\ ldFailed \subseteq Spreads
    /\ ldRecords \in Seq(RecordRows)
    /\ ldResult.scan \in Nat

\* An opportunity is recorded once or has failed once.
OncePerScan ==
    /\ \A i, j \in 1 .. Len(ldRecords) : ldRecords[i].opp = ldRecords[j].opp => i = j
    /\ Recorded \cap ldFailed = {}

\* The keys are of what went through, and no chain still to come has one; the
\* best overall is tried after that.
Tried ==
    /\ ldStage = "fetch" => ldKeys = {} /\ Recorded \cup ldFailed = {}
    /\ ldStage \in {"chains", "best"} => Recorded \cup ldFailed = ldKeys
    /\ ldStage = "chains" => \A o \in ldKeys : o.buyChain \notin DOMAIN ldOfChain
    /\ ldStage = "alert" => ldBest \in Recorded \cup ldFailed
    /\ ldStage = "recording" => ldBest \in Recorded

\* The result at hand is of an earlier scan until the best overall has gone
\* through.
ResultOfScan ==
    /\ ldResult.scan <= ldScan
    /\ ldStage \in {"fetch", "chains", "best", "recording"} => ldResult.scan < ldScan
    /\ ldStage = "alert" /\ ldResult.scan = ldScan => ldResult.opp = ldBest
    /\ \A a \in ldAlerts : a.link.scan = ldScan => a.link.opp = a.opp

DashboardInv == DashboardTypeOK /\ OncePerScan /\ Tried /\ ResultOfScan

\* The loop starts in its invariant.
LEMMA DashboardInit == LdInit => DashboardInv
<1> SUFFICES ASSUME LdInit PROVE DashboardInv
  OBVIOUS
<1>1. ldRecords = <<>> /\ Len(ldRecords) = 0 /\ Recorded = {}
  BY DEF LdInit, Recorded
<1>2. DashboardTypeOK
  BY <1>1 DEF LdInit, DashboardTypeOK, Unbound
<1>3. OncePerScan /\ Tried
  BY <1>1 DEF LdInit, OncePerScan, Tried
<1>4. ResultOfScan
  BY DEF LdInit, ResultOfScan, Unbound
<1> QED
  BY <1>2, <1>3, <1>4 DEF DashboardInv

\* A record of an opportunity that was not tried yet.
LEMMA RecordOnce ==
    ASSUME DashboardTypeOK, OncePerScan, NEW o \in Spreads, o \notin Recorded \cup ldFailed, NEW status \in RecordStatuses,
           ldRecords' = Append(ldRecords, [opp |-> o, status |-> status]), ldFailed' = ldFailed
    PROVE  /\ ldRecords' \in Seq(RecordRows)
           /\ Recorded' = Recorded \cup {o}
           /\ OncePerScan'
<1> DEFINE n == Len(ldRecords) + 1
           record == [opp |-> o, status |-> status]
<1>1. record \in RecordRows /\ record.opp = o
  BY DEF RecordRows
<1>2. ldRecords \in Seq(RecordRows)
  BY DEF DashboardTypeOK
<1> HIDE DEF record
<1>3. /\ ldRecords' \in Seq(RecordRows)
      /\ Len(ldRecords') = n /\ n \in Nat \ {0}
      /\ \A i \in 1 .. Len(ldRecords) : ldRecords'[i] = ldRecords[i]
      /\ ldRecords'[n] = record
  BY <1>1, <1>2 DEF record
<1>4. \A i \in 1 .. n : i = n \/ i \in 1 .. Len(ldRecords)
  BY <1>3
<1>5. Recorded' = Recorded \cup {o}
  BY <1>1, <1>3, <1>4 DEF Recorded
<1>6. \A i \in 1 .. Len(ldRecords) : ldRecords[i].opp # o
  BY DEF Recorded
<1>7. \A i, j \in 1 .. n : ldRecords'[i].opp = ldRecords'[j].opp => i = j
  BY <1>1, <1>3, <1>4, <1>6 DEF OncePerScan
<1> QED
  BY <1>3, <1>5, <1>7 DEF OncePerScan

\* pipeline.process of such an opportunity, whether it records it or raises.
LEMMA ProcessOnce ==
    ASSUME DashboardTypeOK, OncePerScan, NEW o \in Spreads, o \notin Recorded \cup ldFailed, Processed(o)
    PROVE  /\ ldRecords' \in Seq(RecordRows)
           /\ ldFailed' \subseteq Spreads
           /\ Recorded' \cup ldFailed' = Recorded \cup ldFailed \cup {o}
           /\ OncePerScan'
<1>1. CASE ldRecords' = Append(ldRecords, [opp |-> o, status |-> "processed"]) /\ UNCHANGED ldFailed
  <2>1. ldFailed' = ldFailed /\ ldFailed \subseteq Spreads /\ "processed" \in RecordStatuses
    BY <1>1 DEF DashboardTypeOK, RecordStatuses
  <2> QED
    BY <1>1, <2>1, RecordOnce
<1>2. CASE ldFailed' = ldFailed \cup {o} /\ UNCHANGED ldRecords
  BY <1>2 DEF DashboardTypeOK, OncePerScan, Recorded
<1> QED
  BY <1>1, <1>2 DEF Processed

\* The steps that record nothing.
LEMMA LoopKeepsDashboard ==
    ASSUME DashboardInv,
           \/ ShutdownSignal \/ NothingToDo \/ Ranked \/ ChainsDone
           \/ BestAlreadyProcessed \/ CheckOpportunity \/ ServeUntilSignal
    PROVE  DashboardInv'
<1>1. UNCHANGED <<ldScan, ldKeys, ldFailed, ldRecords, ldResult>>
  BY DEF ShutdownSignal, NothingToDo, Ranked, ChainsDone, BestAlreadyProcessed, CheckOpportunity, ServeUntilSignal
<1>2. Recorded' = Recorded
  BY <1>1 DEF Recorded
<1>3. OncePerScan'
  BY <1>1, <1>2 DEF DashboardInv, OncePerScan
<1>4. CASE Ranked
  <2>1. /\ ldStage = "fetch" /\ ldStage' = "chains" /\ ldBest' \in Spreads /\ ldAlerts' = ldAlerts
        /\ \A c \in DOMAIN ldOfChain' : ldOfChain'[c] \in Spreads /\ ldOfChain'[c].buyChain = c
    BY <1>4 DEF Ranked
  <2>2. DashboardTypeOK'
    BY <1>1, <2>1 DEF DashboardInv, DashboardTypeOK
  <2>3. Tried'
    BY <1>1, <1>2, <2>1 DEF DashboardInv, Tried
  <2>4. ResultOfScan'
    BY <1>1, <2>1 DEF DashboardInv, ResultOfScan
  <2> QED
    BY <1>3, <2>2, <2>3, <2>4 DEF DashboardInv
<1>5. CASE ~Ranked
  <2>1. UNCHANGED <<ldBest, ldOfChain>>
    BY <1>5 DEF ShutdownSignal, NothingToDo, ChainsDone, BestAlreadyProcessed, CheckOpportunity, ServeUntilSignal
  <2>2. \/ ldStage' = ldStage
        \/ ldStage' \in {"check", "crashed", "done"}
        \/ ldStage = "chains" /\ ldStage' = "best"
        \/ ldStage = "best" /\ ldBest \in ldKeys /\ ldStage' = "alert"
    BY <1>5 DEF ShutdownSignal, NothingToDo, ChainsDone, BestAlreadyProcessed, CheckOpportunity, ServeUntilSignal
  <2>3. DashboardTypeOK'
    BY <1>1, <2>1, <2>2 DEF DashboardInv, DashboardTypeOK
  <2>4. Tried'
    BY <1>1, <1>2, <2>1, <2>2 DEF DashboardInv, Tried
  <2>5. \/ ldAlerts' \subseteq ldAlerts
        \/ ldStage = "alert" /\ ldAlerts' = {[opp |-> ldBest, link |-> ldResult]}
    BY <1>5 DEF ShutdownSignal, NothingToDo, ChainsDone, BestAlreadyProcessed, CheckOpportunity, ServeUntilSignal
  <2>6. \A a \in ldAlerts' : a.link.scan = ldScan => a.link.opp = a.opp
    BY <2>5 DEF DashboardInv, ResultOfScan
  <2>7. ResultOfScan'
    BY <1>1, <2>1, <2>2, <2>6 DEF DashboardInv, DashboardTypeOK, ResultOfScan
  <2> QED
    BY <1>3, <2>3, <2>4, <2>7 DEF DashboardInv
<1> QED
  BY <1>4, <1>5

\* A new scan forgets what was tried, and the old scan's alerts.
LEMMA NextScanKeeps ==
    ASSUME DashboardInv, NextScan
    PROVE  DashboardInv'
<1>1. /\ ldKeys' = {} /\ ldRecords' = <<>> /\ ldFailed' = {} /\ ldAlerts' = {}
      /\ UNCHANGED <<ldBest, ldOfChain, ldResult>>
      /\ \/ ldStage' = "serving" /\ ldScan' = ldScan
         \/ ldStage' = "fetch" /\ ldScan' = ldScan + 1
  BY DEF NextScan
<1>2. Len(ldRecords') = 0 /\ Recorded' = {}
  BY <1>1 DEF Recorded
<1>3. DashboardTypeOK'
  BY <1>1 DEF DashboardInv, DashboardTypeOK
<1>4. OncePerScan' /\ Tried'
  BY <1>1, <1>2 DEF OncePerScan, Tried
<1>5. ResultOfScan'
  BY <1>1 DEF DashboardInv, DashboardTypeOK, ResultOfScan
<1> QED
  BY <1>3, <1>4, <1>5 DEF DashboardInv

\* The best of a chain has no key yet, for it is the only one of its chain.
LEMMA ProcessChainKeeps ==
    ASSUME DashboardInv, ProcessChain
    PROVE  DashboardInv'
<1>1. PICK c \in DOMAIN ldOfChain :
        /\ Processed(ldOfChain[c])
        /\ ldKeys' = ldKeys \cup {ldOfChain[c]}
        /\ ldOfChain' = [d \in DOMAIN ldOfChain \ {c} |-> ldOfChain[d]]
  BY DEF ProcessChain, KeysWith
<1>2. ldStage = "chains" /\ UNCHANGED <<ldScan, ldStage, ldBest, ldResult, ldAlerts>>
  BY DEF ProcessChain
<1>3. ldOfChain[c] \in Spreads /\ ldOfChain[c].buyChain = c
  BY DEF DashboardInv, DashboardTypeOK
<1>4. ldOfChain[c] \notin Recorded \cup ldFailed
  BY <1>2, <1>3 DEF DashboardInv, Tried
<1>5. /\ ldRecords' \in Seq(RecordRows)
      /\ ldFailed' \subseteq Spreads
      /\ Recorded' \cup ldFailed' = Recorded \cup ldFailed \cup {ldOfChain[c]}
      /\ OncePerScan'
  BY <1>1, <1>3, <1>4, ProcessOnce DEF DashboardInv
<1>6. DashboardTypeOK'
  BY <1>1, <1>2, <1>3, <1>5 DEF DashboardInv, DashboardTypeOK
<1>7. Tried'
  BY <1>1, <1>2, <1>3, <1>5 DEF DashboardInv, Tried
<1>8. ResultOfScan'
  BY <1>2 DEF DashboardInv, ResultOfScan
<1> QED
  BY <1>5, <1>6, <1>7, <1>8 DEF DashboardInv

\* The best overall goes through where it has no key.
LEMMA ProcessBestKeeps ==
    ASSUME DashboardInv, ProcessBest
    PROVE  DashboardInv'
<1>1. /\ ldStage = "best" /\ ldStage' = "alert" /\ ldBest \notin ldKeys /\ Processed(ldBest)
      /\ ldResult' = IF ldBest \in ldFailed' THEN None ELSE [is |-> "result", scan |-> ldScan, opp |-> ldBest]
      /\ UNCHANGED <<ldScan, ldBest, ldOfChain, ldKeys, ldAlerts>>
  BY DEF ProcessBest
<1>2. ldBest \in Spreads /\ ldBest \notin Recorded \cup ldFailed
  BY <1>1 DEF DashboardInv, DashboardTypeOK, Tried
<1>3. /\ ldRecords' \in Seq(RecordRows)
      /\ ldFailed' \subseteq Spreads
      /\ Recorded' \cup ldFailed' = Recorded \cup ldFailed \cup {ldBest}
      /\ OncePerScan'
  BY <1>1, <1>2, ProcessOnce DEF DashboardInv
<1>4. None.scan = 0
  BY DEF None, Unbound
<1>5. ldResult'.scan \in {0, ldScan} /\ (ldResult'.scan = ldScan /\ ldScan # 0 => ldResult'.opp = ldBest)
  BY <1>1, <1>4
<1>6. ldScan \in Nat /\ ldScan # 0
  BY <1>1 DEF DashboardInv, DashboardTypeOK, ResultOfScan
<1>7. DashboardTypeOK'
  BY <1>1, <1>3, <1>5, <1>6 DEF DashboardInv, DashboardTypeOK
<1>8. Tried'
  BY <1>1, <1>3 DEF Tried
<1>9. ResultOfScan'
  BY <1>1, <1>5, <1>6 DEF DashboardInv, ResultOfScan
<1> QED
  BY <1>3, <1>7, <1>8, <1>9 DEF DashboardInv

\* A best across chains is recorded where it has no key, and its row changed
\* afterwards.
LEMMA CrossChainKeeps ==
    ASSUME DashboardInv, RecordCrossChain
    PROVE  DashboardInv'
<1>1. UNCHANGED <<ldScan, ldBest, ldOfChain, ldKeys, ldResult, ldFailed, ldAlerts>>
  BY DEF RecordCrossChain
<1>2. CASE ldStage' = "crashed" /\ UNCHANGED ldRecords
  <2>1. Recorded' = Recorded
    BY <1>2 DEF Recorded
  <2>2. DashboardTypeOK' /\ OncePerScan' /\ Tried'
    BY <1>1, <1>2, <2>1 DEF DashboardInv, DashboardTypeOK, OncePerScan, Tried
  <2>3. ResultOfScan'
    BY <1>1, <1>2 DEF DashboardInv, ResultOfScan
  <2> QED
    BY <2>2, <2>3 DEF DashboardInv
<1>3. CASE /\ ldStage = "best" /\ ldBest \notin ldKeys
           /\ ldRecords' = Append(ldRecords, [opp |-> ldBest, status |-> "detected"]) /\ ldStage' = "recording"
  <2>1. ldBest \in Spreads /\ ldBest \notin Recorded \cup ldFailed /\ "detected" \in RecordStatuses
    BY <1>3 DEF DashboardInv, DashboardTypeOK, Tried, RecordStatuses
  <2>2. /\ ldRecords' \in Seq(RecordRows)
        /\ Recorded' = Recorded \cup {ldBest}
        /\ OncePerScan'
    BY <1>1, <1>3, <2>1, RecordOnce DEF DashboardInv
  <2>3. DashboardTypeOK'
    BY <1>1, <1>3, <2>2 DEF DashboardInv, DashboardTypeOK
  <2>4. Tried'
    BY <1>1, <1>3, <2>2 DEF Tried
  <2>5. ResultOfScan'
    BY <1>1, <1>3 DEF DashboardInv, ResultOfScan
  <2> QED
    BY <2>2, <2>3, <2>4, <2>5 DEF DashboardInv
<1>4. CASE /\ ldStage = "recording" /\ ldStage' = "alert"
           /\ ldRecords' = [ldRecords EXCEPT ![Len(ldRecords)].status = "rejected"]
  <2>1. ldRecords \in Seq(RecordRows) /\ ldBest \in Recorded
    BY <1>4 DEF DashboardInv, DashboardTypeOK, Tried
  <2>2. Len(ldRecords) \in 1 .. Len(ldRecords)
    BY <2>1 DEF Recorded
  <2>3. /\ ldRecords' \in Seq(RecordRows)
        /\ Len(ldRecords') = Len(ldRecords)
        /\ \A i \in 1 .. Len(ldRecords) : ldRecords'[i].opp = ldRecords[i].opp
    <3> DEFINE n == Len(ldRecords)
               row == [ldRecords[n] EXCEPT !.status = "rejected"]
    <3>1. ldRecords[n] \in RecordRows
      BY <2>1, <2>2
    <3>2. row \in RecordRows /\ row.opp = ldRecords[n].opp
      BY <3>1 DEF RecordRows, RecordStatuses
    <3>3. ldRecords' = [ldRecords EXCEPT ![n] = row]
      BY <1>4
    <3> HIDE DEF row
    <3> QED
      BY <2>1, <2>2, <3>2, <3>3
  <2>4. Recorded' = Recorded
    BY <2>3 DEF Recorded
  <2>5. DashboardTypeOK'
    BY <1>1, <1>4, <2>3 DEF DashboardInv, DashboardTypeOK
  <2>6. OncePerScan'
    BY <1>1, <2>3, <2>4 DEF DashboardInv, OncePerScan
  <2>7. Tried'
    BY <1>1, <1>4, <2>1, <2>4 DEF Tried
  <2>8. ResultOfScan'
    BY <1>1, <1>4 DEF DashboardInv, DashboardTypeOK, ResultOfScan
  <2> QED
    BY <2>5, <2>6, <2>7, <2>8 DEF DashboardInv
<1> QED
  BY <1>2, <1>3, <1>4 DEF RecordCrossChain

\* What is recorded once is counted once.
LEMMA CountedOnce ==
    ASSUME DashboardInv, NEW o
    PROVE  TimesRecorded(o) = IF o \in Recorded THEN 1 ELSE 0
<1> DEFINE S == {i \in DOMAIN ldRecords : ldRecords[i].opp = o}
<1>1. DOMAIN ldRecords = 1 .. Len(ldRecords)
  BY DEF DashboardInv, DashboardTypeOK
<1>2. CASE o \in Recorded
  <2>1. PICK i \in 1 .. Len(ldRecords) : ldRecords[i].opp = o
    BY <1>2 DEF Recorded
  <2>2. S = {i}
    BY <1>1, <2>1 DEF DashboardInv, OncePerScan
  <2> QED
    BY <1>2, <2>2, FS_Singleton DEF TimesRecorded
<1>3. CASE o \notin Recorded
  <2>1. S = {}
    BY <1>1, <1>3 DEF Recorded
  <2> QED
    BY <1>3, <2>1, FS_EmptySet DEF TimesRecorded
<1> QED
  BY <1>2, <1>3

\* The loop of run_live_with_dashboard.py, for any chains, opportunities and
\* failures: no opportunity is recorded or tried twice in a scan, the best
\* overall is accounted for when its alert is due, and no alert links to
\* another opportunity of its scan.
THEOREM ProcessedOnceCorrect == Spec => []ProcessedOnce
<1>1. Init => DashboardInv
  BY DashboardInit DEF Init
<1>2. DashboardInv /\ [Next]_componentVars => DashboardInv'
  <2> SUFFICES ASSUME DashboardInv, [LdNext]_ldVars
               PROVE  DashboardInv'
    BY PartSteps
  <2>1. CASE UNCHANGED ldVars
    <3>1. Recorded' = Recorded
      BY <2>1 DEF ldVars, Recorded
    <3>2. DashboardTypeOK' /\ OncePerScan'
      BY <2>1, <3>1 DEF ldVars, DashboardInv, DashboardTypeOK, OncePerScan
    <3>3. Tried' /\ ResultOfScan'
      BY <2>1, <3>1 DEF ldVars, DashboardInv, Tried, ResultOfScan
    <3> QED
      BY <3>2, <3>3 DEF DashboardInv
  <2> QED
    BY <2>1, LoopKeepsDashboard, NextScanKeeps, ProcessChainKeeps, ProcessBestKeeps, CrossChainKeeps DEF LdNext
<1>3. DashboardInv => ProcessedOnce
  <2> SUFFICES ASSUME DashboardInv
               PROVE  ProcessedOnce
    OBVIOUS
  <2>1. \A o \in Spreads : TimesRecorded(o) + (IF o \in ldFailed THEN 1 ELSE 0) <= 1
    BY CountedOnce DEF DashboardInv, OncePerScan
  <2>2. ldStage = "alert" => (TimesRecorded(ldBest) = 1) = (ldBest \notin ldFailed)
    BY CountedOnce DEF DashboardInv, OncePerScan, Tried
  <2> QED
    BY <2>1, <2>2 DEF ProcessedOnce, DashboardInv, ResultOfScan
<1> QED
  BY <1>1, <1>2, <1>3, PTL DEF Spec

-----------------------------------------------------------------------------
(* The atomic swap                                                         *)

\* Instructions in their places, the last of which is known.
InPlace(s, last) ==
    /\ s \in Seq(Given)
    /\ \A i, j \in 1 .. Len(s) : i < j => Turn(s[i]) < Turn(s[j])
    /\ \A i \in 1 .. Len(s) : Turn(s[i]) <= last

LEMMA TurnType ==
    /\ \A x \in Given : Turn(x) \in Nat /\ (x.kind = "budget" => Turn(x) = 4 * x.leg + 1)
    /\ \A leg \in {1, 2} :
          /\ Turn([leg |-> leg, kind |-> "budget"]) = 4 * leg + 1
          /\ Turn([leg |-> leg, kind |-> "setup"]) = 4 * leg + 2
          /\ Turn([leg |-> leg, kind |-> "swap"]) = 4 * leg + 3
          /\ Turn([leg |-> leg, kind |-> "cleanup"]) = 4 * leg + 4
<1>1. DOMAIN Step = {"budget", "setup", "swap", "cleanup"}
  BY DEF Step
<1>2. Step["budget"] = 1 /\ Step["setup"] = 2 /\ Step["swap"] = 3 /\ Step["cleanup"] = 4
  BY DEF Step
<1>3. \A leg, kind : Turn([leg |-> leg, kind |-> kind]) = 4 * leg + Step[kind]
  BY DEF Turn
<1>4. ASSUME NEW leg \in {1, 2}, NEW kind \in DOMAIN Step
      PROVE  /\ Turn([leg |-> leg, kind |-> kind]) \in Nat
             /\ kind = "budget" => Turn([leg |-> leg, kind |-> kind]) = 4 * leg + 1
  BY <1>1, <1>2, <1>3
<1>5. \A x \in Given : \E leg \in {1, 2}, kind \in DOMAIN Step :
          x = [leg |-> leg, kind |-> kind] /\ x.leg = leg /\ x.kind = kind
  BY DEF Given
<1>6. \A x \in Given : Turn(x) \in Nat /\ (x.kind = "budget" => Turn(x) = 4 * x.leg + 1)
  BY <1>4, <1>5
<1> QED
  BY <1>2, <1>3, <1>6

\* An instruction of a later place goes to the end.
LEMMA PlaceNext ==
    ASSUME NEW last \in Nat, NEW s, InPlace(s, last),
           NEW x \in Given, NEW place \in Nat, Turn(x) = place, last < place,
           NEW t, t = <<>> \/ t = <<x>>
    PROVE  /\ InPlace(s \o t, place)
           /\ ToSet(s \o t) = IF t = <<>> THEN ToSet(s) ELSE ToSet(s) \cup {x}
<1>1. s \in Seq(Given) /\ \A i \in 1 .. Len(s) : s[i] \in Given
  BY DEF InPlace
<1>2. \A i \in 1 .. Len(s) : Turn(s[i]) \in Nat
  BY <1>1, TurnType
<1>3. CASE t = <<>>
  <2>1. s \o t = s
    BY <1>1, <1>3
  <2> QED
    BY <1>1, <1>2, <1>3, <2>1 DEF InPlace
<1>4. CASE t = <<x>>
  <2> DEFINE n == Len(s) + 1
  <2>1. s \o t = Append(s, x)
    BY <1>1, <1>4
  <2>2. /\ s \o t \in Seq(Given) /\ Len(s \o t) = n /\ n \in Nat \ {0} /\ DOMAIN (s \o t) = 1 .. n
        /\ \A i \in 1 .. Len(s) : (s \o t)[i] = s[i]
        /\ (s \o t)[n] = x
    BY <1>1, <2>1
  <2>3. \A i \in 1 .. n : i = n \/ i \in 1 .. Len(s)
    BY <2>2
  <2>4. \A i, j \in 1 .. n : i < j => Turn((s \o t)[i]) < Turn((s \o t)[j])
    BY <1>1, <1>2, <2>2, <2>3 DEF InPlace
  <2>5. \A i \in 1 .. n : Turn((s \o t)[i]) <= place
    BY <1>1, <1>2, <2>2, <2>3 DEF InPlace
  <2>6. ToSet(s \o t) = ToSet(s) \cup {x}
    <3>1. DOMAIN s = 1 .. Len(s) /\ n \in 1 .. n /\ 1 .. Len(s) \subseteq 1 .. n
      BY <1>1, <2>2
    <3> QED
      BY <2>2, <2>3, <3>1 DEF ToSet
  <2>7. t # <<>>
    <3>1. <<x>> # <<>>
      OBVIOUS
    <3> QED
      BY <1>4, <3>1
  <2> QED
    BY <2>2, <2>4, <2>5, <2>6, <2>7 DEF InPlace
<1> QED
  BY <1>3, <1>4

RequestFor(leg, amount) == [from |-> leg.from, to |-> leg.to, amount |-> amount, dexes |-> Dexes(leg.venue)]

\* The first leg's quote at hand.
FirstQuoted ==
    \E a, b \in Legs, out \in OutAmounts :
        /\ swLegs = <<a, b>> /\ a.to = b.from
        /\ swAsked = <<RequestFor(a, a.amount)>> /\ swQuoted = <<out>>

\* Both quotes, the second for what the first yields.
BothQuoted ==
    \E a, b \in Legs, out, last \in OutAmounts :
        /\ swLegs = <<a, b>> /\ a.to = b.from
        /\ swAsked = <<RequestFor(a, a.amount), RequestFor(b, out)>> /\ swQuoted = <<out, last>>

AltsOfBoth ==
    ToSet(swTx.alts) = UNION {ToSet(swRaw[i].alts) : i \in 1 .. 2} /\ IsInjective(swTx.alts)

\* The transaction is made of what the answers give, each in its place.
Complete(instructions) == InPlace(instructions, 12) /\ ToSet(instructions) = Wanted

SwapInv ==
    /\ swStage = "plan" => swAsked = <<>>
    /\ swStage = "second" => FirstQuoted
    /\ swStage \in {"fetchA", "fetchB", "built"} => BothQuoted
    /\ swStage = "fetchB" => \E raw \in RawAnswers : swRaw = <<raw>>
    /\ swStage = "built" => Complete(swTx.instructions) /\ AltsOfBoth

\* A part is there when the answer has it.
LEMMA PartInPlace ==
    ASSUME NEW raw \in RawAnswers, NEW leg \in {1, 2}, NEW kind \in DOMAIN Step, swRaw'[leg] = raw,
           NEW s, NEW last \in Nat, InPlace(s, last),
           NEW place \in Nat, Turn([leg |-> leg, kind |-> kind]) = place, last < place
    PROVE  /\ InPlace(s \o Part(leg, kind), place)
           /\ ToSet(s \o Part(leg, kind)) =
                  IF swRaw'[leg][kind] THEN ToSet(s) \cup {[leg |-> leg, kind |-> kind]} ELSE ToSet(s)
<1> DEFINE x == [leg |-> leg, kind |-> kind]
           t == Part(leg, kind)
           Wants == swRaw'[leg][kind]
<1>1. Wants \in BOOLEAN
  BY DEF RawAnswers, Step
<1>2. x \in Given
  BY DEF Given
<1>3. /\ t = <<>> \/ t = <<x>>
      /\ IF Wants THEN t # <<>> ELSE t = <<>>
  <2>1. <<x>> # <<>>
    OBVIOUS
  <2> QED
    BY <2>1 DEF Part
<1>4. Turn(x) = place
  OBVIOUS
<1> HIDE DEF x, t, Wants
<1>5. InPlace(s \o t, place) /\ ToSet(s \o t) = IF t = <<>> THEN ToSet(s) ELSE ToSet(s) \cup {x}
  BY <1>2, <1>3, <1>4, PlaceNext
<1>6. ToSet(s \o t) = IF Wants THEN ToSet(s) \cup {x} ELSE ToSet(s)
  BY <1>1, <1>3, <1>5
<1> QED
  BY <1>5, <1>6 DEF x, t, Wants

\* The instructions are put together part by part, each in its place.
LEMMA InstructionsComplete ==
    ASSUME NEW first \in RawAnswers, NEW second \in RawAnswers, swRaw' = <<first, second>>
    PROVE  InPlace(Instructions, 12) /\ ToSet(Instructions) = Wanted'
<1> DEFINE s0 == <<>>
           s1 == s0 \o Part(1, "budget")
           s2 == s1 \o Part(1, "setup")
           s3 == s2 \o Part(1, "swap")
           s4 == s3 \o Part(1, "cleanup")
           s5 == s4 \o Part(2, "setup")
           s6 == s5 \o Part(2, "swap")
           s7 == s6 \o Part(2, "cleanup")
<1>1. swRaw'[1] = first /\ swRaw'[2] = second /\ 1 \in {1, 2} /\ 2 \in {1, 2}
  OBVIOUS
<1>2. "budget" \in DOMAIN Step /\ "setup" \in DOMAIN Step /\ "swap" \in DOMAIN Step /\ "cleanup" \in DOMAIN Step
  BY DEF Step
<1>3. InPlace(s0, 0) /\ ToSet(s0) = {}
  <2>1. <<>> \in Seq(Given) /\ Len(<<>>) = 0 /\ DOMAIN <<>> = {}
    OBVIOUS
  <2>2. ToSet(<<>>) = {}
    BY <2>1 DEF ToSet
  <2> QED
    BY <2>1, <2>2 DEF InPlace
<1>4. Instructions = s7
  <2>1. Part(1, "budget") \in Seq({[leg |-> 1, kind |-> "budget"]})
    BY DEF Part
  <2>2. <<>> \o Part(1, "budget") = Part(1, "budget")
    BY <2>1
  <2> QED
    BY <2>2 DEF Instructions
<1>5. /\ InPlace(s1, 5)
     /\ ToSet(s1) = IF swRaw'[1]["budget"] THEN ToSet(s0) \cup {[leg |-> 1, kind |-> "budget"]} ELSE ToSet(s0)
  <2>1. Turn([leg |-> 1, kind |-> "budget"]) = 5
    BY TurnType
  <2> HIDE DEF s0
  <2> QED
    BY <1>1, <1>2, <1>3, <2>1, PartInPlace
<1>6. /\ InPlace(s2, 6)
     /\ ToSet(s2) = IF swRaw'[1]["setup"] THEN ToSet(s1) \cup {[leg |-> 1, kind |-> "setup"]} ELSE ToSet(s1)
  <2>1. Turn([leg |-> 1, kind |-> "setup"]) = 6
    BY TurnType
  <2>2. InPlace(s1, 5)
    BY <1>5
  <2> HIDE DEF s1
  <2> QED
    BY <1>1, <1>2, <2>1, <2>2, PartInPlace
<1>7. /\ InPlace(s3, 7)
     /\ ToSet(s3) = IF swRaw'[1]["swap"] THEN ToSet(s2) \cup {[leg |-> 1, kind |-> "swap"]} ELSE ToSet(s2)
  <2>1. Turn([leg |-> 1, kind |-> "swap"]) = 7
    BY TurnType
  <2>2. InPlace(s2, 6)
    BY <1>6
  <2> HIDE DEF s2
  <2> QED
    BY <1>1, <1>2, <2>1, <2>2, PartInPlace
<1>8. /\ InPlace(s4, 8)
     /\ ToSet(s4) = IF swRaw'[1]["cleanup"] THEN ToSet(s3) \cup {[leg |-> 1, kind |-> "cleanup"]} ELSE ToSet(s3)
  <2>1. Turn([leg |-> 1, kind |-> "cleanup"]) = 8
    BY TurnType
  <2>2. InPlace(s3, 7)
    BY <1>7
  <2> HIDE DEF s3
  <2> QED
    BY <1>1, <1>2, <2>1, <2>2, PartInPlace
<1>9. /\ InPlace(s5, 10)
     /\ ToSet(s5) = IF swRaw'[2]["setup"] THEN ToSet(s4) \cup {[leg |-> 2, kind |-> "setup"]} ELSE ToSet(s4)
  <2>1. Turn([leg |-> 2, kind |-> "setup"]) = 10
    BY TurnType
  <2>2. InPlace(s4, 8)
    BY <1>8
  <2> HIDE DEF s4
  <2> QED
    BY <1>1, <1>2, <2>1, <2>2, PartInPlace
<1>10. /\ InPlace(s6, 11)
     /\ ToSet(s6) = IF swRaw'[2]["swap"] THEN ToSet(s5) \cup {[leg |-> 2, kind |-> "swap"]} ELSE ToSet(s5)
  <2>1. Turn([leg |-> 2, kind |-> "swap"]) = 11
    BY TurnType
  <2>2. InPlace(s5, 10)
    BY <1>9
  <2> HIDE DEF s5
  <2> QED
    BY <1>1, <1>2, <2>1, <2>2, PartInPlace
<1>11. /\ InPlace(s7, 12)
     /\ ToSet(s7) = IF swRaw'[2]["cleanup"] THEN ToSet(s6) \cup {[leg |-> 2, kind |-> "cleanup"]} ELSE ToSet(s6)
  <2>1. Turn([leg |-> 2, kind |-> "cleanup"]) = 12
    BY TurnType
  <2>2. InPlace(s6, 11)
    BY <1>10
  <2> HIDE DEF s6
  <2> QED
    BY <1>1, <1>2, <2>1, <2>2, PartInPlace
<1> HIDE DEF s0, s1, s2, s3, s4, s5, s6, s7
<1>12. \A x : x \in Wanted' <=> x \in Given /\ swRaw'[x.leg][x.kind] /\ x # [leg |-> 2, kind |-> "budget"]
  BY DEF Wanted
<1>13. ASSUME NEW x
      PROVE  x \in Wanted' <=>
                 \/ swRaw'[1]["budget"] /\ x = [leg |-> 1, kind |-> "budget"]
                 \/ swRaw'[1]["setup"] /\ x = [leg |-> 1, kind |-> "setup"]
                 \/ swRaw'[1]["swap"] /\ x = [leg |-> 1, kind |-> "swap"]
                 \/ swRaw'[1]["cleanup"] /\ x = [leg |-> 1, kind |-> "cleanup"]
                 \/ swRaw'[2]["setup"] /\ x = [leg |-> 2, kind |-> "setup"]
                 \/ swRaw'[2]["swap"] /\ x = [leg |-> 2, kind |-> "swap"]
                 \/ swRaw'[2]["cleanup"] /\ x = [leg |-> 2, kind |-> "cleanup"]
  <2>1. x \in Given <=> \E leg \in {1, 2}, kind \in {"budget", "setup", "swap", "cleanup"} : x = [leg |-> leg, kind |-> kind]
    BY DEF Given, Step
  <2>2. \A leg, kind : x = [leg |-> leg, kind |-> kind] => x.leg = leg /\ x.kind = kind
    OBVIOUS
  <2>3. CASE x \notin Given
    BY <1>12, <2>1, <2>3
  <2>4. CASE x \in Given
    <3>1. PICK leg \in {1, 2}, kind \in {"budget", "setup", "swap", "cleanup"} :
              x = [leg |-> leg, kind |-> kind] /\ x.leg = leg /\ x.kind = kind
      BY <2>1, <2>2, <2>4
    <3> QED
      BY <1>12, <2>4, <3>1
  <2> QED
    BY <2>3, <2>4
<1>14. ASSUME NEW x
       PROVE  x \in ToSet(s7) <=>
                 \/ swRaw'[1]["budget"] /\ x = [leg |-> 1, kind |-> "budget"]
                 \/ swRaw'[1]["setup"] /\ x = [leg |-> 1, kind |-> "setup"]
                 \/ swRaw'[1]["swap"] /\ x = [leg |-> 1, kind |-> "swap"]
                 \/ swRaw'[1]["cleanup"] /\ x = [leg |-> 1, kind |-> "cleanup"]
                 \/ swRaw'[2]["setup"] /\ x = [leg |-> 2, kind |-> "setup"]
                 \/ swRaw'[2]["swap"] /\ x = [leg |-> 2, kind |-> "swap"]
                 \/ swRaw'[2]["cleanup"] /\ x = [leg |-> 2, kind |-> "cleanup"]
  BY <1>3, <1>5, <1>6, <1>7, <1>8, <1>9, <1>10, <1>11
<1>15. ToSet(s7) = Wanted'
  BY <1>13, <1>14
<1> QED
  BY <1>4, <1>11, <1>15

\* A second element after a first.
LEMMA AppendToOne ==
    ASSUME NEW x, NEW y
    PROVE  Append(<<x>>, y) = <<x, y>>
<1> DEFINE S == {x, y}
<1>1. <<x>> \in Seq(S) /\ Len(<<x>>) = 1 /\ <<x>>[1] = x /\ y \in S
  OBVIOUS
<1>2. <<x, y>> \in Seq(S) /\ Len(<<x, y>>) = 2 /\ <<x, y>>[1] = x /\ <<x, y>>[2] = y
  OBVIOUS
<1> HIDE DEF S
<1>3. /\ Append(<<x>>, y) \in Seq(S) /\ Len(Append(<<x>>, y)) = 2
      /\ Append(<<x>>, y)[1] = x /\ Append(<<x>>, y)[2] = y
  BY <1>1
<1>4. \A i \in 1 .. 2 : Append(<<x>>, y)[i] = <<x, y>>[i]
  <2>1. \A i \in 1 .. 2 : i = 1 \/ i = 2
    OBVIOUS
  <2> QED
    BY <1>2, <1>3, <2>1
<1> QED
  BY <1>2, <1>3, <1>4, SeqEqual

\* Sequences of at most two tables.
LEMMA TablesOf ==
    ASSUME NEW k, NEW l
    PROVE  /\ ToSet(<<>>) = {} /\ ToSet(<<k>>) = {k} /\ ToSet(<<k, l>>) = {k, l}
           /\ IsInjective(<<>>) /\ IsInjective(<<k>>) /\ (k # l => IsInjective(<<k, l>>))
<1>1. ToSet(<<>>) = {} /\ IsInjective(<<>>)
  <2>1. DOMAIN <<>> = {}
    OBVIOUS
  <2> QED
    BY <2>1 DEF ToSet, IsInjective
<1>2. ToSet(<<k>>) = {k} /\ IsInjective(<<k>>)
  <2>1. DOMAIN <<k>> = {1} /\ <<k>>[1] = k
    OBVIOUS
  <2>2. ToSet(<<k>>) = {k}
    BY <2>1 DEF ToSet
  <2>3. IsInjective(<<k>>)
    BY <2>1 DEF IsInjective
  <2> QED
    BY <2>2, <2>3
<1>3. DOMAIN <<k, l>> = {1, 2} /\ <<k, l>>[1] = k /\ <<k, l>>[2] = l
  OBVIOUS
<1>4. ToSet(<<k, l>>) = {k, l}
  BY <1>3 DEF ToSet
<1>5. k # l => IsInjective(<<k, l>>)
  BY <1>3 DEF IsInjective
<1> QED
  BY <1>1, <1>2, <1>4, <1>5

\* Two answers of at most one table each, merged.
LEMMA TablesMerged ==
    ASSUME NEW x, x = <<>> \/ \E l : x = <<l>>,
           NEW y, y = <<>> \/ \E k : y = <<k>>,
           NEW m, m = IF y = <<>> \/ ToSet(y) \subseteq ToSet(x) THEN x ELSE Append(x, y[1])
    PROVE  ToSet(m) = ToSet(x) \cup ToSet(y) /\ IsInjective(m)
<1>0. ToSet(<<>>) = {} /\ IsInjective(<<>>)
  BY TablesOf
<1>1. IsInjective(x)
  BY TablesOf
<1>2. CASE y = <<>>
  BY <1>0, <1>1, <1>2
<1>3. ASSUME NEW k, y = <<k>>
      PROVE  ToSet(m) = ToSet(x) \cup ToSet(y) /\ IsInjective(m)
  <2>1. <<k>> # <<>> /\ <<k>>[1] = k
    OBVIOUS
  <2>2. ToSet(y) = {k} /\ y # <<>> /\ y[1] = k
    BY <1>3, <2>1, TablesOf
  <2>3. CASE k \in ToSet(x)
    BY <1>1, <2>2, <2>3
  <2>4. CASE k \notin ToSet(x)
    <3>1. m = Append(x, k)
      BY <2>2, <2>4
    <3>2. CASE x = <<>>
      <4>1. Append(<<>>, k) = <<k>>
        OBVIOUS
      <4>2. m = <<k>> /\ ToSet(x) = {}
        BY <1>0, <3>1, <3>2, <4>1
      <4>3. ToSet(<<k>>) = {k} /\ IsInjective(<<k>>)
        BY TablesOf
      <4>4. ToSet(m) = {k} /\ IsInjective(m)
        BY <4>2, <4>3
      <4> QED
        BY <2>2, <4>2, <4>4
    <3>3. ASSUME NEW l, x = <<l>>
          PROVE  ToSet(m) = ToSet(x) \cup ToSet(y) /\ IsInjective(m)
      <4>1. Append(<<l>>, k) = <<l, k>>
        BY AppendToOne
      <4>2. ToSet(x) = {l}
        BY <3>3, TablesOf
      <4>3. l # k
        BY <2>4, <4>2
      <4>4. m = <<l, k>>
        BY <3>1, <3>3, <4>1
      <4>5. ToSet(<<l, k>>) = {l, k} /\ IsInjective(<<l, k>>)
        BY <4>3, TablesOf
      <4> QED
        BY <2>2, <4>2, <4>4, <4>5
    <3> QED
      BY <3>2, <3>3
  <2> QED
    BY <2>3, <2>4
<1> QED
  BY <1>2, <1>3

\* The tables of both answers, each once.
LEMMA AltsMerged ==
    ASSUME NEW first \in RawAnswers, NEW second \in RawAnswers,
           swRaw' = <<first, second>>, swTx'.alts = AltKeys
    PROVE  AltsOfBoth'
<1>1. swRaw'[1] = first /\ swRaw'[2] = second
  OBVIOUS
<1>2. UNION {ToSet(swRaw'[i].alts) : i \in 1 .. 2} = ToSet(first.alts) \cup ToSet(second.alts)
  <2>1. 1 .. 2 = {1, 2}
    OBVIOUS
  <2> QED
    BY <1>1, <2>1
<1>3. first.alts = <<>> \/ \E l : first.alts = <<l>>
  BY DEF RawAnswers
<1>4. second.alts = <<>> \/ \E k : second.alts = <<k>>
  BY DEF RawAnswers
<1>5. swTx'.alts = IF second.alts = <<>> \/ ToSet(second.alts) \subseteq ToSet(first.alts) THEN first.alts
                  ELSE Append(first.alts, second.alts[1])
  BY <1>1 DEF AltKeys
<1> QED
  BY <1>2, <1>3, <1>4, <1>5, TablesMerged DEF AltsOfBoth

\* Each step of the builder keeps its invariant.
LEMMA SwapKeeps ==
    ASSUME SwapInv, [SwNext]_swVars
    PROVE  SwapInv'
<1>1. CASE UNCHANGED swVars
  BY <1>1 DEF swVars, SwapInv, FirstQuoted, BothQuoted, AltsOfBoth, Complete, Wanted
<1>2. CASE SwRaises
  BY <1>2 DEF SwRaises, SwapInv
<1>3. ASSUME NEW a \in Legs, NEW b \in Legs, NEW out \in OutAmounts, QuoteFirst(a, b, out)
      PROVE  SwapInv'
  <2>1. swAsked' = Append(<<>>, RequestFor(a, a.amount))
    BY <1>3 DEF QuoteFirst, Ask, SwapInv, RequestFor
  <2>2. \A x : Append(<<>>, x) = <<x>>
    OBVIOUS
  <2>3. swAsked' = <<RequestFor(a, a.amount)>>
    BY <2>1, <2>2
  <2>4. swLegs' = <<a, b>> /\ swQuoted' = <<out>> /\ swStage' = IF a.to = b.from THEN "second" ELSE "raised"
    BY <1>3 DEF QuoteFirst
  <2>5. CASE a.to = b.from
    <3>1. FirstQuoted'
      BY <2>3, <2>4, <2>5 DEF FirstQuoted
    <3> QED
      BY <2>4, <2>5, <3>1 DEF SwapInv
  <2>6. CASE a.to # b.from
    BY <2>4, <2>6 DEF SwapInv
  <2> QED
    BY <2>5, <2>6
<1>4. ASSUME NEW out \in OutAmounts, QuoteSecond(out)
      PROVE  SwapInv'
  <2>1. PICK a \in Legs, b \in Legs, first \in OutAmounts :
            /\ swLegs = <<a, b>> /\ a.to = b.from
            /\ swAsked = <<RequestFor(a, a.amount)>> /\ swQuoted = <<first>>
    BY <1>4 DEF QuoteSecond, SwapInv, FirstQuoted
  <2>2. swAsked' = Append(swAsked, RequestFor(b, first))
    <3>1. swLegs[2] = b /\ swQuoted[1] = first
      BY <2>1
    <3> QED
      BY <1>4, <3>1 DEF QuoteSecond, Ask, ChainedAmount, RequestFor
  <2>3. \A x, y : Append(<<x>>, y) = <<x, y>>
    BY AppendToOne, Zenon
  <2>4. /\ swLegs' = <<a, b>> /\ a.to = b.from /\ swStage' = "fetchA"
        /\ swAsked' = <<RequestFor(a, a.amount), RequestFor(b, first)>> /\ swQuoted' = <<first, out>>
    BY <1>4, <2>1, <2>2, <2>3 DEF QuoteSecond
  <2>5. BothQuoted'
    BY <2>4 DEF BothQuoted
  <2> QED
    BY <2>4, <2>5 DEF SwapInv
<1>5. ASSUME NEW raw \in RawAnswers, FetchFirst(raw)
      PROVE  SwapInv'
  BY <1>5 DEF FetchFirst, SwapInv, BothQuoted
<1>6. ASSUME NEW raw \in RawAnswers, BuildTx(raw)
      PROVE  SwapInv'
  <2>1. BothQuoted'
    BY <1>6 DEF BuildTx, SwapInv, BothQuoted
  <2>2. CASE swStage' = "raised"
    BY <2>2 DEF SwapInv
  <2>3. CASE swStage' = "built"
    <3>1. PICK first \in RawAnswers : swRaw = <<first>>
      BY <1>6 DEF BuildTx, SwapInv
    <3>2. Append(<<first>>, raw) = <<first, raw>>
      BY AppendToOne
    <3>3. swRaw' = <<first, raw>>
      BY <1>6, <3>1, <3>2 DEF BuildTx
    <3>4. swTx' = [instructions |-> Instructions, alts |-> AltKeys]
      BY <1>6, <2>3 DEF BuildTx
    <3>5. swTx'.instructions = Instructions /\ swTx'.alts = AltKeys
      BY <3>4
    <3>6. AltsOfBoth'
      BY <3>3, <3>5, AltsMerged
    <3>7. Complete(swTx.instructions)'
      <4>1. InPlace(Instructions, 12) /\ ToSet(Instructions) = Wanted'
        BY <3>1, <3>3, InstructionsComplete
      <4> QED
        BY <3>5, <4>1 DEF Complete
    <3> QED
      BY <2>1, <2>3, <3>6, <3>7 DEF SwapInv
  <2> QED
    BY <1>6, <2>2, <2>3 DEF BuildTx
<1> QED
  BY <1>1, <1>2, <1>3, <1>4, <1>5, <1>6 DEF SwNext

\* What the invariant says of a built transaction.
LEMMA SwapInvImplies == SwapInv => LegsChain
<1> SUFFICES ASSUME SwapInv, swStage = "built" PROVE LegsChain
  BY DEF LegsChain
<1>1. PICK a \in Legs, b \in Legs, out \in OutAmounts, last \in OutAmounts :
          /\ swLegs = <<a, b>> /\ a.to = b.from
          /\ swAsked = <<RequestFor(a, a.amount), RequestFor(b, out)>> /\ swQuoted = <<out, last>>
  BY DEF SwapInv, BothQuoted
<1>2. /\ swLegs[1] = a /\ swLegs[2] = b /\ swQuoted[1] = out
      /\ swAsked[1] = RequestFor(a, a.amount) /\ swAsked[2] = RequestFor(b, out)
  BY <1>1
<1>3. swAsked[2].amount = swQuoted[1] /\ swAsked[2].from = swAsked[1].to
  BY <1>1, <1>2 DEF RequestFor
<1>4. \A i \in 1 .. 2 : swAsked[i].dexes = Dexes(swLegs[i].venue)
  <2>1. \A i \in 1 .. 2 : i = 1 \/ i = 2
    OBVIOUS
  <2> QED
    BY <1>2, <2>1 DEF RequestFor
<1>5. Complete(swTx.instructions) /\ AltsOfBoth
  BY DEF SwapInv
<1>6. DOMAIN swTx.instructions = 1 .. Len(swTx.instructions)
  BY <1>5 DEF Complete, InPlace
<1> QED
  BY <1>3, <1>4, <1>5, <1>6 DEF LegsChain, Complete, InPlace, AltsOfBoth

\* A transaction that was built chains its legs and leaves out nothing of them:
\* the second leg spends, in the token the first yields, what the first was quoted
\* to yield, each leg is restricted to the DEXes of its own venue, every
\* instruction of either answer but the second compute budget is there once and in
\* its place, and every lookup table of either is named once.
THEOREM LegsChainCorrect == Spec => []LegsChain
<1>1. Init => SwapInv
  BY DEF Init, SwInit, SwapInv
<1>2. SwapInv /\ [Next]_componentVars => SwapInv'
  BY PartSteps, SwapKeeps
<1>3. SwapInv => LegsChain
  BY SwapInvImplies
<1> QED
  BY <1>1, <1>2, <1>3, PTL DEF Spec
=============================================================================
