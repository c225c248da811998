----------------------------- MODULE RiskRules -----------------------------
(***************************************************************************)
(* The rule chain of RiskPolicy.evaluate (src/risk/policy.py, rules.py):   *)
(* the rules run in order, and the first that fails gives the reason.      *)
(***************************************************************************)
EXTENDS Integers, Sequences

CONSTANTS
    Offers,     \* opportunities, by the fields the rules read
    Loads,      \* trades of the hour, exposure of the pair, and the policy's mode
    Policies    \* limits; feeShare is 1 / max_fee_profit_ratio

ASSUME RiskAssumption ==
    /\ Offers \subseteq [spread : Int, profit : Int, liquidity : Nat, flags : Nat, score : Int,
                         fee : Nat, size : Nat, override : Nat]
    /\ Loads \subseteq [hour : Nat, exposure : Nat, mode : {"disabled", "simulation", "enabled"}]
    /\ Policies \subseteq [minSpread : Int, minProfit : Int, minLiquidity : Nat, maxFlags : Nat,
                           minScore : Int, feeShare : Nat, maxPerHour : Nat, maxPerPair : Nat]

VARIABLES riskPolicy, riskOffer, riskLoad, riskVerdict

riskVars == <<riskPolicy, riskOffer, riskLoad, riskVerdict>>

RuleOrder == <<"execution_disabled", "below_min_spread", "below_min_profit", "pool_too_thin", "too_many_flags",
               "low_liquidity_score", "fee_too_expensive", "rate_limit_exceeded", "exposure_limit">>

\* A trade of more than ten times the limit is measured in units the limit is not
\* meant for, and gets twice its size; an override replaces either.
Exempt(p, o) == o.override = 0 /\ o.size > 10 * p.maxPerPair
EffectiveMax(p, o) ==
    IF o.override > 0 THEN o.override
    ELSE IF Exempt(p, o) THEN 2 * o.size
    ELSE p.maxPerPair

\* Mutant: the ratio upside down.
FeeTooExpensiveInverted(p, o) == o.profit > 0 /\ o.fee > 0 /\ o.profit * p.feeShare > o.fee

FeeTooExpensive(p, o) == o.profit > 0 /\ o.fee > 0 /\ o.fee * p.feeShare > o.profit

Fails(reason, p, o, l) ==
    CASE reason = "execution_disabled" -> l.mode = "disabled"
      [] reason = "below_min_spread" -> o.spread < p.minSpread
      [] reason = "below_min_profit" -> o.profit < p.minProfit
      [] reason = "pool_too_thin" -> o.liquidity > 0 /\ o.liquidity < p.minLiquidity
      [] reason = "too_many_flags" -> o.flags > p.maxFlags
      [] reason = "low_liquidity_score" -> o.score < p.minScore
      [] reason = "fee_too_expensive" -> FeeTooExpensive(p, o)
      [] reason = "rate_limit_exceeded" -> l.hour >= p.maxPerHour
      [] reason = "exposure_limit" -> l.exposure + o.size > EffectiveMax(p, o)

Verdict(p, o, l) ==
    IF \E i \in DOMAIN RuleOrder : Fails(RuleOrder[i], p, o, l)
    THEN RuleOrder[CHOOSE i \in DOMAIN RuleOrder :
                        Fails(RuleOrder[i], p, o, l) /\ \A j \in 1 .. i - 1 : ~Fails(RuleOrder[j], p, o, l)]
    ELSE IF l.mode = "simulation" THEN "simulation_approved" ELSE "approved"

RiskInit ==
    /\ riskPolicy = CHOOSE p \in Policies : TRUE
    /\ riskOffer = CHOOSE o \in Offers : TRUE
    /\ riskLoad = CHOOSE l \in Loads : TRUE
    /\ riskVerdict = "none"

EvaluateOffer(policy, offer, load) ==
    /\ riskPolicy' = policy
    /\ riskOffer' = offer
    /\ riskLoad' = load
    /\ riskVerdict' = Verdict(policy, offer, load)

RiskNext ==
    /\ riskVerdict = "none"
    /\ \E policy \in Policies, offer \in Offers, load \in Loads : EvaluateOffer(policy, offer, load)

Passes(verdict) == verdict \in {"approved", "simulation_approved"}

\* What is better by one unit in one measure, except where a rule looks away: a
\* pool of unknown depth (0) counts as deep enough, an offer without profit is not
\* asked for its fee, and a trade that is exempt has a limit that grows with it.
Improved(p, o) ==
    {[o EXCEPT !.spread = @ + 1], [o EXCEPT !.score = @ + 1]}
    \cup (IF o.profit > 0 THEN {[o EXCEPT !.profit = @ + 1]} ELSE {})
    \cup (IF o.flags > 0 THEN {[o EXCEPT !.flags = @ - 1]} ELSE {})
    \cup (IF o.fee > 0 THEN {[o EXCEPT !.fee = @ - 1]} ELSE {})
    \cup (IF o.liquidity > 0 THEN {[o EXCEPT !.liquidity = @ + 1]} ELSE {})
    \cup (IF o.size > 0 /\ ~Exempt(p, o) THEN {[o EXCEPT !.size = @ - 1]} ELSE {})

Eased(l) ==
    (IF l.hour > 0 THEN {[l EXCEPT !.hour = @ - 1]} ELSE {})
    \cup (IF l.exposure > 0 THEN {[l EXCEPT !.exposure = @ - 1]} ELSE {})

\* The policies with one limit looser by one unit. A higher maxPerPair may end an
\* exemption, and then is none of them.
Loosened(p, o) ==
    {[p EXCEPT !.minSpread = @ - 1], [p EXCEPT !.minProfit = @ - 1], [p EXCEPT !.maxFlags = @ + 1],
     [p EXCEPT !.minScore = @ - 1], [p EXCEPT !.maxPerHour = @ + 1]}
    \cup (IF p.minLiquidity > 0 THEN {[p EXCEPT !.minLiquidity = @ - 1]} ELSE {})
    \cup (IF p.feeShare > 0 THEN {[p EXCEPT !.feeShare = @ - 1]} ELSE {})
    \cup (IF ~Exempt(p, o) THEN {[p EXCEPT !.maxPerPair = @ + 1]} ELSE {})

\* The rules never work against each other: an offer that passes still passes when
\* its spread, profit, score, flags, fee, depth or size is better, when the hour or
\* the pair carries less, and when a limit is looser, so that tightening a limit
\* lets no more trades through. The exceptions are the three rules that look away
\* in a special case (see Improved and Loosened): there a better measure or, for the
\* exposure of a pair, a looser limit may turn an approval into a rejection.
SaferIsApproved ==
    Passes(riskVerdict) =>
        /\ \A o \in Improved(riskPolicy, riskOffer) : Verdict(riskPolicy, o, riskLoad) = riskVerdict
        /\ \A l \in Eased(riskLoad) : Verdict(riskPolicy, riskOffer, l) = riskVerdict
        /\ \A p \in Loosened(riskPolicy, riskOffer) : Verdict(p, riskOffer, riskLoad) = riskVerdict
=============================================================================
