--------------------------- MODULE OnchainMarket ---------------------------
(***************************************************************************)
(* The EVM market (src/_evm_legacy/src/market/onchain_market.py) with its  *)
(* skip cache (src/data/liquidity_cache.py): one job per DEX and pair in a *)
(* shared pool, a rotation of the chain's endpoint and one retry after an  *)
(* RPC failure, a 15 s deadline, and a time for which a request that       *)
(* brought no quote is left out.                                           *)
(*                                                                         *)
(* One chain.  A DEX adapter is known by how its quote can end, above all  *)
(* by what it does with an RPC failure.  Prices, fee tiers (whose cache    *)
(* only saves calls) and addresses are left out; of the liquidity estimate *)
(* its cache is kept, one entry for each request.  Time passes between     *)
(* scans; one tick is short against every TTL but the smallest.            *)
(***************************************************************************)
EXTENDS Naturals

CONSTANTS
    Requests,       \* DEX and pair
    Markets,        \* the DEX types the requests may have, as functions
    WithFallback,   \* those on a chain with a bridged dollar
    RpcUrls,        \* len(_rpc_urls[chain])
    ShortTtl, LongTtl, ThinTtl, DeepTtl

ASSUME OnchainAssumption ==
    /\ WithFallback \subseteq Requests
    /\ Markets \subseteq [Requests -> {"uniswap_v3", "sushi_v3", "pancakeswap_v3", "balancer_v2", "quickswap_v3",
                                        "camelot_v3", "velodrome_v2", "aerodrome", "curve", "traderjoe_lb"}]
    /\ RpcUrls \in Nat \ {0}
    /\ {ShortTtl, LongTtl, ThinTtl, DeepTtl} \subseteq Nat \ {0}
    /\ ShortTtl < LongTtl /\ ThinTtl < DeepTtl /\ DeepTtl <= LongTtl

VARIABLES
    omDex,      \* dex_type of each request
    omStage,    \* "idle", or "waiting" for the futures
    omTask,     \* what became of each request's job in this scan
    omLate,     \* jobs of earlier scans that are still running
    omIndex,    \* _rpc_index[chain]
    omCache,    \* LiquidityCache: age and ttl; ttl 0 for no entry
    omTvl,      \* _tvl_cache: age and estimate
    omUsedTvl,  \* the estimate in the request's quote of this scan, and its age
    omAge,      \* history: ticks since the request was last asked
    omEnd       \* history: what it came to then

omVars == <<omDex, omStage, omTask, omLate, omIndex, omCache, omTvl, omUsedTvl, omAge, omEnd>>

Running == {"first", "retry", "fallback", "estimate"}
Estimates == {"unknown", "thin", "deep"}
TvlTtl(estimate) == IF estimate = "deep" THEN DeepTtl ELSE ThinTtl
Oldest == LongTtl               \* ages beyond it are not told apart

NoEstimate == [age |-> 0, estimate |-> "unknown"]

OmInit ==
    /\ omDex \in Markets
    /\ omStage = "idle"
    /\ omTask = [r \in Requests |-> "skipped"]
    /\ omLate = {}
    /\ omIndex = 0
    /\ omCache = [r \in Requests |-> [age |-> 0, ttl |-> 0]]
    /\ omTvl = [r \in Requests |-> NoEstimate]
    /\ omUsedTvl = [r \in Requests |-> NoEstimate]
    /\ omAge = [r \in Requests |-> 0]
    /\ omEnd = [r \in Requests |-> "none"]

Older(age) == IF age < Oldest THEN age + 1 ELSE age

OmTick ==
    /\ omStage = "idle"
    /\ omCache' = [r \in Requests |-> IF omCache[r].ttl = 0 THEN omCache[r] ELSE [omCache[r] EXCEPT !.age = Older(@)]]
    /\ omTvl' = [r \in Requests |-> IF omTvl[r].estimate = "unknown" THEN omTvl[r] ELSE [omTvl[r] EXCEPT !.age = Older(@)]]
    /\ omAge' = [r \in Requests |-> Older(omAge[r])]
    /\ omUsedTvl' = [r \in Requests |-> NoEstimate]
    /\ UNCHANGED <<omDex, omStage, omTask, omLate, omIndex, omEnd>>

ShouldSkip(r) == omCache[r].ttl > 0 /\ omCache[r].age < omCache[r].ttl

\* get_quotes: the requests that are not skipped go to the pool. An entry that
\* has expired is removed. With everything skipped the call is over.
BeginQuotes ==
    /\ omStage = "idle"
    /\ omStage' = IF \A r \in Requests : ShouldSkip(r) THEN "idle" ELSE "waiting"
    /\ omTask' = [r \in Requests |-> IF ShouldSkip(r) THEN "skipped" ELSE "first"]
    /\ omCache' = [r \in Requests |-> IF ShouldSkip(r) THEN omCache[r] ELSE [age |-> 0, ttl |-> 0]]
    /\ omAge' = [r \in Requests |-> IF ShouldSkip(r) THEN omAge[r] ELSE 0]
    /\ omUsedTvl' = [r \in Requests |-> NoEstimate]
    /\ UNCHANGED <<omDex, omLate, omIndex, omTvl, omEnd>>

RotateRpc == omIndex' = (omIndex + 1) % RpcUrls

\* How an adapter's quote can end.  "zero" is an error whose text says so,
\* "unconfigured" the missing address of a contract or pool, and "rpc" a failed
\* call that the adapter does not swallow.
\* _try_fee_tiers: the best of the tiers that answer, a failed call being none.
TierSweep == {"price", "zero"}
QuoteUniswapV3 == TierSweep
QuoteSushiV3 == TierSweep \cup {"unconfigured"}
QuotePancakeswapV3 == TierSweep \cup {"unconfigured"}
\* A vault that pays nothing out is an error with another text.
QuoteBalancerV2 == {"price", "invalid", "unconfigured", "rpc"}
QuoteQuickswapV3 == {"price", "zero", "unconfigured", "rpc"}
\* Two interfaces are tried, and a failure of either is silent.
QuoteCamelotV3 == {"price", "zero", "unconfigured"}
\* Both kinds of pool, and the bridged dollar, likewise.
QuoteVelodrome == {"price", "zero", "unconfigured"}
QuoteCurve == {"price", "zero", "unconfigured", "rpc"}
QuoteTraderjoeLb == {"price", "zero", "unconfigured", "rpc"}

\* _validate_price may refuse what the adapter returned.
ValidatePrice(outcomes) == outcomes \cup {"invalid"}

QuoteOutcomes(r) ==
    ValidatePrice(CASE omDex[r] = "uniswap_v3" -> QuoteUniswapV3
                    [] omDex[r] = "sushi_v3" -> QuoteSushiV3
                    [] omDex[r] = "pancakeswap_v3" -> QuotePancakeswapV3
                    [] omDex[r] = "balancer_v2" -> QuoteBalancerV2
                    [] omDex[r] = "quickswap_v3" -> QuoteQuickswapV3
                    [] omDex[r] = "camelot_v3" -> QuoteCamelotV3
                    [] omDex[r] \in {"velodrome_v2", "aerodrome"} -> QuoteVelodrome
                    [] omDex[r] = "curve" -> QuoteCurve
                    [] omDex[r] = "traderjoe_lb" -> QuoteTraderjoeLb)

\* The text of an RPC error tells whether it is known to be transient.
ErrorOf(outcome) == IF outcome = "rpc" THEN {"transient", "lasting"} ELSE {"lasting"}

DoQuote(r) ==
    /\ omTask[r] \in {"first", "retry", "fallback"}
    /\ \E outcome \in QuoteOutcomes(r) :
          CASE outcome = "price" ->
                 omTask' = [omTask EXCEPT ![r] = "estimate"] /\ UNCHANGED omIndex
            [] outcome = "zero" /\ omTask[r] = "first" /\ r \in WithFallback ->
                 omTask' = [omTask EXCEPT ![r] = "fallback"] /\ UNCHANGED omIndex
            [] outcome = "rpc" /\ omTask[r] = "first" ->
                 omTask' = [omTask EXCEPT ![r] = "retry"] /\ RotateRpc
            [] OTHER ->
                 /\ \E end \in ErrorOf(outcome) : omTask' = [omTask EXCEPT ![r] = end]
                 /\ UNCHANGED omIndex
    /\ UNCHANGED <<omDex, omStage, omLate, omCache, omTvl, omUsedTvl, omAge, omEnd>>

TvlFresh(r) == omTvl[r].estimate # "unknown" /\ omTvl[r].age < TvlTtl(omTvl[r].estimate)

\* The types whose liquidity is estimated; another's is unknown.
Estimated(r) == omDex[r] \in {"uniswap_v3", "sushi_v3", "pancakeswap_v3", "quickswap_v3"}

\* A second quote, of a hundredth of the amount: without one there is no
\* estimate, and without any impact the pool is taken for deep.
QuoteSmallAmount(r) == IF Estimated(r) THEN Estimates ELSE {"unknown"}

\* _estimate_liquidity_usd: the cached estimate, a new one, or unknown.
EstimateLiquidity(r) ==
    /\ omTask[r] = "estimate"
    /\ omTask' = [omTask EXCEPT ![r] = "quote"]
    /\ IF TvlFresh(r)
       THEN omUsedTvl' = [omUsedTvl EXCEPT ![r] = omTvl[r]] /\ UNCHANGED omTvl
       ELSE \E estimate \in QuoteSmallAmount(r) :
               /\ omUsedTvl' = [omUsedTvl EXCEPT ![r] = [age |-> 0, estimate |-> estimate]]
               /\ omTvl' = IF estimate = "unknown" THEN omTvl ELSE [omTvl EXCEPT ![r] = [age |-> 0, estimate |-> estimate]]
    /\ UNCHANGED <<omDex, omStage, omLate, omIndex, omCache, omAge, omEnd>>

\* Mutant: a deadline or a transient error counts like any other.
TtlOfLong(end) == LongTtl

TtlOf(end) == IF end \in {"timeout", "transient"} THEN ShortTtl ELSE LongTtl

\* mark_skip, unless there is an entry that has not expired.
Marked(r, end) ==
    IF ShouldSkip(r) \/ end \notin {"lasting", "transient", "timeout"} THEN omCache[r]
    ELSE [age |-> 0, ttl |-> TtlOf(end)]

\* All futures are done, or the 15 s are over: what still runs is abandoned, but
\* its thread goes on.
EndQuotes ==
    /\ omStage = "waiting"
    /\ omStage' = "idle"
    /\ LET ended == [r \in Requests |-> IF omTask[r] \in Running THEN "timeout" ELSE omTask[r]]
       IN /\ omTask' = ended
          /\ omLate' = omLate \cup {r \in Requests : omTask[r] \in Running}
          /\ omCache' = [r \in Requests |-> Marked(r, ended[r])]
          /\ omEnd' = [r \in Requests |-> IF ended[r] = "skipped" THEN omEnd[r] ELSE ended[r]]
    /\ UNCHANGED <<omDex, omIndex, omTvl, omUsedTvl, omAge>>

\* An abandoned job goes on, rotates the endpoint under the jobs of a later scan,
\* or leaves its estimate in the cache.
LateJob(r) ==
    /\ r \in omLate
    /\ \/ omLate' = omLate \ {r} /\ UNCHANGED <<omIndex, omTvl>>
       \/ "rpc" \in QuoteOutcomes(r) /\ RotateRpc /\ UNCHANGED <<omLate, omTvl>>
       \/ /\ omLate' = omLate \ {r}
          /\ \E estimate \in QuoteSmallAmount(r) \ {"unknown"} : omTvl' = [omTvl EXCEPT ![r] = [age |-> 0, estimate |-> estimate]]
          /\ UNCHANGED omIndex
    /\ UNCHANGED <<omDex, omStage, omTask, omCache, omUsedTvl, omAge, omEnd>>

OmNext ==
    \/ OmTick \/ BeginQuotes \/ EndQuotes
    \/ \E r \in Requests : DoQuote(r) \/ EstimateLiquidity(r) \/ LateJob(r)

\* No request is left out for longer than its last outcome warrants: after a quote
\* not at all, after a deadline or a transient error for the short time, else for
\* the long; and a quote's liquidity is never older than its size allows, also
\* when an abandoned job wrote it.
RecheckedWithinTtl ==
    \A r \in Requests :
        /\ omTask[r] = "skipped" /\ omEnd[r] # "none" /\ ShouldSkip(r) =>
              omEnd[r] # "quote" /\ omAge[r] < (IF omEnd[r] = "lasting" THEN LongTtl ELSE ShortTtl)
        /\ omTask[r] = "quote" /\ omUsedTvl[r].estimate # "unknown" =>
              omUsedTvl[r].age < TvlTtl(omUsedTvl[r].estimate)
=============================================================================
