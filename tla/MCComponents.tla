---------------------------- MODULE MCComponents ----------------------------
(***************************************************************************)
(* Instances of the parts for TLC.                                         *)
(***************************************************************************)
EXTENDS Components

MCBackends == <<"b1", "b2">>
MCExtraPairs == <<"x1", "x2", "x3">>
MCRayPools == <<"r1", "r2", "r3">>
MCOrcaPools == <<"o1", "o2">>
MCBotPairs == <<"USDC/USDT", "SOL/USDC">>

Q(venue, pair, buy, sell, liquidity, fee, included) ==
    [venue |-> venue, pair |-> pair, buyPrice |-> buy, sellPrice |-> sell,
     liquidity |-> liquidity, fee |-> fee, feeIncluded |-> included]

\* Per pair: profitable both with and without its fee, thin and deep pools, an
\* outlier, two venues of one name, and prices at the limit of profit.
MCScanQuotes ==
    {Q("jup", "SOL/USDC", 21, 21, 0, 1, TRUE), Q("jup", "SOL/USDC", 20, 20, 0, 1, TRUE),
     Q("ray", "SOL/USDC", 24, 23, 5, 0, FALSE), Q("ray", "SOL/USDC", 32, 30, 50, 0, FALSE),
     Q("orca", "SOL/USDC", 20, 20, 50, 1, FALSE), Q("orca", "SOL/USDC", 25, 25, 50, 1, TRUE),
     Q("jup", "mSOL/SOL", 22, 22, 0, 0, TRUE), Q("ray", "mSOL/SOL", 25, 24, 50, 1, FALSE),
     Q("orca", "mSOL/SOL", 30, 29, 50, 0, FALSE),
     Q("jup", "USDC/USDT", 20, 20, 0, 0, TRUE), Q("orca", "USDC/USDT", 26, 25, 50, 0, FALSE),
     Q("ray", "USDC/USDT", 42, 41, 50, 0, TRUE)}

\* A trade of 11 is exempt from the lower exposure limit and too much for the
\* higher one; without a minimum profit an offer may pass that has none.
MCOffers ==
    [spread : {0, 1}, profit : {0, 1, 3}, liquidity : 0 .. 2, flags : 0 .. 2, score : {0, 1},
     fee : 0 .. 2, size : {1, 2, 11}, override : {0, 3}]
MCPolicies ==
    [minSpread : {1}, minProfit : {0, 1}, minLiquidity : {2}, maxFlags : {1}, minScore : {1},
     feeShare : {2}, maxPerHour : {1}, maxPerPair : {1, 2}]
MCLoads == [hour : 0 .. 1, exposure : 0 .. 1, mode : {"disabled", "simulation", "enabled"}]

MCLegs ==
    [from : {"USDC"}, to : {"SOL"}, amount : {5}, venue : {"Raydium", "Jupiter"}]
    \cup [from : {"SOL"}, to : {"USDC"}, amount : {1}, venue : {"Orca"}]

\* Every kind of adapter: those that swallow an RPC failure, those that do not,
\* with and without an estimate of liquidity, with and without an address to set.
MCMarkets ==
    {[r1 |-> "uniswap_v3", r2 |-> "quickswap_v3"], [r1 |-> "velodrome_v2", r2 |-> "traderjoe_lb"],
     [r1 |-> "sushi_v3", r2 |-> "balancer_v2"], [r1 |-> "curve", r2 |-> "camelot_v3"]}

MCSpreads ==
    {[buyChain |-> "eth", sellChain |-> "eth", big |-> TRUE, id |-> 1],
     [buyChain |-> "eth", sellChain |-> "eth", big |-> FALSE, id |-> 2],
     [buyChain |-> "arb", sellChain |-> "arb", big |-> TRUE, id |-> 3],
     [buyChain |-> "eth", sellChain |-> "arb", big |-> TRUE, id |-> 4]}

L(pair, chain, mint, dex, volume, searches, known) ==
    [pair |-> pair, chain |-> chain, mint |-> mint, dex |-> dex, volume |-> volume,
     searches |-> searches, known |-> known]

\* Two tiers of one DEX, two mints with one symbol, a pool too small, a pair on
\* one DEX only, pools that two searches show, and more pairs than are kept.
MCListings ==
    {L("W/U", "eth", "w1", "uni", 5, {"W", "U"}, TRUE), L("W/U", "eth", "w1", "uni", 4, {"W"}, FALSE),
     L("W/U", "eth", "fake", "sushi", 3, {"U"}, FALSE), L("W/U", "eth", "w1", "sushi", 1, {"W"}, FALSE),
     L("W/U", "arb", "w3", "uni", 6, {"W"}, FALSE), L("W/U", "arb", "w3", "cam", 2, {"U"}, FALSE),
     L("F/U", "eth", "f1", "uni", 7, {"U"}, TRUE), L("F/U", "eth", "f1", "uni", 8, {"U"}, FALSE),
     L("S/U", "sol", "s1", "ray", 5, {"W", "U"}, FALSE), L("S/U", "sol", "s2", "orca", 6, {"U"}, FALSE),
     L("M/S", "sol", "m1", "ray", 3, {"W"}, FALSE), L("M/S", "sol", "m1", "orca", 9, {"U"}, FALSE),
     L("S/M", "sol", "s1", "orca", 7, {"W"}, FALSE), L("S/M", "sol", "s1", "ray", 2, {"W"}, FALSE)}

MCTokens == <<"W", "U">>
MCTargetOf == [solana |-> {"sol"}, evm |-> {"eth", "arb"}, refresher |-> {"eth", "arb"}, bot |-> {"eth"}]
MCConfigPairs == {[pair |-> "W/U", chain |-> "", mint |-> "", score |-> 1]}
MCRegistered == {[pair |-> "W/U", chain |-> "arb"]}
\* Windows of less than a tick and of more.
MCWindowLengths == <<0, 1>>
\* Every limit is reached, by the second candidate or, of the options, not at all.
MCLimits == [list |-> 1, options |-> 2, known |-> 1, realized |-> 1, hours |-> 1]
MCVenues == [v1 |-> "eth", v2 |-> "arb"]
=============================================================================
