----------------------------- MODULE ArbScanner -----------------------------
(***************************************************************************)
(* From quotes to the next poll: the strategy's evaluation of a route      *)
(* (src/strategy/arb_strategy.py), the scanner's filters and scan records  *)
(* (src/strategy/scanner.py), the loop that drains and observes them       *)
(* (src/run_event_driven.py) and the adaptive poll interval                *)
(* (src/core/adaptive_poll.py).                                            *)
(*                                                                         *)
(* Prices, costs and limits are integers in units of 1/Divisor; profits    *)
(* are compared exactly, as fractions.  Trades have size 1.  The order in  *)
(* which opportunities are ranked and the wording of records are left out. *)
(***************************************************************************)
EXTENDS Integers, Sequences, FiniteSets, FiniteSetsExt

CONSTANTS
    ScanQuotes,     \* the quotes a scan may receive
    QuotesPerScan,  \* bound: quotes of one scan
    Divisor,        \* BPS_DIVISOR
    Slippage, PriorityFee, MinProfit, NearHit, \* near_hit_ratio * min_profit_base
    MinLiquidity, MaxDeviation,
    Window          \* AdaptivePoll.window

\* What BotConfig.validate demands, and quotes as the market sources make them:
\* none sells above what it buys at.
ASSUME ScannerAssumption ==
    /\ Divisor \in Nat \ {0} /\ Window \in Nat \ {0}
    /\ {Slippage, PriorityFee, MinProfit, NearHit, MinLiquidity, MaxDeviation} \subseteq Nat
    /\ IsFiniteSet(ScanQuotes)
    /\ \A q \in ScanQuotes :
          /\ q.sellPrice \in Nat /\ q.buyPrice \in Nat /\ q.sellPrice <= q.buyPrice
          /\ q.liquidity \in Nat /\ q.fee \in 0 .. Divisor - 1

VARIABLES
    scanQuotes, \* the quotes of this scan
    scanStage,
    solPrice,   \* _sol_price_usd
    found,      \* result.opportunities
    pendingRecords, \* _pending_scan_records
    records,    \* what the loop drained
    hits        \* AdaptivePoll._hits

scanVars == <<scanQuotes, scanStage, solPrice, found, pendingRecords, records, hits>>

Routes == [buy : ScanQuotes, sell : ScanQuotes]
SolBase == {"SOL/USDC"}         \* base SOL, quoted in dollars; these also set the price of SOL
SolQuote == {"mSOL/SOL"}        \* quoted in SOL

ScanInit ==
    /\ scanQuotes = {}
    /\ scanStage = "fetch"
    /\ solPrice = 0
    /\ found = {}
    /\ pendingRecords = {}
    /\ records = {}
    /\ hits = <<>>

-----------------------------------------------------------------------------
(* ArbitrageStrategy                                                       *)

\* update_sol_price: the middle of the sorted prices, the upper one of two.
SolPrice(quotes) ==
    LET Sol == {q \in quotes : q.pair \in SolBase /\ q.buyPrice > 0}
        Below(x) == Cardinality({q \in Sol : q.buyPrice < x})
        UpTo(x) == Cardinality({q \in Sol : q.buyPrice <= x})
    IN IF Sol = {} THEN solPrice
       ELSE CHOOSE x \in {q.buyPrice : q \in Sol} :
                Below(x) <= Cardinality(Sol) \div 2 /\ UpTo(x) > Cardinality(Sol) \div 2

Lesser(a, b) == IF a <= b THEN a ELSE b

Magnitude(x) == IF x < 0 THEN -x ELSE x

\* Mutant: the spread is taken without its sign.
NetQuoteUnsigned(route) == <<Magnitude(route.sell.sellPrice - route.buy.buyPrice), 1>>

\* net_profit_quote, as a fraction: proceeds after the venue's fee less the cost
\* with the venue's fee and the slippage, which grows with the share of the
\* shallower pool. A fee that the quote includes is not counted again.
NetQuote(route) ==
    LET b == route.buy
        s == route.sell
        liquidity == Lesser(b.liquidity, s.liquidity)
        L == IF liquidity > 0 THEN liquidity ELSE 1
        depth == IF liquidity > 0 THEN L + b.buyPrice ELSE L     \* L * (1 + impact ratio)
        buyFee == IF b.feeIncluded THEN 0 ELSE b.fee
        sellFee == IF s.feeIncluded THEN 0 ELSE s.fee
        K == Divisor - buyFee
    IN <<  s.sellPrice * (Divisor - sellFee) * K * L
           - b.buyPrice * Divisor * Divisor * L
           - b.buyPrice * Slippage * depth * K,
           Divisor * K * L >>

\* Twice what one SOL is worth in the quote's currency, in the code's order of
\* preference.
TwiceConversion(route, sol) ==
    CASE route.buy.pair \in SolQuote -> 2 * Divisor
      [] route.buy.pair \in SolBase -> route.buy.buyPrice + route.sell.sellPrice
      [] OTHER -> IF sol > 0 THEN 2 * sol ELSE route.buy.buyPrice + route.sell.sellPrice

\* net_profit_base - profit, times a positive factor.
NetBeyond(route, profit, sol) ==
    NetQuote(route)[1] * 2 * Divisor - (profit + PriorityFee) * TwiceConversion(route, sol) * NetQuote(route)[2]

-----------------------------------------------------------------------------
(* OpportunityScanner                                                      *)

TwiceMid(q) == q.buyPrice + q.sellPrice

\* Four times the median of the mid prices, of at least two quotes.
FourMedian(quotes) ==
    LET n == Cardinality(quotes)
        Mid(k) == CHOOSE m \in {TwiceMid(q) : q \in quotes} :
                    /\ Cardinality({q \in quotes : TwiceMid(q) < m}) < k
                    /\ Cardinality({q \in quotes : TwiceMid(q) <= m}) >= k
    IN Mid((n + 1) \div 2) + Mid(n \div 2 + 1)

Deviates(q, quotes, limit) ==
    LET SamePair == {r \in quotes : r.pair = q.pair}
        median == FourMedian(SamePair)
    IN /\ Cardinality(SamePair) >= 2
       /\ median # 0
       /\ Magnitude(2 * TwiceMid(q) - median) * Divisor > limit * median

\* Below the minimum, or known on one side only.
LowLiquidity(route) ==
    LET least == Lesser(route.buy.liquidity, route.sell.liquidity)
    IN IF least > 0 THEN least < MinLiquidity ELSE route.buy.liquidity + route.sell.liquidity > 0

Evaluated(quotes) ==
    {r \in [buy : quotes, sell : quotes] : r.buy.pair = r.sell.pair /\ r.buy.venue # r.sell.venue}

\* The price of SOL is brought up to date before any route is evaluated.
Reason(route, quotes) ==
    IF NetBeyond(route, MinProfit, SolPrice(quotes)) <= 0 THEN "unprofitable"
    ELSE IF LowLiquidity(route) THEN "low_liquidity"
    ELSE IF \E q \in {route.buy, route.sell} : Deviates(q, quotes, MaxDeviation) THEN "price_deviation"
    ELSE "passed"

\* What get_quotes may return, up to the bound.
QuoteSets == UNION {kSubset(n, ScanQuotes) : n \in 0 .. QuotesPerScan}

\* get_quotes has returned.
FetchQuotes ==
    /\ scanStage = "fetch"
    /\ scanStage' = "scan"
    /\ scanQuotes' \in QuoteSets
    /\ UNCHANGED <<solPrice, found, pendingRecords, records, hits>>

\* scan_and_rank. With fewer than two quotes it returns early, and leaves the
\* records and the price of SOL as they are. The alert filter may drop what
\* carries warning flags.
ScanAndRank ==
    /\ scanStage = "scan"
    /\ scanStage' = "drain"
    /\ IF Cardinality(scanQuotes) < 2
       THEN found' = {} /\ UNCHANGED <<pendingRecords, solPrice>>
       ELSE LET passed == {r \in Evaluated(scanQuotes) : Reason(r, scanQuotes) = "passed"}
            IN /\ pendingRecords' = {[route |-> r, reason |-> Reason(r, scanQuotes)] : r \in Evaluated(scanQuotes)}
               /\ found' \in SUBSET passed
               /\ solPrice' = SolPrice(scanQuotes)
    /\ UNCHANGED <<scanQuotes, records, hits>>

\* Mutant: the records stay with the scanner.
DrainKeeping ==
    /\ scanStage = "drain"
    /\ scanStage' = "observe"
    /\ records' = pendingRecords
    /\ UNCHANGED <<scanQuotes, solPrice, found, pendingRecords, hits>>

DrainScanRecords ==
    /\ scanStage = "drain"
    /\ scanStage' = "observe"
    /\ records' = pendingRecords
    /\ pendingRecords' = {}
    /\ UNCHANGED <<scanQuotes, solPrice, found, hits>>

\* best_net starts at 0 and takes the largest net_profit of the records, which
\* the scanner writes as 0 for every route the strategy turned down.
NearHitObserved ==
    \/ MinProfit <= 0 \/ NearHit <= 0
    \/ \E r \in records : r.reason # "unprofitable" /\ NetBeyond(r.route, NearHit, solPrice) >= 0

\* adaptive.observe: the window keeps the last scans.
Observe ==
    /\ scanStage = "observe"
    /\ scanStage' = "fetch"
    /\ hits' = LET h == Append(hits, NearHitObserved) IN IF Len(h) > Window THEN Tail(h) ELSE h
    /\ UNCHANGED <<scanQuotes, solPrice, found, pendingRecords, records>>

CurrentInterval == IF \E i \in DOMAIN hits : hits[i] THEN "fast" ELSE "slow"

ScanNext == FetchQuotes \/ ScanAndRank \/ DrainScanRecords \/ Observe

\* No scan finds a route and its reverse profitable: every conversion, fee and
\* slippage of the arithmetic, and the reference price of SOL from an older
\* scan, takes off both directions.
NotBothWays ==
    \A r \in found : [buy |-> r.sell, sell |-> r.buy] \notin found

\* What is saved as a scan's history are the routes of that very scan, each with
\* one verdict, and none of an earlier one; what is queued has passed in it.
RecordsOfThisScan ==
    scanStage = "observe" =>
        /\ {r.route : r \in records} = IF Cardinality(scanQuotes) < 2 THEN {} ELSE Evaluated(scanQuotes)
        /\ Cardinality(records) = Cardinality({r.route : r \in records})
        /\ \A r \in found : [route |-> r, reason |-> "passed"] \in records

\* adaptive_poll.py:65: the best net profit is the max across all candidates
\* evaluated, near-misses alike, and line 52: a scan is a near-hit when it is at
\* least ratio * min_profit_base. After such a scan the loop polls fast.
NearMissSpeedsUp ==
    scanStage = "fetch" /\ hits # <<>> /\ Cardinality(scanQuotes) >= 2 =>
        \A r \in Evaluated(scanQuotes) : NetBeyond(r, NearHit, solPrice) >= 0 => CurrentInterval = "fast"
=============================================================================
