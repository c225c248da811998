--------------------------- MODULE PairDiscovery ---------------------------
(***************************************************************************)
(* Finding pairs on DexScreener: discover_solana_pairs (src/discovery/     *)
(* dexscreener.py), discover_best_pairs and the PairRefresher that repeats *)
(* it (_evm_legacy/src/registry), discover_pairs_for_bot (_evm_legacy/src/ *)
(* tools/pair_scanner.py), and the coins LiveMarket prices a found pair    *)
(* with (_evm_legacy/src/market/live_market.py).  One search per token,    *)
(* whose failure is skipped; then the pools are grouped by the symbols of  *)
(* their tokens, whatever the addresses, ranked, and cut to the best.      *)
(***************************************************************************)
EXTENDS Naturals, Sequences, FiniteSets, FiniteSetsExt

CONSTANTS
    Listings,    \* pools: [pair, chain, mint, dex, volume, searches, known]
    Tokens,      \* the searches, in turn
    TargetOf,    \* kind of discovery -> chains it keeps
    BluePairs,
    MinVolume,
    MinDexes,
    MaxResults,
    ConfigPairs, \* the configuration's pairs: [pair, chain, mint, score], no chain
    Registered,  \* the token registry: [pair, chain]
    Venues       \* venue -> chain

ASSUME DiscoveryAssumption ==
    /\ {MinVolume, MinDexes, MaxResults} \subseteq Nat /\ MinVolume > 0
    /\ IsFiniteSet(Listings) /\ \A l \in Listings : l.volume \in Nat
    \* ties are broken by the order of the answers, which is left open
    /\ \A l, k \in Listings : l.pair = k.pair /\ l.volume = k.volume => l = k
    /\ \A c, d \in TargetOf["bot"] : c = d  \* discover_pairs_for_bot declares one chain
    /\ \A p \in ConfigPairs, v \in DOMAIN Venues : p.chain # Venues[v]

VARIABLES
    dsKind,     \* "solana", "evm", "bot", "refresher"
    dsStage,    \* "new", "search", "pools", "rank", "keep", "persist", "waiting", "quote", "done"
    dsNext,     \* the next search
    dsFound,    \* all_pairs: listing -> times it was entered
    dsResult,   \* ranked pairs: [pair, chain, mint, score]
    dsQuotes,   \* LiveMarket's: [pair, venue, coin]
    rfMemory,   \* _pairs
    rfSnapshot, \* the repository's discovered pairs
    rfSaved,    \* history: the last write of a snapshot succeeded
    rfDue,      \* an interval has passed since _last_refresh
    rfRunning   \* _running

rfVars == <<rfMemory, rfSnapshot, rfSaved, rfDue, rfRunning>>
dsVars == <<dsKind, dsStage, dsNext, dsFound, dsResult, dsQuotes, rfVars>>

NotFound == [l \in Listings |-> 0]

DsInit ==
    /\ dsKind \in {"solana", "evm", "bot", "refresher"}
    /\ dsStage = IF dsKind = "refresher" THEN "new" ELSE "search"
    /\ dsNext = 1 /\ dsFound = NotFound /\ dsResult = {} /\ dsQuotes = {}
    /\ rfMemory = {} /\ rfSnapshot = {} /\ rfSaved = TRUE /\ rfDue = FALSE /\ rfRunning = TRUE

\* An answer after the filters on chain, volume and liquidity (the bot's has
\* none on liquidity).
Qualified == {l \in Listings : l.chain \in TargetOf[dsKind] /\ l.volume >= MinVolume}

SearchAnswer(token) == {l \in Qualified : token \in l.searches}

\* find_cross_dex_pairs: pairs that one answer shows on two DEXes.
CrossDex(answer) ==
    {l \in answer : \E k \in answer : k.pair = l.pair /\ k.dex # l.dex}

\* Mutant: a pool entered again at each search that shows it.
EnteredTwice(l) == dsFound[l] + 1

\* The bot's merge skips a pool address that is there, the others do not.
Entered(l) == IF dsKind = "bot" THEN 1 ELSE dsFound[l] + 1

Enter(pools) == dsFound' = [l \in Listings |-> IF l \in pools THEN Entered(l) ELSE dsFound[l]]

\* A malformed entry ends a search halfway where the try is around the loop.
Search ==
    /\ dsStage = "search" /\ dsNext <= Len(Tokens)
    /\ LET answer == SearchAnswer(Tokens[dsNext])
       IN  \/ dsKind = "solana" /\ Enter(answer)
           \/ dsKind = "bot" /\ Enter(CrossDex(answer))
           \/ dsKind \in {"evm", "refresher"} /\ \E part \in SUBSET answer : Enter(part)
           \/ Enter({})
    /\ dsNext' = dsNext + 1
    /\ dsStage' = IF dsNext < Len(Tokens) THEN "search" ELSE IF dsKind = "bot" THEN "pools" ELSE "rank"
    /\ UNCHANGED <<dsKind, dsResult, dsQuotes, rfVars>>

\* The bot's well-known pools, which need no second DEX.
SearchKnownPools ==
    /\ dsStage = "pools"
    /\ Enter({l \in Qualified : l.known}) \/ Enter({})
    /\ dsStage' = "rank"
    /\ UNCHANGED <<dsKind, dsNext, dsResult, dsQuotes, rfVars>>

Of(found, pair, chain) == {l \in Listings : found[l] > 0 /\ l.pair = pair /\ l.chain = chain}

DexesOf(pools) == {l.dex : l \in pools}

\* The best pool of a DEX counts, whatever else it lists; the bot adds all up.
Volume(found, pools) ==
    IF dsKind = "bot"
    THEN MapThenSumSet(LAMBDA l : found[l] * l.volume, pools)
    ELSE MapThenSumSet(LAMBDA d : Max({l.volume : l \in {k \in pools : k.dex = d}}), DexesOf(pools))

\* score_pair, arbitrage_score; the bot sorts by volume.
Score(found, pools) ==
    IF dsKind = "bot" THEN Volume(found, pools)
    ELSE Volume(found, pools) * Cardinality(DexesOf(pools))
         * (IF \E l \in pools : l.pair \in BluePairs THEN 2 ELSE 1)

Enough(pools) == pools # {} /\ (dsKind = "bot" \/ Cardinality(DexesOf(pools)) >= MinDexes)

\* The addresses are those of the pool with the highest volume.
BestOf(pools) == CHOOSE l \in pools : \A k \in pools : k.volume <= l.volume

RankedPairs ==
    LET pools(l) == Of(dsFound, l.pair, l.chain)
    IN  {[pair |-> l.pair, chain |-> l.chain, mint |-> BestOf(pools(l)).mint,
          score |-> Score(dsFound, pools(l))] : l \in {k \in Listings : Enough(pools(k))}}

Best(ranked) ==
    {best \in SUBSET ranked :
        /\ Cardinality(best) = IF Cardinality(ranked) < MaxResults THEN Cardinality(ranked) ELSE MaxResults
        /\ \A p \in best, q \in ranked \ best : q.score <= p.score}

\* The sort and the cut.  run_live_with_dashboard goes on to scan what
\* discover_best_pairs found.
Rank ==
    /\ dsStage = "rank"
    /\ dsResult' \in Best(RankedPairs)
    /\ dsStage' = CASE dsKind = "refresher" -> "keep" [] dsKind = "evm" -> "quote" [] OTHER -> "done"
    /\ UNCHANGED <<dsKind, dsNext, dsFound, dsQuotes, rfVars>>

\* _build_pair_list: nothing found, and the configuration's pairs are scanned.
PairList == IF dsResult = {} THEN ConfigPairs ELSE dsResult

\* _resolve_coin_id, of both tokens of a pair at once.
Coin(p, chain) ==
    IF p.chain = chain THEN {[pair |-> p.pair, chain |-> chain, mint |-> p.mint]}
    ELSE {[pair |-> r.pair, chain |-> chain, mint |-> "registry"] : r \in {s \in Registered : s.pair = p.pair /\ s.chain = chain}}

\* pair_chain_ids: entries are keyed by the pair's name, the last one stays
\* (of two with the same score, either is the last).
CoinsOf(pair, chain) ==
    LET resolved == {p \in PairList : p.pair = pair /\ Coin(p, chain) # {}}
        last == {p \in resolved : \A q \in resolved : p.score <= q.score}
    IN  UNION {Coin(p, chain) : p \in last}

\* LiveMarket.get_quotes: prices of the coins the answer holds, or it raises.
GetLiveQuotes ==
    /\ dsStage = "quote"
    /\ LET wanted == UNION {{[pair |-> p.pair, venue |-> v, coin |-> c] : c \in CoinsOf(p.pair, Venues[v])} :
                                p \in PairList, v \in DOMAIN Venues}
       IN  \E priced \in SUBSET {q.coin : q \in wanted} : dsQuotes' = {q \in wanted : q.coin \in priced}
    /\ dsStage' = "done"
    /\ UNCHANGED <<dsKind, dsNext, dsFound, dsResult, rfVars>>

\* PairRefresher.start: a snapshot of any age counts as fresh.
StartRefresher ==
    /\ dsStage = "new"
    /\ \/ /\ rfSnapshot # {}
          /\ rfMemory' = rfSnapshot /\ dsStage' = "waiting"
       \/ dsStage' = "search" /\ UNCHANGED rfMemory  \* none, or reading it failed
    /\ dsNext' = 1 /\ dsFound' = NotFound
    /\ UNCHANGED <<dsKind, dsResult, dsQuotes, rfSnapshot, rfSaved, rfDue, rfRunning>>

\* _refresh: the memory first, then the repository, whose failure is logged.
KeepPairs ==
    /\ dsStage = "keep"
    /\ rfMemory' = dsResult /\ rfDue' = FALSE
    /\ dsStage' = "persist"
    /\ UNCHANGED <<dsKind, dsNext, dsFound, dsResult, dsQuotes, rfSnapshot, rfSaved, rfRunning>>

PersistPairs ==
    /\ dsStage = "persist"
    /\ rfSaved' \in BOOLEAN
    /\ rfSnapshot' = IF rfSaved' THEN rfMemory ELSE rfSnapshot
    /\ dsStage' = IF rfRunning THEN "waiting" ELSE "done"
    /\ UNCHANGED <<dsKind, dsNext, dsFound, dsResult, dsQuotes, rfMemory, rfDue, rfRunning>>

IntervalPasses ==
    /\ dsStage = "waiting" /\ ~rfDue
    /\ rfDue' = TRUE
    /\ UNCHANGED <<dsKind, dsStage, dsNext, dsFound, dsResult, dsQuotes, rfMemory, rfSnapshot, rfSaved, rfRunning>>

\* _loop, asleep: once awake it refreshes when due, stopped or not.
LoopWakes ==
    /\ dsStage = "waiting"
    /\ rfDue \/ ~rfRunning
    /\ dsStage' = IF rfDue THEN "search" ELSE "done"
    /\ dsNext' = 1 /\ dsFound' = NotFound
    /\ UNCHANGED <<dsKind, dsResult, dsQuotes, rfVars>>

StopRefresher ==
    /\ dsKind = "refresher" /\ dsStage # "new" /\ rfRunning
    /\ rfRunning' = FALSE
    /\ UNCHANGED <<dsKind, dsStage, dsNext, dsFound, dsResult, dsQuotes, rfMemory, rfSnapshot, rfSaved, rfDue>>

\* The process dies and comes back.
RestartRefresher ==
    /\ dsKind = "refresher" /\ dsStage # "new"
    /\ dsStage' = "new" /\ rfMemory' = {} /\ rfDue' = FALSE /\ rfRunning' = TRUE
    /\ dsNext' = 1 /\ dsFound' = NotFound /\ dsResult' = {}
    /\ UNCHANGED <<dsKind, dsQuotes, rfSnapshot, rfSaved>>

DsNext ==
    \/ Search \/ SearchKnownPools \/ Rank \/ GetLiveQuotes
    \/ StartRefresher \/ KeepPairs \/ PersistPairs \/ IntervalPasses \/ LoopWakes
    \/ StopRefresher \/ RestartRefresher

\* A pair is ranked for what the exchanges list: a search that fails, or that
\* shows a pool again, never lifts its score above what the listed pools give,
\* it is on enough DEXes (the bot's on two of one answer, or well known), and
\* its addresses are those of one listed pool.
RankedAsListed ==
    \A p \in dsResult :
        LET listed == {l \in Qualified : l.pair = p.pair /\ l.chain = p.chain}
        IN  /\ \E l \in listed : l.mint = p.mint
            /\ p.score <= Score([l \in Listings |-> 1], listed)
            /\ IF dsKind = "bot"
               THEN \E l \in listed : l.known \/ \E k \in listed : k.dex # l.dex /\ k.searches \cap l.searches # {}
               ELSE Cardinality(DexesOf(listed)) >= MinDexes

\* A coin priced for a venue is on the venue's chain: a found pair's own address
\* there and nowhere else, or the registered one.
PricedOnItsChain ==
    \A q \in dsQuotes :
        /\ q.coin.chain = Venues[q.venue]
        /\ \/ q.coin.mint = "registry"
           \/ \E p \in dsResult : p.pair = q.pair /\ p.chain = q.coin.chain /\ p.mint = q.coin.mint

\* A restart finds what the memory held, unless the last write failed.
SnapshotFollows == dsStage = "waiting" /\ rfSaved => rfSnapshot = rfMemory

DiscoverySound == RankedAsListed /\ PricedOnItsChain /\ SnapshotFollows
=============================================================================
