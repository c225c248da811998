---------------------------- MODULE PoolSources ----------------------------
(***************************************************************************)
(* The market sources that read pools from the chain: RaydiumMarket and    *)
(* OrcaMarket (src/market/), SolanaRPC.get_multiple_accounts under them,   *)
(* and their prices.                                                       *)
(*                                                                         *)
(* An account is known by its key; of its data only what the adapters'     *)
(* checks tell apart is kept.  The shipped registry (src/core/pools.py)    *)
(* fits one request of 100 keys, which answers for all of them, or with a  *)
(* result that has no values.                                              *)
(***************************************************************************)
EXTENDS Naturals, Sequences, FiniteSets

CONSTANTS
    RayPools,       \* Raydium pools in registry order
    PresetPools,    \* those whose vaults the registry names
    OrcaPools,
    BpsDivisor,     \* BPS_DIVISOR
    MaxReserve      \* bound: reserves and amounts in the pricing formulas

ASSUME PoolsAssumption ==
    /\ RayPools \in Seq({RayPools[i] : i \in DOMAIN RayPools})
    /\ BpsDivisor \in Nat \ {0} /\ MaxReserve \in Nat

VARIABLES
    rayList,    \* _pools: each with its vaults' owner, or none
    rayCached,  \* _vaults_cached
    rayStage,   \* between the two requests of a call
    rayVetted,  \* history: pools whose account showed the right owner
    rayQuotes,  \* what the last call returned: pool, and the pools of the accounts priced
    orcaQuotes, \* likewise
    swap        \* input of the pricing formulas

poolVars == <<rayList, rayCached, rayStage, rayVetted, rayQuotes, orcaQuotes, swap>>

RaySet == {RayPools[i] : i \in DOMAIN RayPools}
OrcaSet == {OrcaPools[i] : i \in DOMAIN OrcaPools}

NoVaults == "none"
HasVaults(pool) == pool.vaults # NoVaults

Swaps == [base : 0 .. MaxReserve, quote : 0 .. MaxReserve, fee : 0 .. BpsDivisor - 1,
          amount : 0 .. MaxReserve, sell : BOOLEAN]

NoSwap == [base |-> 0, quote |-> 0, fee |-> 0, amount |-> 0, sell |-> TRUE]

PoolInit ==
    /\ rayList = [i \in DOMAIN RayPools |->
                    [id |-> RayPools[i], vaults |-> IF RayPools[i] \in PresetPools THEN RayPools[i] ELSE NoVaults]]
    /\ rayCached = FALSE
    /\ rayStage = "idle"
    /\ rayVetted = {}
    /\ rayQuotes = {}
    /\ orcaQuotes = {}
    /\ swap = NoSwap

\* get_multiple_accounts: the accounts of the keys in their order; nothing when
\* the node's result is null.
MultipleAccounts(keys, data) == [i \in DOMAIN keys |-> [key |-> keys[i], data |-> data[keys[i]]]]

\* Where the pools with vaults are in the list, and which ones have none.
WithVaults == {n \in DOMAIN rayList : HasVaults(rayList[n])}
Missing == {rayList[n].id : n \in DOMAIN rayList \ WithVaults}

\* The pools at some positions of the list, in their order, and the place which
\* the n-th one has among them.
Place(n, positions) == Cardinality({k \in positions : k <= n})
PoolsAt(positions) ==
    [i \in 1 .. Cardinality(positions) |-> rayList[CHOOSE n \in positions : Place(n, positions) = i]]

\* Owner and length of a pool account: absent or foreign, too short, or good.
PoolData == [Missing -> {"foreign", "short", "good"}]

\* The positions that an answer leaves in the list.
KeptBy(data) == {n \in DOMAIN rayList : HasVaults(rayList[n]) \/ data[rayList[n].id] = "good"}

\* Mutant: the answers are matched by position after pools have dropped out.
ResolvedByPosition(data) ==
    LET Kept == PoolsAt(KeptBy(data))
    IN [i \in DOMAIN Kept |-> [Kept[i] EXCEPT !.vaults = rayList[i].id]]

\* _ensure_vaults_resolved with the node's answer; an answer without values
\* removes no pool and resolves none.
Resolved(data) ==
    LET Kept == PoolsAt(KeptBy(data))
    IN [i \in DOMAIN Kept |-> [Kept[i] EXCEPT !.vaults = Kept[i].id]]

EnsureVaultsResolved ==
    /\ rayStage = "idle"
    /\ rayList # <<>>
    /\ rayStage' = "resolved"
    /\ rayCached' = TRUE
    /\ \/ /\ rayCached \/ Missing = {}
          /\ UNCHANGED <<rayList, rayVetted>>
       \/ /\ ~rayCached /\ Missing # {}
          /\ \/ UNCHANGED <<rayList, rayVetted>>
             \/ \E data \in PoolData :
                   /\ rayList' = Resolved(data)
                   /\ rayVetted' = {p \in DOMAIN data : data[p] # "foreign"}
    /\ UNCHANGED <<rayQuotes, orcaQuotes, swap>>

\* Either request raises, and the caller gets the exception.
RaydiumRaises ==
    /\ rayStage = "resolved" \/ (~rayCached /\ Missing # {})
    /\ rayStage' = "idle"
    /\ rayQuotes' = {}
    /\ UNCHANGED <<rayList, rayCached, rayVetted, orcaQuotes, swap>>

\* Vault accounts: absent, too short or empty, or with an amount.
VaultKeys == {<<pool.vaults, side>> : pool \in {rayList[i] : i \in DOMAIN rayList}, side \in {"base", "quote"}}
VaultData == [VaultKeys -> BOOLEAN]

\* Where the accounts of the n-th pool of the list begin in the answer.
PairedAt(n) == 2 * Place(n, WithVaults) - 1

Keys ==
    LET Listed == PoolsAt(WithVaults)
    IN [i \in 1 .. 2 * Len(Listed) |->
            <<Listed[(i + 1) \div 2].vaults, IF i % 2 = 1 THEN "base" ELSE "quote">>]

\* _read_and_price, _price_from_vaults. Without any vault nothing is asked;
\* an answer without values makes accounts[i] an IndexError (RaydiumRaises).
ReadAndPrice ==
    /\ rayStage = "resolved"
    /\ rayStage' = "idle"
    /\ \E data \in VaultData :
          LET accounts == MultipleAccounts(Keys, data)
          IN rayQuotes' =
                {[pool |-> rayList[n].id, base |-> accounts[PairedAt(n)].key, quote |-> accounts[PairedAt(n) + 1].key] :
                    n \in {k \in DOMAIN rayList : /\ HasVaults(rayList[k])
                                                  /\ accounts[PairedAt(k)].data /\ accounts[PairedAt(k) + 1].data}}
    /\ UNCHANGED <<rayList, rayCached, rayVetted, orcaQuotes, swap>>

\* quote_at_size of one pool, which reads its two vaults alone.
QuoteAtSize(id) ==
    /\ rayStage = "resolved"
    /\ rayStage' = "idle"
    /\ \/ rayQuotes' = {}
       \/ \E n \in DOMAIN rayList :
             /\ rayList[n].id = id /\ HasVaults(rayList[n])
             /\ rayQuotes' = {[pool |-> id, base |-> <<rayList[n].vaults, "base">>, quote |-> <<rayList[n].vaults, "quote">>]}
    /\ UNCHANGED <<rayList, rayCached, rayVetted, orcaQuotes, swap>>

\* A whirlpool account: absent or with another owner, too short or without a
\* price, with mints that are not the pair's, or good in either mint order.
WhirlpoolData == {"foreign", "short", "mints", "good"}

OrcaGetQuotes ==
    /\ \/ orcaQuotes' = {}
       \/ \E data \in [OrcaSet -> WhirlpoolData] :
             LET accounts == MultipleAccounts(OrcaPools, data)
             IN orcaQuotes' = {[pool |-> OrcaPools[i], account |-> accounts[i].key] :
                                    i \in {k \in DOMAIN accounts : accounts[k].data = "good"}}
    /\ UNCHANGED <<rayList, rayCached, rayStage, rayVetted, rayQuotes, swap>>

-----------------------------------------------------------------------------
(* Prices, as fractions <<numerator, denominator>>                         *)

AtMost(p, q) == p[1] * q[2] <= q[1] * p[2]

Midpoint(s) == <<s.quote, s.base>>

\* _price_from_vaults, _price_from_whirlpool: quote per base, half the fee off.
SpotPrice(s) == <<s.quote * (2 * BpsDivisor - s.fee), s.base * 2 * BpsDivisor>>

\* cpmm_quote: what the pool pays out, the fee taken from the input; amounts
\* and reserves of the side that goes in and of the side that comes out.
Quotable(s) == s.amount > 0 /\ s.base > 0 /\ s.quote > 0
AmountOut(s) ==
    LET in == IF s.sell THEN s.base ELSE s.quote
        out == IF s.sell THEN s.quote ELSE s.base
        paid == s.amount * (BpsDivisor - s.fee)
    IN <<out * paid, in * BpsDivisor + paid>>

Choose(s) ==
    /\ swap = NoSwap
    /\ swap' = s
    /\ UNCHANGED <<rayList, rayCached, rayStage, rayVetted, rayQuotes, orcaQuotes>>

PoolNext ==
    \/ EnsureVaultsResolved \/ RaydiumRaises \/ ReadAndPrice \/ OrcaGetQuotes
    \/ \E id \in RaySet : QuoteAtSize(id)

PriceNext == \E s \in Swaps : Choose(s)

\* A quote is priced from the two vaults of the pool it is sold as, in their
\* order, although pools drop out of the list and pools without vaults stay in
\* it; and the pool's account had the right owner, unless the registry named
\* the vaults.
QuotesFromOwnVaults ==
    /\ \A q \in rayQuotes : /\ q.base = <<q.pool, "base">> /\ q.quote = <<q.pool, "quote">>
                            /\ q.pool \in rayVetted \cup PresetPools
    /\ \A q \in orcaQuotes : q.account = q.pool

\* The price a scan sees errs to one side: a swap of any size, selling or
\* buying, gets a worse one. No opportunity is missed for its price, and its
\* profit is overstated by the fee.
SpotIsOptimistic ==
    Quotable(swap) =>
        LET out == AmountOut(swap)
            got == <<out[1], out[2] * swap.amount>>         \* quote per base sold
            paid == <<swap.amount * out[2], out[1]>>        \* quote per base bought
        IN /\ AtMost(SpotPrice(swap), Midpoint(swap))
           /\ IF swap.sell THEN AtMost(got, SpotPrice(swap)) ELSE AtMost(SpotPrice(swap), paid)

\* Both of the above: what the pool backends quote, and how they price it.
PoolQuotesSound == QuotesFromOwnVaults /\ SpotIsOptimistic
=============================================================================
