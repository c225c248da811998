--------------------------- MODULE JupiterSource ---------------------------
(***************************************************************************)
(* SolanaMarket (src/market/solana_market.py): which pairs a scan asks     *)
(* Jupiter for, two requests each, under the round-robin rotation and the  *)
(* cooldown that follows an HTTP 429.  A quote is known by its pair and    *)
(* route.                                                                  *)
(***************************************************************************)
EXTENDS Naturals, Sequences

CONSTANTS
    ExtraPairs,     \* config.extra_pairs, in order
    MaxPairs,       \* _max_pairs_per_scan
    Cooldown,       \* _rate_limit_cooldown_seconds, in ticks
    MaxTime         \* bound: ticks

\* A pair's name is that of its two tokens.
ASSUME JupiterAssumption ==
    /\ MaxPairs \in Nat /\ Cooldown \in Nat \ {0} /\ MaxTime \in Nat
    /\ ExtraPairs \in Seq({ExtraPairs[i] : i \in DOMAIN ExtraPairs})
    /\ \A i \in DOMAIN ExtraPairs : ExtraPairs[i] # "none"

VARIABLES
    jupNow,     \* time.time()
    jupOffset,  \* _rotation_offset
    jupCoolUntil, \* _pair_cooldown_until; 0 for a pair it does not hold
    jupTodo,    \* pairs of this scan still to come
    jupStart,   \* the time the scan began
    jupAsking,  \* the request under way
    jupBest,    \* what came of the pair's first request
    jupOut,     \* quotes of this scan
    jupMissed,  \* history: scans in a row that passed the pair over, counted at their start
    jupLimited  \* history: when the scan began in which the pair last got a 429

jupVars == <<jupNow, jupOffset, jupCoolUntil, jupTodo, jupStart, jupAsking, jupBest, jupOut, jupMissed, jupLimited>>

Primary == "primary"
Pairs == <<Primary>> \o ExtraPairs
PairNames == {Pairs[i] : i \in DOMAIN Pairs}
NumExtras == Len(ExtraPairs)

\* 429; any other failed request or a body that is not JSON (None); a quote;
\* a quote without amounts, of which _as_quote makes an exception.
Answers == {"limited", "none", "quote", "empty"}
NoRequest == [pair |-> "none", route |-> "none"]

JupInit ==
    /\ jupNow = 0
    /\ jupOffset = 0
    /\ jupCoolUntil = [p \in PairNames |-> 0]
    /\ jupTodo = <<>>
    /\ jupStart = 0
    /\ jupAsking = NoRequest
    /\ jupBest = "none"
    /\ jupOut = {}
    /\ jupMissed = [p \in PairNames |-> 0]
    /\ jupLimited = [p \in PairNames |-> 0]

JupIdle == jupTodo = <<>> /\ jupAsking = NoRequest

\* Mutant: the rotation advances by the number of pairs of the scan.
NextOffsetByAll == (jupOffset + MaxPairs) % NumExtras

NextOffset == (jupOffset + (MaxPairs - 1)) % NumExtras

Rotates == MaxPairs > 0 /\ MaxPairs < Len(Pairs)

PairsThisScan ==
    IF Rotates
    THEN <<Primary>> \o [i \in 1 .. MaxPairs - 1 |-> ExtraPairs[((jupOffset + i - 1) % NumExtras) + 1]]
    ELSE Pairs

BeginScan ==
    /\ JupIdle
    /\ jupTodo' = PairsThisScan
    /\ jupOffset' = IF Rotates /\ MaxPairs > 1 THEN NextOffset ELSE jupOffset
    /\ jupStart' = jupNow
    /\ jupOut' = {}
    /\ jupMissed' = [p \in PairNames |-> jupMissed[p] + 1]
    /\ UNCHANGED <<jupNow, jupCoolUntil, jupAsking, jupBest, jupLimited>>

\* The pair got a 429 less than the cooldown before this scan began.
Limited(p) == jupLimited[p] > 0 /\ jupLimited[p] - 1 + Cooldown > jupStart

\* The head of the loop over the pairs, which compares with the time the scan began.
NextPair ==
    /\ jupTodo # <<>>
    /\ jupAsking = NoRequest
    /\ jupTodo' = Tail(jupTodo)
    /\ LET p == Head(jupTodo)
           skipped == jupCoolUntil[p] > jupStart
       IN /\ jupAsking' = IF skipped THEN NoRequest ELSE [pair |-> p, route |-> "best"]
          /\ jupMissed' = IF skipped /\ ~Limited(p) THEN jupMissed ELSE [jupMissed EXCEPT ![p] = 0]
    /\ UNCHANGED <<jupNow, jupOffset, jupCoolUntil, jupStart, jupBest, jupOut, jupLimited>>

SetCooldown(p) == jupCoolUntil' = [jupCoolUntil EXCEPT ![p] = jupStart + Cooldown]

\* _request_quote and, after the direct route, _as_quote of both answers: one
\* exception costs the pair's other quote too.
Answer(answer) ==
    /\ jupAsking # NoRequest
    /\ LET p == jupAsking.pair
           Routes == {r \in {"best", "direct"} : (IF r = "best" THEN jupBest ELSE answer) = "quote"}
       IN CASE answer = "limited" ->
                 /\ SetCooldown(p)
                 /\ jupLimited' = [jupLimited EXCEPT ![p] = jupStart + 1]
                 /\ jupAsking' = NoRequest
                 /\ UNCHANGED <<jupBest, jupOut>>
            [] answer # "limited" /\ jupAsking.route = "best" ->
                 /\ jupBest' = answer
                 /\ jupAsking' = [jupAsking EXCEPT !.route = "direct"]
                 /\ UNCHANGED <<jupCoolUntil, jupOut, jupLimited>>
            [] answer # "limited" /\ jupAsking.route = "direct" ->
                 /\ jupOut' = IF "empty" \in {jupBest, answer} THEN jupOut
                              ELSE jupOut \cup {[pair |-> p, route |-> r] : r \in Routes}
                 /\ jupAsking' = NoRequest
                 /\ UNCHANGED <<jupBest, jupCoolUntil, jupLimited>>
    /\ UNCHANGED <<jupNow, jupOffset, jupTodo, jupStart, jupMissed>>

Tick ==
    /\ jupNow < MaxTime
    /\ jupNow' = jupNow + 1
    /\ UNCHANGED <<jupOffset, jupCoolUntil, jupTodo, jupStart, jupAsking, jupBest, jupOut, jupMissed, jupLimited>>

JupNext == BeginScan \/ NextPair \/ Tick \/ \E answer \in Answers : Answer(answer)

\* A pair is never asked for within the cooldown of the scan in which it got a
\* 429; and no pair waits longer than the ceil(extras / (max - 1)) scans the
\* rotation takes, unless it is cooling down itself: neither the rotation's
\* arithmetic nor the 429 of another pair starves it.
PairsAskedInTurn ==
    \A p \in PairNames :
        /\ jupAsking.pair = p => ~Limited(p)
        /\ JupIdle => IF Rotates THEN jupMissed[p] * (MaxPairs - 1) < NumExtras ELSE jupMissed[p] = 0
=============================================================================
