---------------------------- MODULE MarketProofs ----------------------------
(***************************************************************************)
(* Safety of the market sources, the scanner and the polling bot, for      *)
(* every value of the constants.  They are parts of Components, and a step *)
(* of the whole is a step of one part.                                     *)
(***************************************************************************)
EXTENDS ComponentsProofs

\* What the pool sources have read from the chain.
chainVars == <<rayList, rayCached, rayStage, rayVetted, rayQuotes, orcaQuotes>>

\* A step of the composition is a step of one of these parts or leaves their
\* variables as they are; the bot shares the strategy's price of SOL.
LEMMA MarketSteps ==
    ASSUME [Next]_componentVars
    PROVE  /\ [JupNext]_jupVars
           /\ [PoolNext]_chainVars
           /\ [PriceNext]_swap
           /\ \/ ScanNext
              \/ BotNext /\ UNCHANGED <<scanQuotes, scanStage, found, pendingRecords, records, hits>>
              \/ UNCHANGED scanVars
           /\ [BotNext]_botVars
<1>1. CASE UNCHANGED componentVars
  BY <1>1 DEF componentVars, partVars, poolVars, chainVars, scanVars
<1>2. CASE Jupiter
  BY <1>2 DEF Jupiter, poolVars, chainVars, scanVars
<1>3. CASE Pools
  BY <1>3 DEF Pools, PoolNext, EnsureVaultsResolved, RaydiumRaises, ReadAndPrice, OrcaGetQuotes, QuoteAtSize, scanVars
<1>4. CASE Pricing
  BY <1>4 DEF Pricing, PriceNext, Choose, chainVars, scanVars
<1>5. CASE Scanner
  BY <1>5 DEF Scanner, poolVars, chainVars
<1>6. CASE Bot
  BY <1>6 DEF Bot, poolVars, chainVars
<1>7. CASE Fanout \/ Risk \/ Latency \/ Swap \/ Onchain
  BY <1>7 DEF Fanout, Risk, Latency, Swap, Onchain, poolVars, chainVars, scanVars
<1>8. CASE Reports \/ Dashboard \/ Chain \/ Pairing \/ Views
  BY <1>8 DEF Reports, Dashboard, Chain, Pairing, Views, poolVars, chainVars, scanVars
<1> QED
  BY <1>1, <1>2, <1>3, <1>4, <1>5, <1>6, <1>7, <1>8 DEF Next

-----------------------------------------------------------------------------
(* Jupiter: rotation and cooldown                                          *)

JupRequests == [pair : PairNames, route : {"best", "direct"}]

\* Type correctness.
JupTypeOK ==
    /\ jupOffset \in Nat /\ (Rotates => jupOffset < NumExtras)
    /\ jupCoolUntil \in [PairNames -> Nat]
    /\ jupLimited \in [PairNames -> Nat]
    /\ jupMissed \in [PairNames -> Nat]
    /\ jupTodo \in Seq(PairNames)
    /\ jupStart \in Nat /\ jupNow \in Nat
    /\ jupAsking \in JupRequests \cup {NoRequest}

\* A pair cools down from the start of the scan in which it last got a 429.
CoolingOK ==
    \A p \in PairNames : jupCoolUntil[p] = IF jupLimited[p] > 0 THEN jupLimited[p] - 1 + Cooldown ELSE 0

\* How many places the rotation has to move on for the i-th extra pair.
Ahead(i) == IF i - 1 >= jupOffset THEN (i - 1) - jupOffset ELSE (i - 1) - jupOffset + NumExtras

StillAsked(p) == \E n \in 1 .. Len(jupTodo) : jupTodo[n] = p

\* A pair waits for as many scans as the rotation needs to have come from it to
\* where it is, unless its turn in this scan is still to come.
TurnsOK ==
    /\ StillAsked(Primary) \/ jupMissed[Primary] = 0
    /\ \A i \in 1 .. NumExtras :
          \/ StillAsked(ExtraPairs[i])
          \/ IF Rotates THEN jupMissed[ExtraPairs[i]] * (MaxPairs - 1) + Ahead(i) <= NumExtras - 1
             ELSE jupMissed[ExtraPairs[i]] = 0

AskingOK == jupAsking # NoRequest => ~Limited(jupAsking.pair)

JupiterInv == JupTypeOK /\ CoolingOK /\ TurnsOK /\ AskingOK

\* The primary pair and the extra pairs are all there are.
LEMMA PairFacts ==
    /\ NumExtras \in Nat /\ Pairs \in Seq(PairNames) /\ Len(Pairs) = NumExtras + 1
    /\ Pairs[1] = Primary /\ Primary \in PairNames
    /\ \A i \in 1 .. NumExtras : ExtraPairs[i] \in PairNames /\ Pairs[i + 1] = ExtraPairs[i]
    /\ \A p \in PairNames : p = Primary \/ \E i \in 1 .. NumExtras : p = ExtraPairs[i]
    /\ "none" \notin PairNames
<1> DEFINE extras == {ExtraPairs[i] : i \in DOMAIN ExtraPairs}
<1>1. /\ ExtraPairs \in Seq(extras) /\ NumExtras = Len(ExtraPairs) /\ NumExtras \in Nat
      /\ DOMAIN ExtraPairs = 1 .. NumExtras
  BY JupiterAssumption DEF NumExtras
<1> DEFINE S == extras \cup {Primary}
<1>2. <<Primary>> \in Seq(S) /\ ExtraPairs \in Seq(S) /\ Len(<<Primary>>) = 1 /\ <<Primary>>[1] = Primary
  BY <1>1
<1> HIDE DEF S
<1>3. /\ Pairs \in Seq(S) /\ Len(Pairs) = NumExtras + 1
      /\ \A n \in 1 .. NumExtras + 1 : Pairs[n] = IF n <= 1 THEN Primary ELSE ExtraPairs[n - 1]
  <2>1. Len(<<Primary>>) + Len(ExtraPairs) = NumExtras + 1
    BY <1>1, <1>2
  <2> QED
    BY <1>1, <1>2, <2>1, ConcatElements DEF Pairs
<1>4. DOMAIN Pairs = 1 .. NumExtras + 1 /\ Pairs[1] = Primary
  BY <1>1, <1>3
<1>5. \A i \in 1 .. NumExtras : Pairs[i + 1] = ExtraPairs[i] /\ i + 1 \in DOMAIN Pairs
  BY <1>1, <1>3, <1>4
<1>6. \A n \in DOMAIN Pairs : n = 1 \/ (n - 1 \in 1 .. NumExtras /\ Pairs[n] = ExtraPairs[n - 1])
  BY <1>1, <1>3, <1>4
<1>7. Primary \in PairNames /\ \A i \in 1 .. NumExtras : ExtraPairs[i] \in PairNames
  <2>1. 1 \in DOMAIN Pairs
    BY <1>1, <1>4
  <2> QED
    BY <1>4, <1>5, <2>1 DEF PairNames
<1>8. \A p \in PairNames : p = Primary \/ \E i \in 1 .. NumExtras : p = ExtraPairs[i]
  BY <1>4, <1>6 DEF PairNames
<1>9. Pairs \in Seq(PairNames)
  <2>1. Pairs \in [1 .. NumExtras + 1 -> S]
    BY <1>3, LenProperties
  <2>2. Pairs \in [1 .. NumExtras + 1 -> PairNames]
    BY <1>4, <2>1 DEF PairNames
  <2> QED
    BY <1>1, <2>2, SeqDef
<1>10. "none" \notin PairNames
  BY <1>1, <1>8, JupiterAssumption DEF Primary
<1> QED
  BY <1>1, <1>3, <1>4, <1>5, <1>7, <1>8, <1>9, <1>10

\* The remainder of a number within two rounds.
LEMMA WithinTwoRounds ==
    ASSUME NEW n \in Nat \ {0}, NEW x \in 0 .. n - 1
    PROVE  x % n = x /\ (x + n) % n = x
  OBVIOUS

\* The pairs of a scan: the primary one, and the extra pairs less ahead than the
\* scan has places for.
LEMMA ScanFacts ==
    ASSUME JupTypeOK
    PROVE  /\ PairsThisScan \in Seq(PairNames)
           /\ Len(PairsThisScan) > 0 /\ PairsThisScan[1] = Primary
           /\ \A i \in 1 .. NumExtras :
                 ~Rotates \/ Ahead(i) < MaxPairs - 1 =>
                    \E n \in 1 .. Len(PairsThisScan) : PairsThisScan[n] = ExtraPairs[i]
<1>1. CASE ~Rotates
  <2>1. PairsThisScan = Pairs
    BY <1>1 DEF PairsThisScan
  <2>2. \A i \in 1 .. NumExtras : i + 1 \in 1 .. NumExtras + 1
    BY PairFacts
  <2> QED
    BY <2>1, <2>2, PairFacts
<1>2. CASE Rotates
  <2> DEFINE more == MaxPairs - 1
             place(j) == ((jupOffset + j - 1) % NumExtras) + 1
             rest == [j \in 1 .. more |-> ExtraPairs[place(j)]]
  <2>1. /\ more \in Nat /\ more < NumExtras /\ NumExtras \in Nat \ {0}
        /\ jupOffset \in 0 .. NumExtras - 1
    BY <1>2, PairFacts, JupiterAssumption DEF Rotates, JupTypeOK
  <2>2. \A j \in 1 .. more : place(j) \in 1 .. NumExtras
    <3> SUFFICES ASSUME NEW j \in 1 .. more PROVE place(j) \in 1 .. NumExtras
      OBVIOUS
    <3>1. jupOffset + j - 1 \in Nat
      BY <2>1
    <3>2. (jupOffset + j - 1) % NumExtras \in 0 .. NumExtras - 1
      BY <2>1, <3>1, Division
    <3> QED
      BY <2>1, <3>2
  <2>3. \A j \in 1 .. more : ExtraPairs[place(j)] \in PairNames
    BY <2>2, PairFacts
  <2> HIDE DEF place
  <2>4. rest \in [1 .. more -> PairNames]
    BY <2>3
  <2>5. rest \in Seq(PairNames) /\ Len(rest) = more
    BY <2>1, <2>4, SeqDef
  <2>6. PairsThisScan = <<Primary>> \o rest
    BY <1>2 DEF PairsThisScan, place
  <2>7. \A j \in 1 .. more : rest[j] = ExtraPairs[place(j)]
    OBVIOUS
  <2> HIDE DEF rest, more
  <2>8. <<Primary>> \in Seq(PairNames) /\ Len(<<Primary>>) = 1 /\ <<Primary>>[1] = Primary
    BY PairFacts
  <2>9. /\ PairsThisScan \in Seq(PairNames) /\ Len(PairsThisScan) = more + 1
        /\ \A n \in 1 .. more + 1 : PairsThisScan[n] = IF n <= 1 THEN Primary ELSE rest[n - 1]
    <3>1. Len(<<Primary>>) + Len(rest) = more + 1
      BY <2>1, <2>5, <2>8
    <3> QED
      BY <2>1, <2>5, <2>6, <2>8, <3>1, ConcatElements
  <2>10. ASSUME NEW i \in 1 .. NumExtras, Ahead(i) < MaxPairs - 1
         PROVE  \E n \in 1 .. Len(PairsThisScan) : PairsThisScan[n] = ExtraPairs[i]
    <3> DEFINE j == Ahead(i) + 1
    <3>1. j \in 1 .. more /\ j + 1 \in 1 .. more + 1 /\ (j + 1) - 1 = j /\ ~(j + 1 <= 1)
      BY <2>1, <2>10 DEF Ahead, more
    <3>2. place(j) = i
      <4>1. jupOffset + j - 1 = i - 1 \/ jupOffset + j - 1 = (i - 1) + NumExtras
        BY <2>1 DEF Ahead
      <4>2. (jupOffset + j - 1) % NumExtras = i - 1
        BY <2>1, <4>1, WithinTwoRounds
      <4> QED
        BY <4>2 DEF place
    <3>3. PairsThisScan[j + 1] = rest[j]
      BY <2>9, <3>1
    <3>4. PairsThisScan[j + 1] = ExtraPairs[i]
      BY <2>7, <3>1, <3>2, <3>3
    <3> QED
      BY <2>9, <3>1, <3>4
  <2>11. PairsThisScan[1] = Primary /\ Len(PairsThisScan) > 0
    BY <2>1, <2>9
  <2> QED
    BY <1>2, <2>9, <2>10, <2>11
<1> QED
  BY <1>1, <1>2

\* The jupiter part starts in its invariant.
LEMMA JupiterInit == JupInit => JupiterInv
<1> SUFFICES ASSUME JupInit PROVE JupiterInv
  OBVIOUS
<1>1. JupTypeOK
  <2>1. Rotates => 0 < NumExtras
    BY PairFacts, JupiterAssumption DEF Rotates
  <2> QED
    BY <2>1 DEF JupInit, JupTypeOK
<1>2. CoolingOK
  BY DEF JupInit, CoolingOK
<1>3. TurnsOK
  <2>1. \A i \in 1 .. NumExtras : Ahead(i) \in 0 .. NumExtras - 1 /\ jupMissed[ExtraPairs[i]] = 0
    BY PairFacts DEF JupInit, Ahead
  <2>2. 0 * (MaxPairs - 1) = 0
    BY JupiterAssumption
  <2> QED
    BY <2>1, <2>2, PairFacts DEF JupInit, TurnsOK
<1> QED
  BY <1>1, <1>2, <1>3 DEF JupInit, JupiterInv, AskingOK

\* One time more.
LEMMA OneMore ==
    ASSUME NEW m \in Nat, NEW n \in Nat
    PROVE  (m + 1) * n = m * n + n /\ m * n \in Nat
  OBVIOUS

\* A scan begins: who is not asked in it comes nearer by as many places.
LEMMA BeginScanKeeps ==
    ASSUME JupiterInv, BeginScan
    PROVE  JupiterInv'
<1> DEFINE more == MaxPairs - 1
<1>1. /\ jupTodo' = PairsThisScan /\ jupStart' = jupNow /\ jupAsking = NoRequest /\ jupTodo = <<>>
      /\ \A p \in PairNames : jupMissed'[p] = jupMissed[p] + 1
      /\ jupMissed' = [p \in PairNames |-> jupMissed[p] + 1]
      /\ UNCHANGED <<jupNow, jupCoolUntil, jupAsking, jupLimited>>
  BY DEF BeginScan, JupIdle
<1>2. Rotates => more \in Nat /\ more < NumExtras /\ NumExtras \in Nat \ {0} /\ jupOffset \in 0 .. NumExtras - 1
  BY PairFacts, JupiterAssumption DEF Rotates, JupiterInv, JupTypeOK
<1>3. Rotates => jupOffset' = IF jupOffset + more < NumExtras THEN jupOffset + more ELSE jupOffset + more - NumExtras
  <2>1. CASE Rotates /\ MaxPairs > 1
    <3>1. jupOffset' = (jupOffset + more) % NumExtras
      BY <2>1 DEF BeginScan, NextOffset
    <3>2. CASE jupOffset + more < NumExtras
      BY <1>2, <2>1, <3>1, <3>2, WithinTwoRounds
    <3>3. CASE jupOffset + more >= NumExtras
      <4> DEFINE x == jupOffset + more - NumExtras
      <4>1. x \in 0 .. NumExtras - 1 /\ x + NumExtras = jupOffset + more
        BY <1>2, <2>1, <3>3
      <4> HIDE DEF x
      <4>2. (x + NumExtras) % NumExtras = x
        BY <1>2, <2>1, <4>1, WithinTwoRounds
      <4> QED
        BY <1>2, <2>1, <3>1, <3>3, <4>1, <4>2 DEF x
    <3> QED
      BY <1>2, <2>1, <3>2, <3>3
  <2>2. CASE Rotates /\ ~(MaxPairs > 1)
    <3>1. more = 0 /\ jupOffset' = jupOffset
      BY <1>2, <2>2, JupiterAssumption DEF BeginScan
    <3> QED
      BY <1>2, <2>2, <3>1
  <2> QED
    BY <2>1, <2>2
<1>4. JupTypeOK'
  <2>1. jupTodo' \in Seq(PairNames)
    BY <1>1, ScanFacts DEF JupiterInv
  <2>2. jupOffset' \in Nat /\ (Rotates => jupOffset' < NumExtras)
    <3>1. CASE Rotates
      BY <1>2, <1>3, <3>1
    <3>2. CASE ~Rotates
      BY <3>2 DEF BeginScan, JupiterInv, JupTypeOK
    <3> QED
      BY <3>1, <3>2
  <2>3. jupMissed' \in [PairNames -> Nat]
    BY <1>1 DEF JupiterInv, JupTypeOK
  <2> QED
    BY <1>1, <2>1, <2>2, <2>3 DEF JupiterInv, JupTypeOK
<1>5. CoolingOK'
  BY <1>1 DEF JupiterInv, CoolingOK
<1>6. TurnsOK'
  <2>1. StillAsked(Primary)'
    <3>1. 1 \in 1 .. Len(PairsThisScan)
      BY ScanFacts DEF JupiterInv
    <3> QED
      BY <1>1, <3>1, ScanFacts DEF JupiterInv, StillAsked
  <2>2. ASSUME NEW i \in 1 .. NumExtras
        PROVE  \/ StillAsked(ExtraPairs[i])'
               \/ IF Rotates THEN jupMissed'[ExtraPairs[i]] * (MaxPairs - 1) + Ahead(i)' <= NumExtras - 1
                  ELSE jupMissed'[ExtraPairs[i]] = 0
    <3>1. CASE ~Rotates \/ Ahead(i) < MaxPairs - 1
      BY <1>1, <3>1, ScanFacts DEF JupiterInv, StillAsked
    <3>2. CASE Rotates /\ ~(Ahead(i) < MaxPairs - 1)
      <4> DEFINE m == jupMissed[ExtraPairs[i]]
      <4>1. m \in Nat /\ jupMissed'[ExtraPairs[i]] = m + 1
        BY <1>1, PairFacts DEF JupiterInv, JupTypeOK
      <4>2. ~StillAsked(ExtraPairs[i])
        BY <1>1 DEF StillAsked
      <4>3. m * more + Ahead(i) <= NumExtras - 1
        BY <3>2, <4>2 DEF JupiterInv, TurnsOK
      <4>4. Ahead(i)' = Ahead(i) - more /\ Ahead(i) \in Nat
        BY <1>2, <1>3, <3>2 DEF Ahead
      <4> HIDE DEF m, more
      <4>5. (m + 1) * more = m * more + more /\ m * more \in Nat /\ more \in Nat
        BY <1>2, <3>2, <4>1, OneMore
      <4>6. (m + 1) * more + Ahead(i)' <= NumExtras - 1
        BY <4>3, <4>4, <4>5, PairFacts
      <4> QED
        BY <3>2, <4>1, <4>6 DEF more
    <3> QED
      BY <3>1, <3>2
  <2> QED
    BY <2>1, <2>2 DEF TurnsOK
<1> QED
  BY <1>1, <1>4, <1>5, <1>6 DEF JupiterInv, AskingOK

\* The elements of a sequence are its head and those of its tail.
LEMMA HeadOrTail ==
    ASSUME NEW S, NEW s \in Seq(S), s # <<>>
    PROVE  /\ Tail(s) \in Seq(S) /\ Head(s) \in S
           /\ \A n \in 1 .. Len(s) : s[n] = Head(s) \/ \E m \in 1 .. Len(Tail(s)) : Tail(s)[m] = s[n]
<1>1. Tail(s) \in Seq(S) /\ Len(Tail(s)) = Len(s) - 1 /\ Len(s) \in Nat \ {0} /\ Head(s) = s[1] /\ s[1] \in S
  BY EmptySeq
<1>2. \A m \in 1 .. Len(Tail(s)) : Tail(s)[m] = s[m + 1]
  BY <1>1
<1>3. ASSUME NEW n \in 1 .. Len(s), n # 1
      PROVE  \E m \in 1 .. Len(Tail(s)) : Tail(s)[m] = s[n]
  <2>1. n - 1 \in 1 .. Len(Tail(s)) /\ (n - 1) + 1 = n
    BY <1>1, <1>3
  <2> QED
    BY <1>2, <2>1
<1> QED
  BY <1>1, <1>3

\* The next pair's turn: it is asked unless it is cooling down.
LEMMA NextPairKeeps ==
    ASSUME JupiterInv, NextPair
    PROVE  JupiterInv'
<1> DEFINE p == Head(jupTodo)
           skipped == jupCoolUntil[p] > jupStart
<1>1. /\ p \in PairNames /\ Tail(jupTodo) \in Seq(PairNames)
      /\ \A n \in 1 .. Len(jupTodo) : jupTodo[n] = p \/ \E m \in 1 .. Len(Tail(jupTodo)) : Tail(jupTodo)[m] = jupTodo[n]
  BY HeadOrTail DEF JupiterInv, JupTypeOK, NextPair
<1>2. skipped <=> Limited(p)
  BY <1>1, JupiterAssumption DEF JupiterInv, JupTypeOK, CoolingOK, Limited
<1>3. /\ jupTodo' = Tail(jupTodo)
      /\ jupAsking' = IF Limited(p) THEN NoRequest ELSE [pair |-> p, route |-> "best"]
      /\ jupMissed' = [jupMissed EXCEPT ![p] = 0]
      /\ UNCHANGED <<jupOffset, jupCoolUntil, jupStart, jupLimited, jupNow>>
  BY <1>2 DEF NextPair
<1> HIDE DEF p, skipped
<1>4. /\ jupMissed' \in [PairNames -> Nat]
      /\ \A q \in PairNames : jupMissed'[q] = IF q = p THEN 0 ELSE jupMissed[q]
  BY <1>1, <1>3 DEF JupiterInv, JupTypeOK
<1>5. JupTypeOK'
  <2>1. jupAsking' \in JupRequests \cup {NoRequest}
    BY <1>1, <1>3 DEF JupRequests
  <2> QED
    BY <1>1, <1>3, <1>4, <2>1 DEF JupiterInv, JupTypeOK
<1>6. CoolingOK'
  BY <1>3 DEF JupiterInv, CoolingOK
<1>7. TurnsOK'
  <2>1. \A q \in PairNames : StillAsked(q) => StillAsked(q)' \/ jupMissed'[q] = 0
    BY <1>1, <1>3, <1>4 DEF StillAsked
  <2>2. \A q \in PairNames : jupMissed'[q] = 0 \/ jupMissed'[q] = jupMissed[q]
    BY <1>4
  <2>3. \A i \in 1 .. NumExtras : Ahead(i)' = Ahead(i) /\ (Rotates => Ahead(i) <= NumExtras - 1)
    BY <1>3, PairFacts DEF Ahead, JupiterInv, JupTypeOK
  <2>4. 0 * (MaxPairs - 1) = 0
    BY JupiterAssumption
  <2>5. StillAsked(Primary)' \/ jupMissed'[Primary] = 0
    BY <2>1, <2>2, PairFacts DEF JupiterInv, TurnsOK
  <2>6. ASSUME NEW i \in 1 .. NumExtras
        PROVE  \/ StillAsked(ExtraPairs[i])'
               \/ IF Rotates THEN jupMissed'[ExtraPairs[i]] * (MaxPairs - 1) + Ahead(i)' <= NumExtras - 1
                  ELSE jupMissed'[ExtraPairs[i]] = 0
    <3>1. ExtraPairs[i] \in PairNames /\ Ahead(i) \in Int
      BY PairFacts DEF Ahead, JupiterInv, JupTypeOK
    <3>2. CASE jupMissed'[ExtraPairs[i]] = 0
      <4>1. 0 + Ahead(i) = Ahead(i)
        BY <3>1
      <4> QED
        BY <2>3, <2>4, <3>2, <4>1
    <3>3. CASE jupMissed'[ExtraPairs[i]] # 0
      <4>1. jupMissed'[ExtraPairs[i]] = jupMissed[ExtraPairs[i]]
        BY <2>2, <3>1, <3>3
      <4>2. \/ StillAsked(ExtraPairs[i])
            \/ IF Rotates THEN jupMissed[ExtraPairs[i]] * (MaxPairs - 1) + Ahead(i) <= NumExtras - 1
               ELSE jupMissed[ExtraPairs[i]] = 0
        BY DEF JupiterInv, TurnsOK
      <4> QED
        BY <2>1, <2>3, <3>1, <3>3, <4>1, <4>2
    <3> QED
      BY <3>2, <3>3
  <2> QED
    BY <2>5, <2>6 DEF TurnsOK
<1>8. AskingOK'
  BY <1>3 DEF AskingOK, Limited
<1> QED
  BY <1>5, <1>6, <1>7, <1>8 DEF JupiterInv

\* Jupiter's answer: a 429 starts the pair's cooldown.
LEMMA AnswerKeeps ==
    ASSUME JupiterInv, NEW answer \in Answers, Answer(answer)
    PROVE  JupiterInv'
<1>1. jupAsking \in JupRequests /\ jupAsking.pair \in PairNames /\ jupAsking.pair # "none"
  BY PairFacts DEF JupiterInv, JupTypeOK, JupRequests, Answer
<1>2. UNCHANGED <<jupNow, jupOffset, jupTodo, jupStart, jupMissed>>
  BY DEF Answer
<1>3. TurnsOK'
  BY <1>2 DEF JupiterInv, TurnsOK, StillAsked, Ahead
<1>4. CASE answer = "limited"
  <2> DEFINE p == jupAsking.pair
  <2>1. /\ jupCoolUntil' = [jupCoolUntil EXCEPT ![p] = jupStart + Cooldown]
        /\ jupLimited' = [jupLimited EXCEPT ![p] = jupStart + 1]
        /\ jupAsking' = NoRequest
    BY <1>4 DEF Answer, SetCooldown
  <2> HIDE DEF p
  <2>2. p \in PairNames /\ jupStart \in Nat /\ jupStart + Cooldown \in Nat /\ jupStart + 1 \in Nat
    BY <1>1, JupiterAssumption DEF JupiterInv, JupTypeOK, p
  <2>3. JupTypeOK'
    BY <1>2, <2>1, <2>2 DEF JupiterInv, JupTypeOK
  <2>4. CoolingOK'
    <3>1. \A q \in PairNames : /\ jupCoolUntil'[q] = IF q = p THEN jupStart + Cooldown ELSE jupCoolUntil[q]
                               /\ jupLimited'[q] = IF q = p THEN jupStart + 1 ELSE jupLimited[q]
      BY <2>1, <2>2 DEF JupiterInv, JupTypeOK
    <3>2. jupStart + 1 > 0 /\ (jupStart + 1) - 1 + Cooldown = jupStart + Cooldown
      BY <2>2, JupiterAssumption
    <3> QED
      BY <3>1, <3>2 DEF JupiterInv, CoolingOK
  <2> QED
    BY <1>3, <2>1, <2>3, <2>4 DEF JupiterInv, AskingOK
<1>5. CASE answer # "limited"
  <2>1. UNCHANGED <<jupCoolUntil, jupLimited>>
    BY <1>1, <1>5 DEF Answer, JupRequests
  <2>2. jupAsking' = NoRequest \/ jupAsking' = [jupAsking EXCEPT !.route = "direct"]
    BY <1>1, <1>5 DEF Answer, JupRequests
  <2>3. /\ jupAsking' \in JupRequests \cup {NoRequest}
        /\ jupAsking' # NoRequest => jupAsking'.pair = jupAsking.pair
    BY <1>1, <2>2 DEF JupRequests
  <2>4. JupTypeOK' /\ CoolingOK'
    BY <1>2, <2>1, <2>3 DEF JupiterInv, JupTypeOK, CoolingOK
  <2>5. AskingOK'
    <3>1. ~Limited(jupAsking.pair)
      BY <1>1 DEF JupiterInv, AskingOK, NoRequest
    <3> QED
      BY <1>2, <2>1, <2>3, <3>1 DEF AskingOK, Limited
  <2> QED
    BY <1>3, <2>4, <2>5 DEF JupiterInv
<1> QED
  BY <1>4, <1>5

\* Each step of the source keeps the invariant.
LEMMA JupiterKeeps ==
    ASSUME JupiterInv, [JupNext]_jupVars
    PROVE  JupiterInv'
<1>1. CASE UNCHANGED jupVars
  BY <1>1 DEF jupVars, JupiterInv, JupTypeOK, CoolingOK, TurnsOK, StillAsked, Ahead, AskingOK, Limited
<1>2. CASE Tick
  BY <1>2 DEF Tick, JupiterInv, JupTypeOK, CoolingOK, TurnsOK, StillAsked, Ahead, AskingOK, Limited
<1> QED
  BY <1>1, <1>2, BeginScanKeeps, NextPairKeeps, AnswerKeeps DEF JupNext

\* What the invariant says of the turns.
LEMMA JupiterInvImplies == JupiterInv => PairsAskedInTurn
<1> SUFFICES ASSUME JupiterInv, NEW p \in PairNames
             PROVE  /\ jupAsking.pair = p => ~Limited(p)
                    /\ JupIdle => IF Rotates THEN jupMissed[p] * (MaxPairs - 1) < NumExtras ELSE jupMissed[p] = 0
  BY DEF PairsAskedInTurn
<1>1. jupAsking.pair = p => ~Limited(p)
  BY PairFacts DEF JupiterInv, AskingOK, NoRequest
<1>2. ASSUME JupIdle
      PROVE  IF Rotates THEN jupMissed[p] * (MaxPairs - 1) < NumExtras ELSE jupMissed[p] = 0
  <2>1. \A q : ~StillAsked(q)
    BY <1>2 DEF JupIdle, StillAsked
  <2>2. CASE p = Primary
    <3>1. jupMissed[p] = 0 /\ 0 * (MaxPairs - 1) = 0
      BY <2>1, <2>2, JupiterAssumption DEF JupiterInv, TurnsOK
    <3>2. Rotates => 0 < NumExtras
      BY PairFacts, JupiterAssumption DEF Rotates
    <3> QED
      BY <3>1, <3>2
  <2>3. ASSUME NEW i \in 1 .. NumExtras, p = ExtraPairs[i]
        PROVE  IF Rotates THEN jupMissed[p] * (MaxPairs - 1) < NumExtras ELSE jupMissed[p] = 0
    <3>1. CASE ~Rotates
      BY <2>1, <2>3, <3>1 DEF JupiterInv, TurnsOK
    <3>2. CASE Rotates
      <4> DEFINE waited == jupMissed[p] * (MaxPairs - 1)
      <4>1. waited \in Nat
        <5>1. jupMissed[p] \in Nat /\ MaxPairs - 1 \in Nat
          BY <3>2, JupiterAssumption DEF Rotates, JupiterInv, JupTypeOK
        <5> QED
          BY <5>1, OneMore
      <4>2. waited + Ahead(i) <= NumExtras - 1
        BY <2>1, <2>3, <3>2 DEF JupiterInv, TurnsOK
      <4>3. Ahead(i) \in Nat
        BY <3>2, PairFacts DEF Ahead, JupiterInv, JupTypeOK
      <4> HIDE DEF waited
      <4>4. waited < NumExtras
        BY <4>1, <4>2, <4>3, PairFacts
      <4> QED
        BY <3>2, <4>4 DEF waited
    <3> QED
      BY <3>1, <3>2
  <2> QED
    BY <2>2, <2>3, PairFacts
<1> QED
  BY <1>1, <1>2

\* For any pairs, any number of places per scan and any cooldown: a pair is never
\* asked for within the cooldown of the scan in which it got a 429, and none waits
\* longer than the rotation takes to come round, unless it is cooling down itself.
THEOREM PairsAskedInTurnCorrect == Spec => []PairsAskedInTurn
<1>1. Init => JupiterInv
  BY JupiterInit DEF Init
<1>2. JupiterInv /\ [Next]_componentVars => JupiterInv'
  BY MarketSteps, JupiterKeeps
<1> QED
  BY <1>1, <1>2, JupiterInvImplies, PTL DEF Spec

-----------------------------------------------------------------------------
(* Pools: their vaults and their prices                                    *)

PoolListing == [id : RaySet, vaults : RaySet \cup {NoVaults}]

\* A pool with vaults has its own, and was vetted or comes with them; before the
\* first answer was taken only the latter, and nothing has been quoted.
PoolInv ==
    /\ rayList \in Seq(PoolListing)
    /\ rayCached \in BOOLEAN
    /\ rayStage = "resolved" => rayCached
    /\ \A n \in WithVaults : /\ rayList[n].vaults = rayList[n].id
                             /\ rayList[n].id \in (IF rayCached THEN rayVetted \cup PresetPools ELSE PresetPools)
    /\ ~rayCached => rayQuotes = {}
    /\ QuotesFromOwnVaults

\* Places count the positions one by one.
LEMMA Places ==
    ASSUME NEW P \in SUBSET Nat, IsFiniteSet(P)
    PROVE  /\ Cardinality(P) \in Nat
           /\ \A n \in P : Place(n, P) \in 1 .. Cardinality(P)
           /\ \A n, m \in P : Place(n, P) = Place(m, P) => n = m
           /\ \A i \in 1 .. Cardinality(P) : \E n \in P : Place(n, P) = i
<1> DEFINE Upto(n) == {k \in P : k <= n}
           f == [n \in P |-> Place(n, P)]
           T == 1 .. Cardinality(P)
<1>1. Cardinality(P) \in Nat
  BY FS_CardinalityType
<1>2. \A n \in P : /\ IsFiniteSet(Upto(n)) /\ Cardinality(Upto(n)) \in Nat
                   /\ Cardinality(Upto(n)) <= Cardinality(P)
  <2> TAKE n \in P
  <2>1. Upto(n) \in SUBSET P
    OBVIOUS
  <2> HIDE DEF Upto
  <2> QED
    BY <2>1, FS_Subset, FS_CardinalityType
<1>3. \A n \in P : Place(n, P) \in T
  <2> TAKE n \in P
  <2>1. n \in Upto(n)
    OBVIOUS
  <2>2. Place(n, P) = Cardinality(Upto(n))
    BY DEF Place
  <2> HIDE DEF Upto
  <2>3. Cardinality(Upto(n)) # 0
    BY <1>2, <2>1, FS_EmptySet
  <2> QED
    BY <1>1, <1>2, <2>2, <2>3
<1>4. \A n, m \in P : n < m => Place(n, P) < Place(m, P)
  <2> SUFFICES ASSUME NEW n \in P, NEW m \in P, n < m PROVE Place(n, P) < Place(m, P)
    OBVIOUS
  <2>1. Upto(n) \in SUBSET Upto(m) /\ m \in Upto(m) /\ m \notin Upto(n)
    <3>1. n \in Nat /\ m \in Nat /\ \A k \in P : k \in Nat
      OBVIOUS
    <3>2. \A k \in P : k <= n => k <= m
      BY <3>1
    <3>3. m <= m /\ ~(m <= n)
      BY <3>1
    <3> QED
      BY <3>2, <3>3
  <2>2. Place(n, P) = Cardinality(Upto(n)) /\ Place(m, P) = Cardinality(Upto(m))
    BY DEF Place
  <2> DEFINE A == Upto(n)
             B == Upto(m)
  <2>3. A # B /\ A \in SUBSET B /\ IsFiniteSet(B) /\ Cardinality(A) \in Nat /\ Cardinality(B) \in Nat
    BY <1>2, <2>1
  <2> HIDE DEF A, B
  <2>4. Cardinality(A) <= Cardinality(B) /\ Cardinality(A) # Cardinality(B)
    BY <2>3, FS_Subset
  <2>5. Cardinality(A) < Cardinality(B)
    BY <2>3, <2>4
  <2> QED
    BY <2>2, <2>5 DEF A, B
<1>5. \A n, m \in P : Place(n, P) = Place(m, P) => n = m
  <2> SUFFICES ASSUME NEW n \in P, NEW m \in P, Place(n, P) = Place(m, P), n # m PROVE FALSE
    OBVIOUS
  <2>1. n < m \/ m < n
    OBVIOUS
  <2>2. Place(n, P) \in Nat
    BY <1>3
  <2> QED
    BY <1>4, <2>1, <2>2
<1>6. f \in [P -> T] /\ IsInjective(f)
  BY <1>3, <1>5 DEF IsInjective
<1>7. IsFiniteSet(T) /\ Cardinality(T) = Cardinality(P)
  BY <1>1, FS_Interval
<1> HIDE DEF f, T
<1>8. f \in Surjection(P, T)
  BY <1>6, <1>7, FS_Injection DEF Injection
<1>9. \A i \in T : \E n \in P : f[n] = i
  BY <1>8 DEF Surjection
<1> QED
  BY <1>1, <1>3, <1>5, <1>9 DEF f, T

\* The pools at some positions are those of the list, each at its place.
LEMMA PoolsAtPlaces ==
    ASSUME rayList \in Seq(PoolListing), NEW P \in SUBSET (DOMAIN rayList)
    PROVE  /\ PoolsAt(P) \in Seq(PoolListing) /\ Len(PoolsAt(P)) = Cardinality(P) /\ Cardinality(P) \in Nat
           /\ \A i \in 1 .. Cardinality(P) : \E n \in P : PoolsAt(P)[i] = rayList[n]
           /\ \A n \in P : Place(n, P) \in 1 .. Cardinality(P) /\ PoolsAt(P)[Place(n, P)] = rayList[n]
<1>1. P \in SUBSET Nat /\ IsFiniteSet(P)
  <2>1. DOMAIN rayList = 1 .. Len(rayList) /\ Len(rayList) \in Nat
    OBVIOUS
  <2>2. IsFiniteSet(DOMAIN rayList)
    BY <2>1, FS_Interval
  <2> QED
    BY <2>1, <2>2, FS_Subset
<1> DEFINE c == Cardinality(P)
           Pick(i) == CHOOSE n \in P : Place(n, P) = i
<1>2. c \in Nat /\ \A i \in 1 .. c : Pick(i) \in P /\ Place(Pick(i), P) = i
  BY <1>1, Places
<1>3. \A n \in P : Place(n, P) \in 1 .. c /\ Pick(Place(n, P)) = n
  BY <1>1, <1>2, Places
<1>4. PoolsAt(P) = [i \in 1 .. c |-> rayList[Pick(i)]]
  BY DEF PoolsAt
<1> HIDE DEF c, Pick
<1>5. \A i \in 1 .. c : rayList[Pick(i)] \in PoolListing
  BY <1>2
<1>6. PoolsAt(P) \in Seq(PoolListing) /\ Len(PoolsAt(P)) = c
  BY <1>2, <1>4, <1>5
<1> QED
  BY <1>2, <1>3, <1>4, <1>6 DEF c

\* The two accounts of the p-th pair.
LEMMA PairOfAccounts ==
    ASSUME NEW p \in Nat
    PROVE  /\ (2 * p) \div 2 = p /\ (2 * p + 1) \div 2 = p
           /\ (2 * p - 1) % 2 = 1 /\ (2 * p) % 2 = 0
  OBVIOUS

\* The two accounts of a pool are where the answer is read for it.
LEMMA OwnAccounts ==
    ASSUME PoolInv, NEW n \in WithVaults
    PROVE  /\ PairedAt(n) \in DOMAIN Keys /\ PairedAt(n) + 1 \in DOMAIN Keys
           /\ Keys[PairedAt(n)] = <<rayList[n].id, "base">>
           /\ Keys[PairedAt(n) + 1] = <<rayList[n].id, "quote">>
<1> DEFINE Listed == PoolsAt(WithVaults)
           c == Cardinality(WithVaults)
           p == Place(n, WithVaults)
<1>1. WithVaults \in SUBSET (DOMAIN rayList) /\ rayList \in Seq(PoolListing)
  BY DEF WithVaults, PoolInv
<1>2. p \in 1 .. c /\ c \in Nat /\ Len(Listed) = c /\ Listed[p] = rayList[n]
  BY <1>1, PoolsAtPlaces
<1>3. rayList[n].vaults = rayList[n].id
  BY DEF PoolInv
<1>4. Keys = [i \in 1 .. 2 * c |-> <<Listed[(i + 1) \div 2].vaults, IF i % 2 = 1 THEN "base" ELSE "quote">>]
  BY <1>2 DEF Keys
<1>5. PairedAt(n) = 2 * p - 1
  BY DEF PairedAt
<1> HIDE DEF Listed, c, p
<1>6. p \in Nat /\ 1 <= p /\ p <= c
  BY <1>2
<1>7. 2 * p - 1 \in 1 .. 2 * c /\ 2 * p \in 1 .. 2 * c /\ 2 * p - 1 + 1 = 2 * p
  BY <1>2, <1>6
<1>8. (2 * p) \div 2 = p /\ (2 * p + 1) \div 2 = p /\ (2 * p - 1) % 2 = 1 /\ (2 * p) % 2 = 0
  BY <1>6, PairOfAccounts
<1>9. DOMAIN Keys = 1 .. 2 * c
  BY <1>4
<1>10. Keys[2 * p - 1] = <<Listed[p].vaults, "base">>
  <2>1. Keys[2 * p - 1] = <<Listed[(2 * p - 1 + 1) \div 2].vaults, IF (2 * p - 1) % 2 = 1 THEN "base" ELSE "quote">>
    BY <1>4, <1>7
  <2> QED
    BY <1>7, <1>8, <2>1
<1>11. Keys[2 * p] = <<Listed[p].vaults, "quote">>
  <2>1. Keys[2 * p] = <<Listed[(2 * p + 1) \div 2].vaults, IF (2 * p) % 2 = 1 THEN "base" ELSE "quote">>
    BY <1>4, <1>7
  <2> QED
    BY <1>8, <2>1
<1> QED
  BY <1>2, <1>3, <1>5, <1>7, <1>9, <1>10, <1>11

\* What an answer resolves has its own vaults, and the right owner.
LEMMA ResolvedOwn ==
    ASSUME PoolInv, ~rayCached, NEW data \in PoolData
    PROVE  /\ Resolved(data) \in Seq(PoolListing)
           /\ \A i \in DOMAIN Resolved(data) :
                /\ Resolved(data)[i].vaults = Resolved(data)[i].id
                /\ Resolved(data)[i].id \in {p \in DOMAIN data : data[p] # "foreign"} \cup PresetPools
<1> DEFINE P == KeptBy(data)
           Kept == PoolsAt(P)
           c == Cardinality(P)
           vetted == {p \in DOMAIN data : data[p] # "foreign"}
<1>1. P \in SUBSET (DOMAIN rayList) /\ rayList \in Seq(PoolListing)
  BY DEF KeptBy, PoolInv
<1>2. /\ Kept \in Seq(PoolListing) /\ Len(Kept) = c /\ c \in Nat /\ DOMAIN Kept = 1 .. c
      /\ \A i \in 1 .. c : \E n \in P : Kept[i] = rayList[n]
  BY <1>1, PoolsAtPlaces
<1>3. \A n \in P : rayList[n].id \in vetted \cup PresetPools
  <2> SUFFICES ASSUME NEW n \in P PROVE rayList[n].id \in vetted \cup PresetPools
    OBVIOUS
  <2>1. CASE HasVaults(rayList[n])
    BY <1>1, <2>1 DEF PoolInv, WithVaults
  <2>2. CASE ~HasVaults(rayList[n])
    <3>1. data[rayList[n].id] = "good"
      BY <2>2 DEF KeptBy
    <3>2. rayList[n].id \in Missing
      BY <1>1, <2>2 DEF Missing, WithVaults
    <3> QED
      BY <3>1, <3>2 DEF PoolData
  <2> QED
    BY <2>1, <2>2
<1> HIDE DEF P, Kept, c
<1>4. \A i \in 1 .. c : Kept[i] \in PoolListing
  BY <1>2
<1> DEFINE Own(i) == [Kept[i] EXCEPT !.vaults = Kept[i].id]
           own == [i \in 1 .. c |-> Own(i)]
<1>5. Resolved(data) = own
  BY <1>2 DEF Resolved, Kept, P
<1>6. \A i \in 1 .. c : Own(i) \in PoolListing /\ Own(i).vaults = Own(i).id /\ Own(i).id = Kept[i].id
  BY <1>4 DEF PoolListing
<1> HIDE DEF Own
<1>7. own \in Seq(PoolListing) /\ DOMAIN own = 1 .. c /\ \A i \in 1 .. c : own[i] = Own(i)
  BY <1>2, <1>6
<1> HIDE DEF own, vetted
<1> QED
  BY <1>2, <1>3, <1>5, <1>6, <1>7 DEF vetted

\* The registry's vaults are each pool's own.
LEMMA PoolsInitially == PoolInit => PoolInv
<1> SUFFICES ASSUME PoolInit PROVE PoolInv
  OBVIOUS
<1> DEFINE E(i) == [id |-> RayPools[i], vaults |-> IF RayPools[i] \in PresetPools THEN RayPools[i] ELSE NoVaults]
           n == Len(RayPools)
<1>1. n \in Nat /\ DOMAIN RayPools = 1 .. n /\ \A i \in 1 .. n : RayPools[i] \in RaySet
  BY PoolsAssumption DEF RaySet
<1>2. rayList = [i \in 1 .. n |-> E(i)]
  BY <1>1 DEF PoolInit
<1>3. \A i \in 1 .. n : /\ E(i) \in PoolListing
                        /\ HasVaults(E(i)) => E(i).vaults = E(i).id /\ E(i).id \in PresetPools
  BY <1>1 DEF PoolListing, HasVaults
<1> HIDE DEF E, n
<1>4. rayList \in Seq(PoolListing) /\ DOMAIN rayList = 1 .. n
  BY <1>1, <1>2, <1>3
<1>5. \A i \in WithVaults : rayList[i].vaults = rayList[i].id /\ rayList[i].id \in PresetPools
  BY <1>2, <1>3, <1>4 DEF WithVaults
<1> QED
  BY <1>4, <1>5 DEF PoolInit, PoolInv, QuotesFromOwnVaults

\* No step of the pool sources breaks the invariant: pools leave the list before
\* anything is quoted, and each one's accounts are found by its place.
LEMMA PoolsKeep ==
    ASSUME PoolInv, [PoolNext]_chainVars
    PROVE  PoolInv'
<1>1. CASE UNCHANGED chainVars
  BY <1>1 DEF chainVars, PoolInv, QuotesFromOwnVaults, WithVaults
<1>2. CASE EnsureVaultsResolved
  <2>1. CASE UNCHANGED <<rayList, rayVetted>>
    BY <1>2, <2>1 DEF EnsureVaultsResolved, PoolInv, QuotesFromOwnVaults, WithVaults
  <2>2. ASSUME ~rayCached, NEW data \in PoolData,
               rayList' = Resolved(data), rayVetted' = {p \in DOMAIN data : data[p] # "foreign"}
        PROVE  PoolInv'
    <3>1. rayCached' = TRUE /\ rayQuotes = {} /\ rayQuotes' = {} /\ orcaQuotes' = orcaQuotes
      BY <1>2, <2>2 DEF EnsureVaultsResolved, PoolInv
    <3>2. /\ rayList' \in Seq(PoolListing)
          /\ \A n \in DOMAIN rayList' : rayList'[n].vaults = rayList'[n].id /\ rayList'[n].id \in rayVetted' \cup PresetPools
      BY <2>2, ResolvedOwn
    <3>3. WithVaults' \in SUBSET (DOMAIN rayList')
      BY DEF WithVaults
    <3>4. \A n \in WithVaults' : rayList'[n].vaults = rayList'[n].id /\ rayList'[n].id \in rayVetted' \cup PresetPools
      BY <3>2, <3>3
    <3>5. QuotesFromOwnVaults'
      BY <3>1 DEF PoolInv, QuotesFromOwnVaults
    <3> QED
      BY <3>1, <3>2, <3>4, <3>5 DEF PoolInv
  <2> QED
    BY <1>2, <2>1, <2>2 DEF EnsureVaultsResolved
<1>3. CASE RaydiumRaises
  BY <1>3 DEF RaydiumRaises, PoolInv, QuotesFromOwnVaults, WithVaults
<1>4. CASE ReadAndPrice
  <2>1. rayCached /\ UNCHANGED <<rayList, rayCached, rayVetted, orcaQuotes>> /\ rayStage' = "idle"
    BY <1>4 DEF ReadAndPrice, PoolInv
  <2>2. ASSUME NEW q \in rayQuotes'
        PROVE  /\ q.base = <<q.pool, "base">> /\ q.quote = <<q.pool, "quote">>
               /\ q.pool \in rayVetted \cup PresetPools
    <3>1. PICK data \in VaultData :
             rayQuotes' =
                {[pool |-> rayList[n].id, base |-> MultipleAccounts(Keys, data)[PairedAt(n)].key,
                  quote |-> MultipleAccounts(Keys, data)[PairedAt(n) + 1].key] :
                    n \in {k \in DOMAIN rayList : /\ HasVaults(rayList[k])
                                                  /\ MultipleAccounts(Keys, data)[PairedAt(k)].data
                                                  /\ MultipleAccounts(Keys, data)[PairedAt(k) + 1].data}}
      BY <1>4 DEF ReadAndPrice
    <3>2. PICK n \in WithVaults :
             q = [pool |-> rayList[n].id, base |-> MultipleAccounts(Keys, data)[PairedAt(n)].key,
                  quote |-> MultipleAccounts(Keys, data)[PairedAt(n) + 1].key]
      BY <2>2, <3>1 DEF WithVaults
    <3>3. \A i \in DOMAIN Keys : MultipleAccounts(Keys, data)[i].key = Keys[i]
      BY DEF MultipleAccounts
    <3>4. q.pool = rayList[n].id /\ q.base = Keys[PairedAt(n)] /\ q.quote = Keys[PairedAt(n) + 1]
      BY <3>2, <3>3, OwnAccounts
    <3>5. rayList[n].id \in rayVetted \cup PresetPools
      BY <2>1 DEF PoolInv
    <3> QED
      BY <3>4, <3>5, OwnAccounts
  <2>3. QuotesFromOwnVaults'
    BY <2>1, <2>2 DEF PoolInv, QuotesFromOwnVaults
  <2> QED
    BY <2>1, <2>3 DEF PoolInv, WithVaults
<1>5. CASE OrcaGetQuotes
  <2>1. UNCHANGED <<rayList, rayCached, rayStage, rayVetted, rayQuotes>>
    BY <1>5 DEF OrcaGetQuotes
  <2>2. \A q \in orcaQuotes' : q.account = q.pool
    <3>1. CASE orcaQuotes' = {}
      BY <3>1
    <3>2. ASSUME NEW data \in [OrcaSet -> WhirlpoolData],
                 orcaQuotes' = {[pool |-> OrcaPools[i], account |-> MultipleAccounts(OrcaPools, data)[i].key] :
                                    i \in {k \in DOMAIN MultipleAccounts(OrcaPools, data) :
                                              MultipleAccounts(OrcaPools, data)[k].data = "good"}}
          PROVE  \A q \in orcaQuotes' : q.account = q.pool
      <4>1. \A i \in DOMAIN MultipleAccounts(OrcaPools, data) : MultipleAccounts(OrcaPools, data)[i].key = OrcaPools[i]
        BY DEF MultipleAccounts
      <4> QED
        BY <3>2, <4>1
    <3> QED
      BY <1>5, <3>1, <3>2 DEF OrcaGetQuotes
  <2>3. QuotesFromOwnVaults'
    BY <2>1, <2>2 DEF PoolInv, QuotesFromOwnVaults
  <2> QED
    BY <2>1, <2>3 DEF PoolInv, WithVaults
<1>6. ASSUME NEW id \in RaySet, QuoteAtSize(id)
      PROVE  PoolInv'
  <2>1. rayCached /\ UNCHANGED <<rayList, rayCached, rayVetted, orcaQuotes>> /\ rayStage' = "idle"
    BY <1>6 DEF QuoteAtSize, PoolInv
  <2>2. ASSUME NEW n \in DOMAIN rayList, rayList[n].id = id, HasVaults(rayList[n]),
               rayQuotes' = {[pool |-> id, base |-> <<rayList[n].vaults, "base">>, quote |-> <<rayList[n].vaults, "quote">>]}
        PROVE  QuotesFromOwnVaults'
    <3>1. n \in WithVaults
      BY <2>2 DEF WithVaults
    <3>2. rayList[n].vaults = id /\ id \in rayVetted \cup PresetPools
      BY <2>1, <2>2, <3>1 DEF PoolInv
    <3> QED
      BY <2>1, <2>2, <3>2 DEF PoolInv, QuotesFromOwnVaults
  <2>3. rayQuotes' = {} => QuotesFromOwnVaults'
    BY <2>1 DEF PoolInv, QuotesFromOwnVaults
  <2>4. QuotesFromOwnVaults'
    BY <1>6, <2>2, <2>3 DEF QuoteAtSize
  <2> QED
    BY <2>1, <2>4 DEF PoolInv, WithVaults
<1> QED
  BY <1>1, <1>2, <1>3, <1>4, <1>5, <1>6 DEF PoolNext

\* Products of naturals, and what is lost or kept by multiplying.
LEMMA Products ==
    ASSUME NEW a \in Nat, NEW b \in Nat
    PROVE  /\ a * b \in Nat
           /\ a > 0 /\ b > 0 => a * b > 0
           /\ \A c \in Nat : a <= c => a * b <= c * b
  OBVIOUS

\* A product grows with both factors.
LEMMA ProductGrows ==
    ASSUME NEW a \in Nat, NEW b \in Nat, NEW c \in Nat, NEW d \in Nat, a <= c, b <= d
    PROVE  a * b \in Nat /\ c * d \in Nat /\ a * b <= c * d
<1>1. a * b <= c * b /\ a * b \in Nat /\ c * b \in Nat
  BY Products
<1>2. b * c <= d * c /\ d * c \in Nat
  BY Products
<1>3. b * c = c * b /\ d * c = c * d
  OBVIOUS
<1> QED
  BY <1>1, <1>2, <1>3

\* The spot price lies under the midpoint, over what a seller gets of a swap of
\* any size and under what a buyer pays. D is the divisor, rest what the fee
\* leaves of it, and spot what half the fee leaves of twice it.
LEMMA SpotBounds ==
    ASSUME NEW base \in Nat, NEW quote \in Nat, NEW amount \in Nat, NEW D \in Nat, NEW rest \in Nat, NEW spot \in Nat,
           spot = D + rest, rest <= D
    PROVE  /\ (quote * spot) * base <= quote * (base * 2 * D)
           /\ (quote * (amount * rest)) * (base * 2 * D) <= (quote * spot) * ((base * D + amount * rest) * amount)
           /\ (quote * spot) * (base * (amount * rest)) <= (amount * (quote * D + amount * rest)) * (base * 2 * D)
  OBVIOUS

\* No pool, however deep, and no swap makes the spot price the worse one.
LEMMA SpotOfAnySwap ==
    ASSUME swap \in Swaps
    PROVE  SpotIsOptimistic
<1> DEFINE D == BpsDivisor
           rest == BpsDivisor - swap.fee
           spot == 2 * BpsDivisor - swap.fee
<1>1. /\ swap.base \in Nat /\ swap.quote \in Nat /\ swap.amount \in Nat
      /\ swap.fee \in Nat /\ swap.fee <= D /\ D \in Nat
  <2>1. BpsDivisor \in Nat /\ MaxReserve \in Nat
    BY PoolsAssumption
  <2> QED
    BY <2>1 DEF Swaps
<1>2. rest \in Nat /\ spot \in Nat /\ spot = D + rest /\ rest <= D
  BY <1>1
<1>3. SpotPrice(swap) = <<swap.quote * spot, swap.base * 2 * D>> /\ Midpoint(swap) = <<swap.quote, swap.base>>
  BY DEF SpotPrice, Midpoint
<1>4. swap.sell => AmountOut(swap) = <<swap.quote * (swap.amount * rest), swap.base * D + swap.amount * rest>>
  BY DEF AmountOut
<1>5. ~swap.sell => AmountOut(swap) = <<swap.base * (swap.amount * rest), swap.quote * D + swap.amount * rest>>
  BY DEF AmountOut
<1> HIDE DEF D, rest, spot
<1>6. AtMost(SpotPrice(swap), Midpoint(swap))
  BY <1>1, <1>2, <1>3, SpotBounds DEF AtMost
<1>7. CASE swap.sell
  <2> DEFINE got == <<AmountOut(swap)[1], AmountOut(swap)[2] * swap.amount>>
  <2>1. got = <<swap.quote * (swap.amount * rest), (swap.base * D + swap.amount * rest) * swap.amount>>
    BY <1>4, <1>7
  <2> HIDE DEF got
  <2>2. AtMost(got, SpotPrice(swap))
    BY <1>1, <1>2, <1>3, <2>1, SpotBounds DEF AtMost
  <2> QED
    BY <1>6, <1>7, <2>2 DEF SpotIsOptimistic, got
<1>8. CASE ~swap.sell
  <2> DEFINE paid == <<swap.amount * AmountOut(swap)[2], AmountOut(swap)[1]>>
  <2>1. paid = <<swap.amount * (swap.quote * D + swap.amount * rest), swap.base * (swap.amount * rest)>>
    BY <1>5, <1>8
  <2> HIDE DEF paid
  <2>2. AtMost(SpotPrice(swap), paid)
    BY <1>1, <1>2, <1>3, <2>1, SpotBounds DEF AtMost
  <2> QED
    BY <1>6, <1>8, <2>2 DEF SpotIsOptimistic, paid
<1> QED
  BY <1>7, <1>8

\* The swap that is priced is one of them.
LEMMA SwapChosen ==
    ASSUME swap \in Swaps, [PriceNext]_swap
    PROVE  swap' \in Swaps
  BY DEF PriceNext, Choose

\* So is no swap at all.
LEMMA SwapInitially == PoolInit => swap \in Swaps
  BY PoolsAssumption DEF PoolInit, NoSwap, Swaps

\* For any pools, any registry of vaults and any answers of the node: a quote is
\* priced from its own pool's vaults. For any reserves, fee and size: its price
\* is on the optimistic side of the swap's.
THEOREM PoolQuotesSoundCorrect == Spec => []PoolQuotesSound
<1> DEFINE I == PoolInv /\ swap \in Swaps
<1>1. Init => I
  BY PoolsInitially, SwapInitially DEF Init
<1>2. I /\ [Next]_componentVars => I'
  BY MarketSteps, PoolsKeep, SwapChosen
<1>3. I => PoolQuotesSound
  BY SpotOfAnySwap DEF PoolInv, PoolQuotesSound
<1> QED
  BY <1>1, <1>2, <1>3, PTL DEF Spec

-----------------------------------------------------------------------------
(* The scanner                                                             *)

\* The records of a scan give each of its routes one verdict, and say "passed" of
\* what was found.
Judged(judgements, quotes, queue) ==
    /\ IsFiniteSet(judgements)
    /\ {r.route : r \in judgements} = IF Cardinality(quotes) < 2 THEN {} ELSE Evaluated(quotes)
    /\ \A r1, r2 \in judgements : r1.route = r2.route => r1 = r2
    /\ \A r \in queue : [route |-> r, reason |-> "passed"] \in judgements

\* A route that sells for more than it buys for.
Gains(route) == route \in Routes /\ route.sell.sellPrice > route.buy.buyPrice

ScannerInv ==
    /\ scanStage \in {"fetch", "scan", "drain", "observe"}
    /\ scanQuotes \in SUBSET ScanQuotes /\ solPrice \in Nat
    /\ scanStage # "drain" => pendingRecords = {}
    /\ scanStage = "drain" => Judged(pendingRecords, scanQuotes, found)
    /\ scanStage = "observe" => Judged(records, scanQuotes, found)
    /\ \A r \in found : Gains(r)

\* The fields of a quote.
LEMMA QuoteFacts ==
    /\ Divisor \in Nat \ {0}
    /\ Slippage \in Nat /\ PriorityFee \in Nat /\ MinProfit \in Nat
    /\ \A q \in ScanQuotes :
          /\ q.sellPrice \in Nat /\ q.buyPrice \in Nat /\ q.sellPrice <= q.buyPrice
          /\ q.liquidity \in Nat /\ q.fee \in 0 .. Divisor - 1
  BY ScannerAssumption

\* Half of a positive number.
LEMMA HalfBelow ==
    ASSUME NEW n \in Nat \ {0}
    PROVE  n \div 2 \in Nat /\ n \div 2 < n
  OBVIOUS

\* The prices of some quotes, and the quotes up to a price and under it.
PricesOf(S) == {q.buyPrice : q \in S}
UpToPrice(S, x) == {q \in S : q.buyPrice <= x}
UnderPrice(S, x) == {q \in S : q.buyPrice < x}

\* Quotes are finitely many, and so are those up to any price.
LEMMA FiniteQuotes ==
    ASSUME NEW S \in SUBSET ScanQuotes
    PROVE  /\ IsFiniteSet(S) /\ Cardinality(S) \in Nat
           /\ \A x : Cardinality(UpToPrice(S, x)) \in Nat /\ Cardinality(UpToPrice(S, x)) <= Cardinality(S)
           /\ PricesOf(S) \in SUBSET Nat
           /\ \A q \in S : q.buyPrice \in Nat /\ q.buyPrice \in PricesOf(S)
<1>1. IsFiniteSet(S) /\ Cardinality(S) \in Nat
  BY FS_Subset, FS_CardinalityType, ScannerAssumption
<1>2. ASSUME NEW x
      PROVE  Cardinality(UpToPrice(S, x)) \in Nat /\ Cardinality(UpToPrice(S, x)) <= Cardinality(S)
  <2>1. UpToPrice(S, x) \in SUBSET S
    BY DEF UpToPrice
  <2> QED
    BY <1>1, <2>1, FS_Subset, FS_CardinalityType
<1>3. \A q \in S : q.buyPrice \in Nat
  BY QuoteFacts
<1> QED
  BY <1>1, <1>2, <1>3 DEF PricesOf

\* More quotes lie up to a price than up to a lower one which is asked.
LEMMA UpToGrows ==
    ASSUME NEW S \in SUBSET ScanQuotes, NEW q \in S, NEW x \in Nat, x < q.buyPrice
    PROVE  Cardinality(UpToPrice(S, x)) < Cardinality(UpToPrice(S, q.buyPrice))
<1> DEFINE y == q.buyPrice
<1>1. y \in Nat /\ IsFiniteSet(UpToPrice(S, y))
  <2>1. UpToPrice(S, y) \in SUBSET S
    BY DEF UpToPrice
  <2> QED
    BY <2>1, FiniteQuotes, FS_Subset
<1>2. \A r \in S : r.buyPrice \in Nat
  BY FiniteQuotes
<1>3. UpToPrice(S, x) \in SUBSET UpToPrice(S, y)
  BY <1>1, <1>2 DEF UpToPrice
<1>4. q \in UpToPrice(S, y) /\ q \notin UpToPrice(S, x)
  BY <1>1 DEF UpToPrice
<1> DEFINE A == UpToPrice(S, x)
           B == UpToPrice(S, y)
<1>5. Cardinality(A) \in Nat /\ Cardinality(B) \in Nat
  BY FiniteQuotes
<1>6. Cardinality(A) <= Cardinality(B) /\ (Cardinality(A) = Cardinality(B) => A = B)
  BY <1>1, <1>3, FS_Subset
<1> HIDE DEF A, B
<1>7. A # B
  BY <1>4 DEF A, B
<1>8. Cardinality(A) < Cardinality(B)
  BY <1>5, <1>6, <1>7
<1> QED
  BY <1>8 DEF A, B

\* Some price is the highest.
LEMMA HighestPrice ==
    ASSUME NEW S \in SUBSET ScanQuotes, S # {}
    PROVE  \E x \in PricesOf(S) : UpToPrice(S, x) = S
<1> DEFINE Count(x) == Cardinality(UpToPrice(S, x))
           n == Cardinality(S)
           Short == {n - Count(x) : x \in PricesOf(S)}
<1>1. n \in Nat /\ \A x : Count(x) \in Nat /\ Count(x) <= n
  BY FiniteQuotes
<1>2. PricesOf(S) # {}
  BY DEF PricesOf
<1> HIDE DEF Count, n
<1>3. \A x : n - Count(x) \in Nat
  <2> TAKE x
  <2>1. Count(x) \in Nat /\ Count(x) <= n
    BY <1>1
  <2> QED
    BY <1>1, <2>1
<1>4. Short \in SUBSET Nat /\ Short # {}
  BY <1>2, <1>3
<1>5. PICK x \in PricesOf(S) : \A y \in PricesOf(S) : n - Count(x) <= n - Count(y)
  <2>1. PICK t \in Short : \A u \in Short : t <= u
    <3> HIDE DEF Short
    <3> QED
      BY <1>4, LeastNatural
  <2> QED
    BY <2>1
<1>6. ASSUME NEW q \in S, ~(q.buyPrice <= x)
      PROVE  FALSE
  <2>1. q.buyPrice \in PricesOf(S) /\ q.buyPrice \in Nat /\ x \in Nat
    BY FiniteQuotes
  <2>2. x < q.buyPrice
    BY <1>6, <2>1
  <2>3. Count(x) < Count(q.buyPrice)
    BY <2>1, <2>2, UpToGrows DEF Count
  <2>4. n - Count(x) <= n - Count(q.buyPrice)
    BY <1>5, <2>1
  <2>5. Count(x) \in Nat /\ Count(q.buyPrice) \in Nat
    BY <1>1
  <2> QED
    BY <1>1, <2>3, <2>4, <2>5
<1>7. UpToPrice(S, x) = S
  BY <1>6 DEF UpToPrice
<1> QED
  BY <1>7

\* The upper middle of the prices exists, so that the choice of SolPrice is one
\* of them.
LEMMA MiddlePrice ==
    ASSUME NEW S \in SUBSET ScanQuotes, S # {}
    PROVE  \E x \in PricesOf(S) : /\ Cardinality(UnderPrice(S, x)) <= Cardinality(S) \div 2
                                  /\ Cardinality(UpToPrice(S, x)) > Cardinality(S) \div 2
<1> DEFINE n == Cardinality(S)
           h == n \div 2
           Late == {x \in PricesOf(S) : Cardinality(UpToPrice(S, x)) > h}
<1>1. h \in Nat /\ h < n
  <2>1. n \in Nat \ {0}
    BY FiniteQuotes, FS_EmptySet
  <2> HIDE DEF n
  <2> QED
    BY <2>1, HalfBelow
<1> HIDE DEF h
<1>2. Late \in SUBSET Nat /\ Late # {}
  <2>1. PICK x \in PricesOf(S) : UpToPrice(S, x) = S
    BY HighestPrice
  <2>2. n \in Nat
    BY FiniteQuotes
  <2>3. x \in Late
    BY <1>1, <2>1, <2>2
  <2> QED
    BY <2>3, FiniteQuotes
<1>3. PICK m \in Late : \A y \in Late : m <= y
  <2> HIDE DEF Late
  <2> QED
    BY <1>2, LeastNatural
<1>4. m \in Nat
  BY <1>2
<1>5. Cardinality(UnderPrice(S, m)) <= h
  <2> DEFINE B == UnderPrice(S, m)
  <2>1. CASE B = {}
    BY <1>1, <2>1, FS_EmptySet
  <2>2. CASE B # {}
    <3>1. B \in SUBSET ScanQuotes /\ B \in SUBSET S
      BY DEF UnderPrice
    <3>2. PICK y \in PricesOf(B) : UpToPrice(B, y) = B
      <4> HIDE DEF B
      <4> QED
        BY <2>2, <3>1, HighestPrice
    <3>3. PICK q \in B : y = q.buyPrice
      BY <3>2 DEF PricesOf
    <3>4. q \in S /\ q.buyPrice < m
      BY <3>3 DEF UnderPrice
    <3>5. y \in PricesOf(S) /\ y \in Nat /\ y < m
      BY <3>3, <3>4, FiniteQuotes
    <3>6. B = UpToPrice(S, y)
      <4>1. ASSUME NEW r \in S, r.buyPrice <= y PROVE r \in B
        <5>1. r.buyPrice \in Nat
          BY FiniteQuotes
        <5>2. r.buyPrice < m
          BY <1>4, <3>5, <4>1, <5>1
        <5> QED
          BY <5>2 DEF UnderPrice
      <4>2. ASSUME NEW r \in B PROVE r \in S /\ r.buyPrice <= y
        <5>1. r \in UpToPrice(B, y)
          BY <3>2
        <5> QED
          BY <3>1, <5>1 DEF UpToPrice
      <4> QED
        BY <4>1, <4>2 DEF UpToPrice
    <3>7. ~(Cardinality(UpToPrice(S, y)) > h)
      <4>1. y \notin Late
        BY <1>3, <1>4, <3>5
      <4> QED
        BY <3>5, <4>1
    <3>8. Cardinality(UpToPrice(S, y)) \in Nat
      BY FiniteQuotes
    <3> QED
      BY <1>1, <3>6, <3>7, <3>8
  <2> QED
    BY <2>1, <2>2
<1> QED
  BY <1>3, <1>5 DEF h

\* So that the reference price of SOL stays a price.
LEMMA SolPriceNat ==
    ASSUME solPrice \in Nat, NEW quotes \in SUBSET ScanQuotes
    PROVE  SolPrice(quotes) \in Nat
<1> DEFINE Sol == {q \in quotes : q.pair \in SolBase /\ q.buyPrice > 0}
           Middle(x) == /\ Cardinality({q \in Sol : q.buyPrice < x}) <= Cardinality(Sol) \div 2
                        /\ Cardinality({q \in Sol : q.buyPrice <= x}) > Cardinality(Sol) \div 2
           Prices == {q.buyPrice : q \in Sol}
<1>1. CASE Sol = {}
  BY <1>1 DEF SolPrice
<1>2. CASE Sol # {}
  <2>1. Sol \in SUBSET ScanQuotes
    OBVIOUS
  <2>2. SolPrice(quotes) = CHOOSE x \in Prices : Middle(x)
    BY <1>2 DEF SolPrice
  <2> HIDE DEF Sol
  <2>3. \E x \in Prices : Middle(x)
    BY <1>2, <2>1, MiddlePrice DEF PricesOf, UpToPrice, UnderPrice
  <2>4. Prices \in SUBSET Nat
    BY <2>1, FiniteQuotes DEF PricesOf
  <2> HIDE DEF Middle, Prices
  <2> QED
    BY <2>2, <2>3, <2>4
<1> QED
  BY <1>1, <1>2

\* A fraction with a positive numerator has a positive numerator.
LEMMA PositiveFactor ==
    ASSUME NEW n \in Int, NEW f \in Nat \ {0}, n * f > 0
    PROVE  n > 0
  OBVIOUS

\* What the route brings, in the quote's currency, is positive only when it sells
\* for more than it buys for: the fees and the slippage only take off.
LEMMA NetGains ==
    ASSUME NEW route \in Routes
    PROVE  /\ NetQuote(route)[1] \in Int /\ NetQuote(route)[2] \in Nat
           /\ NetQuote(route)[1] > 0 => route.sell.sellPrice > route.buy.buyPrice
<1> DEFINE b == route.buy
           s == route.sell
           liquidity == Lesser(b.liquidity, s.liquidity)
           L == IF liquidity > 0 THEN liquidity ELSE 1
           depth == IF liquidity > 0 THEN L + b.buyPrice ELSE L
           buyFee == IF b.feeIncluded THEN 0 ELSE b.fee
           sellFee == IF s.feeIncluded THEN 0 ELSE s.fee
           K == Divisor - buyFee
           J == Divisor - sellFee
           buy == b.buyPrice
           sell == s.sellPrice
<1>1. b \in ScanQuotes /\ s \in ScanQuotes
  BY DEF Routes
<1>2. buy \in Nat /\ sell \in Nat /\ b.liquidity \in Nat /\ s.liquidity \in Nat
  BY <1>1, QuoteFacts
<1>3. b.fee \in Nat /\ b.fee < Divisor /\ s.fee \in Nat /\ s.fee < Divisor
  BY <1>1, QuoteFacts
<1>4. Divisor \in Nat /\ Slippage \in Nat
  BY QuoteFacts
<1>5. K \in Nat /\ K <= Divisor /\ J \in Nat /\ J <= Divisor
  BY <1>3, <1>4
<1>6. L \in Nat /\ depth \in Nat
  <2>1. liquidity \in Nat
    BY <1>2 DEF Lesser
  <2> HIDE DEF liquidity, b
  <2> QED
    BY <1>2, <2>1
<1>7. NetQuote(route) = <<sell * J * K * L - buy * Divisor * Divisor * L - buy * Slippage * depth * K, Divisor * K * L>>
  BY DEF NetQuote
<1> HIDE DEF b, s, L, depth, K, J, buy, sell
<1>8. /\ sell * J \in Nat /\ sell * J * K \in Nat /\ sell * J * K * L \in Nat
      /\ buy * Divisor \in Nat /\ buy * Divisor * Divisor \in Nat /\ buy * Divisor * Divisor * L \in Nat
      /\ buy * Slippage \in Nat /\ buy * Slippage * depth \in Nat /\ buy * Slippage * depth * K \in Nat
      /\ Divisor * K \in Nat /\ Divisor * K * L \in Nat
  BY <1>2, <1>4, <1>5, <1>6, Products
<1>9. ASSUME ~(sell > buy)
      PROVE  sell * J * K * L <= buy * Divisor * Divisor * L
  <2>1. sell <= buy
    BY <1>2, <1>9
  <2>2. sell * J <= buy * Divisor
    BY <1>2, <1>4, <1>5, <2>1, ProductGrows
  <2>3. sell * J * K <= buy * Divisor * Divisor
    BY <1>4, <1>5, <1>8, <2>2, ProductGrows
  <2> QED
    BY <1>6, <1>8, <2>3, ProductGrows
<1> DEFINE x == sell * J * K * L
           y == buy * Divisor * Divisor * L
           z == buy * Slippage * depth * K
<1>10. x \in Nat /\ y \in Nat /\ z \in Nat /\ (~(sell > buy) => x <= y)
  BY <1>8, <1>9
<1>11. NetQuote(route)[1] = x - y - z /\ NetQuote(route)[2] = Divisor * K * L
  BY <1>7
<1> HIDE DEF x, y, z
<1>12. x - y - z \in Int /\ (x - y - z > 0 => sell > buy)
  BY <1>10
<1> QED
  BY <1>8, <1>11, <1>12 DEF b, s, buy, sell

\* One SOL is never worth a negative amount of the quote's currency.
LEMMA ConversionNat ==
    ASSUME NEW route \in Routes, NEW sol \in Nat
    PROVE  TwiceConversion(route, sol) \in Nat
<1>1. route.buy.buyPrice \in Nat /\ route.sell.sellPrice \in Nat
  BY QuoteFacts DEF Routes
<1>2. route.buy.buyPrice + route.sell.sellPrice \in Nat /\ 2 * Divisor \in Nat /\ 2 * sol \in Nat
  BY <1>1, QuoteFacts
<1>3. \/ TwiceConversion(route, sol) = 2 * Divisor
      \/ TwiceConversion(route, sol) = route.buy.buyPrice + route.sell.sellPrice
      \/ TwiceConversion(route, sol) = 2 * sol
  BY DEF TwiceConversion
<1> QED
  BY <1>2, <1>3

\* What passes the strategy gains.
LEMMA ProfitGains ==
    ASSUME NEW route \in Routes, NEW sol \in Nat, NetBeyond(route, MinProfit, sol) > 0
    PROVE  Gains(route)
<1> DEFINE n == NetQuote(route)[1]
           d == NetQuote(route)[2]
           cost == (MinProfit + PriorityFee) * TwiceConversion(route, sol) * d
<1>1. n \in Int /\ d \in Nat
  BY NetGains
<1>2. cost \in Nat
  <2>1. MinProfit + PriorityFee \in Nat /\ TwiceConversion(route, sol) \in Nat
    BY QuoteFacts, ConversionNat
  <2>2. (MinProfit + PriorityFee) * TwiceConversion(route, sol) \in Nat
    BY <2>1, Products
  <2> QED
    BY <1>1, <2>2, Products
<1>3. n * 2 * Divisor - cost > 0
  BY DEF NetBeyond
<1> HIDE DEF n, d, cost
<1>4. n * 2 \in Int /\ (n * 2) * Divisor > 0
  BY <1>1, <1>2, <1>3, QuoteFacts
<1>5. n * 2 > 0
  BY <1>4, PositiveFactor, QuoteFacts
<1>6. n > 0
  BY <1>1, <1>5
<1> QED
  BY <1>6, NetGains DEF n, Gains

\* The routes of a scan are routes, and finitely many.
LEMMA EvaluatedFinite ==
    ASSUME NEW quotes \in SUBSET ScanQuotes
    PROVE  Evaluated(quotes) \in SUBSET Routes /\ IsFiniteSet(Evaluated(quotes))
<1> DEFINE Both == quotes \X quotes
           Ways == [buy : quotes, sell : quotes]
           way == [p \in Both |-> [buy |-> p[1], sell |-> p[2]]]
<1>1. IsFiniteSet(Both)
  BY FiniteQuotes, FS_Product
<1>2. way \in Surjection(Both, Ways)
  <2>1. way \in [Both -> Ways]
    OBVIOUS
  <2>2. ASSUME NEW r \in Ways
        PROVE  \E p \in Both : way[p] = r
    <3>1. <<r.buy, r.sell>> \in Both /\ r = [buy |-> r.buy, sell |-> r.sell]
      OBVIOUS
    <3>2. way[<<r.buy, r.sell>>] = r
      BY <3>1
    <3> QED
      BY <3>1, <3>2
  <2> HIDE DEF way
  <2> QED
    BY <2>1, <2>2 DEF Surjection
<1>3. IsFiniteSet(Ways)
  <2> HIDE DEF way, Both, Ways
  <2> QED
    BY <1>1, <1>2, FS_Surjection
<1>4. Evaluated(quotes) \in SUBSET Ways
  BY DEF Evaluated
<1>5. Evaluated(quotes) \in SUBSET Routes
  BY DEF Evaluated, Routes
<1> HIDE DEF Ways
<1> QED
  BY <1>3, <1>4, <1>5, FS_Subset

\* A function whose images tell its arguments apart keeps the number of them.
LEMMA SameNumber ==
    ASSUME NEW S, IsFiniteSet(S), NEW f, f \in [S -> {f[x] : x \in S}],
           \A x, y \in S : f[x] = f[y] => x = y
    PROVE  IsFiniteSet({f[x] : x \in S}) /\ Cardinality({f[x] : x \in S}) = Cardinality(S)
<1> DEFINE T == {f[x] : x \in S}
<1>1. f \in Surjection(S, T) /\ f \in Injection(S, T)
  <2>1. f \in [S -> T] /\ \A t \in T : \E x \in S : f[x] = t
    OBVIOUS
  <2> HIDE DEF T
  <2>2. DOMAIN f = S /\ IsInjective(f)
    BY <2>1 DEF IsInjective
  <2> QED
    BY <2>1, <2>2 DEF Surjection, Injection
<1> HIDE DEF T
<1>2. IsFiniteSet(T) /\ Cardinality(T) = Cardinality(S)
  BY <1>1, FS_Surjection
<1> QED
  BY <1>2 DEF T

\* The records that a scan writes judge its routes.
LEMMA WrittenJudges ==
    ASSUME NEW quotes \in SUBSET ScanQuotes, ~(Cardinality(quotes) < 2),
           NEW queue \in SUBSET {r \in Evaluated(quotes) : Reason(r, quotes) = "passed"}
    PROVE  Judged({[route |-> r, reason |-> Reason(r, quotes)] : r \in Evaluated(quotes)}, quotes, queue)
<1> DEFINE E == Evaluated(quotes)
           f == [r \in E |-> [route |-> r, reason |-> Reason(r, quotes)]]
           written == {[route |-> r, reason |-> Reason(r, quotes)] : r \in E}
<1>1. IsFiniteSet(E)
  BY EvaluatedFinite
<1>2. written = {f[r] : r \in E} /\ f \in [E -> {f[r] : r \in E}]
  OBVIOUS
<1>3. \A r1, r2 \in E : f[r1] = f[r2] => r1 = r2
  <2> TAKE r1, r2 \in E
  <2>1. f[r1].route = r1 /\ f[r2].route = r2
    OBVIOUS
  <2> QED
    BY <2>1
<1>4. IsFiniteSet(written)
  <2> HIDE DEF f, written, E
  <2> QED
    BY <1>1, <1>2, <1>3, SameNumber
<1>5. {w.route : w \in written} = E
  <2> HIDE DEF E
  <2>1. \A r \in E : [route |-> r, reason |-> Reason(r, quotes)].route = r
    OBVIOUS
  <2> QED
    BY <2>1
<1>6. \A w1, w2 \in written : w1.route = w2.route => w1 = w2
  OBVIOUS
<1>7. \A r \in queue : [route |-> r, reason |-> "passed"] \in written
  OBVIOUS
<1> QED
  BY <1>4, <1>5, <1>6, <1>7 DEF Judged

\* A scan of fewer than two quotes judges nothing.
LEMMA NothingJudged ==
    ASSUME NEW quotes, Cardinality(quotes) < 2
    PROVE  Judged({}, quotes, {})
  BY FS_EmptySet DEF Judged

\* What a scan finds gains.
LEMMA PassedGains ==
    ASSUME solPrice \in Nat, NEW quotes \in SUBSET ScanQuotes,
           NEW route \in Evaluated(quotes), Reason(route, quotes) = "passed"
    PROVE  Gains(route)
<1>1. route \in Routes /\ SolPrice(quotes) \in Nat
  BY EvaluatedFinite, SolPriceNat
<1>2. ~(NetBeyond(route, MinProfit, SolPrice(quotes)) <= 0)
  BY DEF Reason
<1>3. NetBeyond(route, MinProfit, SolPrice(quotes)) \in Int
  <2> DEFINE sol == SolPrice(quotes)
             a == NetQuote(route)[1]
             d == NetQuote(route)[2]
  <2>1. a \in Int /\ d \in Nat /\ TwiceConversion(route, sol) \in Nat /\ Divisor \in Nat /\ MinProfit + PriorityFee \in Nat
    BY <1>1, NetGains, ConversionNat, QuoteFacts
  <2>2. NetBeyond(route, MinProfit, sol) = a * 2 * Divisor - (MinProfit + PriorityFee) * TwiceConversion(route, sol) * d
    BY DEF NetBeyond
  <2> HIDE DEF sol, a, d
  <2>3. NetBeyond(route, MinProfit, sol) \in Int
    BY <2>1, <2>2
  <2> QED
    BY <2>3 DEF sol
<1>4. NetBeyond(route, MinProfit, SolPrice(quotes)) > 0
  BY <1>2, <1>3
<1> QED
  BY <1>1, <1>4, ProfitGains

\* Nothing has been judged before the first scan.
LEMMA ScannerInit == ScanInit => ScannerInv
  BY ScannerAssumption DEF ScanInit, ScannerInv

\* What each part does to the scanner's invariant.
LEMMA ScannerKeeps ==
    ASSUME ScannerInv,
           \/ ScanNext
           \/ BotNext /\ UNCHANGED <<scanQuotes, scanStage, found, pendingRecords, records, hits>>
           \/ UNCHANGED scanVars
    PROVE  ScannerInv'
<1>1. CASE FetchQuotes
  <2>1. scanQuotes' \in SUBSET ScanQuotes
    BY <1>1 DEF FetchQuotes, QuoteSets, kSubset
  <2> QED
    BY <1>1, <2>1 DEF FetchQuotes, ScannerInv
<1>2. CASE ScanAndRank
  <2>1. scanStage = "scan" /\ scanStage' = "drain" /\ scanQuotes' = scanQuotes /\ pendingRecords = {}
    BY <1>2 DEF ScanAndRank, ScannerInv
  <2>2. CASE Cardinality(scanQuotes) < 2
    <3>1. found' = {} /\ pendingRecords' = {} /\ solPrice' = solPrice
      BY <1>2, <2>1, <2>2 DEF ScanAndRank
    <3>2. Judged(pendingRecords', scanQuotes', found')
      BY <2>1, <2>2, <3>1, NothingJudged
    <3> QED
      BY <2>1, <3>1, <3>2 DEF ScannerInv
  <2>3. CASE ~(Cardinality(scanQuotes) < 2)
    <3>1. /\ found' \in SUBSET {r \in Evaluated(scanQuotes) : Reason(r, scanQuotes) = "passed"}
          /\ pendingRecords' = {[route |-> r, reason |-> Reason(r, scanQuotes)] : r \in Evaluated(scanQuotes)}
          /\ solPrice' = SolPrice(scanQuotes)
      BY <1>2, <2>3 DEF ScanAndRank
    <3>2. Judged(pendingRecords', scanQuotes', found')
      BY <2>1, <2>3, <3>1, WrittenJudges DEF ScannerInv
    <3>3. \A r \in found' : Gains(r)
      BY <3>1, PassedGains DEF ScannerInv
    <3>4. solPrice' \in Nat
      BY <3>1, SolPriceNat DEF ScannerInv
    <3> QED
      BY <2>1, <3>2, <3>3, <3>4 DEF ScannerInv
  <2> QED
    BY <2>2, <2>3
<1>3. CASE DrainScanRecords
  BY <1>3 DEF DrainScanRecords, ScannerInv
<1>4. CASE Observe
  BY <1>4 DEF Observe, ScannerInv
<1>5. CASE BotNext /\ UNCHANGED <<scanQuotes, scanStage, found, pendingRecords, records, hits>>
  <2>1. solPrice' \in Nat
    <3>1. CASE UNCHANGED solPrice
      BY <3>1 DEF ScannerInv
    <3>2. CASE MarketRaises
      BY <3>2 DEF MarketRaises, ScannerInv
    <3>3. ASSUME NEW quotes \in QuoteSets, FetchAndEvaluate(quotes)
          PROVE  solPrice' \in Nat
      <4> DEFINE kept == Filtered(quotes)
                 Seen == {q \in kept : \E i \in 1 .. Len(BotPairs) : q.pair = BotPairs[i]}
      <4>1. Seen \in SUBSET ScanQuotes
        BY DEF QuoteSets, kSubset, Filtered
      <4>2. solPrice' = SolPriceAt(Len(BotPairs), kept)
        BY <3>3 DEF FetchAndEvaluate
      <4>3. SolPriceAt(Len(BotPairs), kept) = solPrice \/ SolPriceAt(Len(BotPairs), kept) = SolPrice(Seen)
        BY DEF SolPriceAt
      <4> HIDE DEF Seen
      <4>4. SolPrice(Seen) \in Nat
        BY <4>1, SolPriceNat DEF ScannerInv
      <4> QED
        BY <4>2, <4>3, <4>4 DEF ScannerInv
    <3> QED
      BY <1>5, <3>1, <3>2, <3>3 DEF BotNext
  <2> QED
    BY <1>5, <2>1 DEF ScannerInv
<1>6. CASE UNCHANGED scanVars
  BY <1>6 DEF scanVars, ScannerInv
<1> QED
  BY <1>1, <1>2, <1>3, <1>4, <1>5, <1>6 DEF ScanNext

\* What is drained is this scan's.
LEMMA ScannerInvImpliesRecords == ScannerInv => RecordsOfThisScan
<1> SUFFICES ASSUME ScannerInv, scanStage = "observe"
             PROVE  /\ {r.route : r \in records} = IF Cardinality(scanQuotes) < 2 THEN {} ELSE Evaluated(scanQuotes)
                    /\ Cardinality(records) = Cardinality({r.route : r \in records})
                    /\ \A r \in found : [route |-> r, reason |-> "passed"] \in records
  BY DEF RecordsOfThisScan
<1>1. Judged(records, scanQuotes, found)
  BY DEF ScannerInv
<1> DEFINE f == [r \in records |-> r.route]
<1>2. f \in [records -> {f[r] : r \in records}] /\ {f[r] : r \in records} = {r.route : r \in records}
  OBVIOUS
<1>3. \A r1, r2 \in records : f[r1] = f[r2] => r1 = r2
  BY <1>1 DEF Judged
<1>4. IsFiniteSet(records)
  BY <1>1 DEF Judged
<1> HIDE DEF f
<1>5. Cardinality({f[r] : r \in records}) = Cardinality(records)
  BY <1>2, <1>3, <1>4, SameNumber
<1> QED
  BY <1>1, <1>2, <1>5 DEF Judged

\* Two routes that gain are not each other's reverse, as no quote sells above
\* what it buys at.
LEMMA ScannerInvImpliesOneWay == ScannerInv => NotBothWays
<1> SUFFICES ASSUME ScannerInv, NEW r \in found, [buy |-> r.sell, sell |-> r.buy] \in found
             PROVE  FALSE
  BY DEF NotBothWays
<1>1. Gains(r) /\ Gains([buy |-> r.sell, sell |-> r.buy])
  BY DEF ScannerInv
<1>2. r.buy \in ScanQuotes /\ r.sell \in ScanQuotes
  BY <1>1 DEF Gains, Routes
<1>3. r.sell.sellPrice > r.buy.buyPrice /\ r.buy.sellPrice > r.sell.buyPrice
  BY <1>1 DEF Gains
<1> QED
  BY <1>2, <1>3, QuoteFacts

\* For any quotes, fees, limits and thresholds: what is saved as the history of a
\* scan are that scan's routes, one verdict each, though a scan of fewer than two
\* quotes leaves the scanner's records as they were.
THEOREM RecordsOfThisScanCorrect == Spec => []RecordsOfThisScan
<1>1. Init => ScannerInv
  BY ScannerInit DEF Init
<1>2. ScannerInv /\ [Next]_componentVars => ScannerInv'
  BY MarketSteps, ScannerKeeps
<1> QED
  BY <1>1, <1>2, ScannerInvImpliesRecords, PTL DEF Spec

\* Under the same assumptions no scan finds a route and its reverse, whatever
\* price of SOL the scanner or the bot last left behind.
THEOREM NotBothWaysCorrect == Spec => []NotBothWays
<1>1. Init => ScannerInv
  BY ScannerInit DEF Init
<1>2. ScannerInv /\ [Next]_componentVars => ScannerInv'
  BY MarketSteps, ScannerKeeps
<1> QED
  BY <1>1, <1>2, ScannerInvImpliesOneWay, PTL DEF Spec

-----------------------------------------------------------------------------
(* The polling bot and its log                                             *)

TriedTrades == {"executed", "simulation_failed", "failed"}
Looked == TriedTrades \cup {"no_opportunity", "dry_run_skip"}
Decisions == Looked \cup {"none"}
BotStages == {"start", "check", "fetch", "execute", "log_scan", "log_execution", "over"}
LogLine == [event : {"scan", "execution"}, decision : Decisions]

Totals == [scans : Nat, found : Nat, dry : Nat, executed : Nat, success : Nat]

\* Type correctness.
BotTypeOK ==
    /\ botWiring \in Wirings
    /\ botStage \in BotStages
    /\ botScans \in Nat /\ botFound \in Nat /\ botExecuted \in Nat /\ botErrors \in Nat /\ botLate \in Nat
    /\ botShutdown \in BOOLEAN
    /\ botDecision \in Decisions
    /\ botLog \in Seq(LogLine)

\* What the tracker makes of the log so far.
Told == Report(botLog)

\* A count is what was told of it, and one more while its line is owed; a killed
\* run may have died owing it.
BehindBy(counted, told, owes) ==
    /\ counted \in {told, told + 1}
    /\ botStage # "over" => (owes <=> counted = told + 1)

\* A scan is counted before it is written, so is a find, and an execution is
\* written after its scan.
BehindOK ==
    /\ Told \in Totals
    /\ BehindBy(botScans, Told.scans + botErrors, botStage \in {"fetch", "execute", "log_scan"})
    /\ BehindBy(botFound, Told.found,
                botStage = "execute" \/ (botStage = "log_scan" /\ botDecision # "no_opportunity"))
    /\ BehindBy(botExecuted, Told.success, botStage \in {"log_scan", "log_execution"} /\ botDecision = "executed")
    /\ BehindBy(Told.found, Told.dry + Told.executed, botStage = "log_execution")

\* A stage is reached only with the decision it is for, and never the executor in
\* a dry run.
DecidedOK ==
    /\ botStage = "log_scan" => botDecision \in Looked
    /\ botStage = "log_execution" => botDecision \in TriedTrades
    /\ botWiring.dry =>
         /\ botStage \notin {"execute", "log_execution"}
         /\ botDecision \notin TriedTrades
         /\ Told.executed = 0 /\ Told.dry = Told.found

\* The executor is called once at most after the request, as the head of the loop
\* is not passed again.
LateOK ==
    /\ botLate <= 1
    /\ ~botShutdown => botLate = 0
    /\ botStage \in {"fetch", "execute"} => botLate = 0

\* The summary is written at the end, of what was told then.
SummaryOK ==
    /\ botStage # "over" => botSummary = NoSummary
    /\ botSummary # NoSummary =>
         /\ botSummary = [scans |-> Told.scans + botErrors, found |-> Told.found, executed |-> Told.success]
         /\ Told.found = Told.dry + Told.executed

BotInv == BotTypeOK /\ BehindOK /\ DecidedOK /\ LateOK /\ SummaryOK

\* Lines of one kind in a log, as the report counts them.
Lines(log, event, decisions) ==
    Cardinality({i \in DOMAIN log : log[i].event = event /\ log[i].decision \in decisions})

\* The report is made of such counts.
LEMMA ReportIs ==
    ASSUME NEW log
    PROVE  Report(log) = [scans |-> Lines(log, "scan", Looked),
                          found |-> Lines(log, "scan", TriedTrades \cup {"dry_run_skip"}),
                          dry |-> Lines(log, "scan", {"dry_run_skip"}),
                          executed |-> Lines(log, "execution", TriedTrades),
                          success |-> Lines(log, "execution", {"executed"})]
  BY DEF Report, Lines, Looked, TriedTrades

\* A new line counts once where it belongs.
LEMMA OneMoreLine ==
    ASSUME NEW log \in Seq(LogLine), NEW line \in LogLine, NEW event, NEW decisions
    PROVE  LET before == Lines(log, event, decisions)
               after == Lines(Append(log, line), event, decisions)
               belongs == line.event = event /\ line.decision \in decisions
           IN before \in Nat /\ (belongs => after = before + 1) /\ (~belongs => after = before)
<1> DEFINE Counted(l) == {i \in DOMAIN l : l[i].event = event /\ l[i].decision \in decisions}
           n == Len(log) + 1
           longer == Append(log, line)
           old == Counted(log)
           new == Counted(longer)
           belongs == line.event = event /\ line.decision \in decisions
<1>1. /\ n \in Nat /\ DOMAIN log = 1 .. Len(log) /\ DOMAIN longer = 1 .. n
      /\ \A i \in 1 .. Len(log) : longer[i] = log[i]
      /\ longer[n] = line /\ n \notin DOMAIN log /\ Len(log) \in Nat
  OBVIOUS
<1>2. IsFiniteSet(old) /\ Cardinality(old) \in Nat
  <2>1. IsFiniteSet(1 .. Len(log)) /\ old \in SUBSET (1 .. Len(log))
    BY <1>1, FS_Interval
  <2> HIDE DEF old
  <2> QED
    BY <2>1, FS_Subset, FS_CardinalityType
<1>3. new = IF belongs THEN old \cup {n} ELSE old
  <2>1. 1 .. n = (1 .. Len(log)) \cup {n}
    BY <1>1
  <2> HIDE DEF longer, n
  <2> QED
    BY <1>1, <2>1
<1>4. n \notin old
  BY <1>1
<1> HIDE DEF old, new, n, belongs
<1>5. belongs => Cardinality(new) = Cardinality(old) + 1
  BY <1>2, <1>3, <1>4, FS_AddElement
<1>6. ~belongs => Cardinality(new) = Cardinality(old)
  BY <1>3
<1> QED
  BY <1>2, <1>5, <1>6 DEF Lines, old, new, belongs

\* What the line of a scan adds to the report.
LEMMA ScanReported ==
    ASSUME NEW log \in Seq(LogLine), NEW d \in Looked
    PROVE  LET r == Report(log)
               s == Report(Append(log, [event |-> "scan", decision |-> d]))
           IN /\ r \in Totals /\ s \in Totals
              /\ s.scans = r.scans + 1
              /\ s.found = IF d = "no_opportunity" THEN r.found ELSE r.found + 1
              /\ s.dry = IF d = "dry_run_skip" THEN r.dry + 1 ELSE r.dry
              /\ s.executed = r.executed /\ s.success = r.success
<1> DEFINE line == [event |-> "scan", decision |-> d]
           longer == Append(log, line)
<1>1. line \in LogLine /\ longer \in Seq(LogLine) /\ line.event = "scan" /\ line.decision = d
  BY DEF LogLine, Decisions
<1> HIDE DEF line
<1>2. \A event, ds : Lines(log, event, ds) \in Nat /\ Lines(longer, event, ds) \in Nat
  BY <1>1, OneMoreLine
<1> DEFINE finds == TriedTrades \cup {"dry_run_skip"}
<1>3. /\ Lines(longer, "scan", Looked) = Lines(log, "scan", Looked) + 1
      /\ d \in finds => Lines(longer, "scan", finds) = Lines(log, "scan", finds) + 1
      /\ d \notin finds => Lines(longer, "scan", finds) = Lines(log, "scan", finds)
  BY <1>1, OneMoreLine
<1>4. /\ d = "dry_run_skip" => Lines(longer, "scan", {"dry_run_skip"}) = Lines(log, "scan", {"dry_run_skip"}) + 1
      /\ d # "dry_run_skip" => Lines(longer, "scan", {"dry_run_skip"}) = Lines(log, "scan", {"dry_run_skip"})
  BY <1>1, OneMoreLine
<1>5. \A ds : Lines(longer, "execution", ds) = Lines(log, "execution", ds)
  BY <1>1, OneMoreLine
<1>6. d \notin finds <=> d = "no_opportunity"
  BY DEF Looked, TriedTrades
<1>7. Report(log) \in Totals /\ Report(longer) \in Totals
  BY <1>2, ReportIs DEF Totals
<1> HIDE DEF longer
<1>8. /\ Report(longer).scans = Report(log).scans + 1
      /\ Report(longer).found = IF d = "no_opportunity" THEN Report(log).found ELSE Report(log).found + 1
      /\ Report(longer).dry = IF d = "dry_run_skip" THEN Report(log).dry + 1 ELSE Report(log).dry
      /\ Report(longer).executed = Report(log).executed /\ Report(longer).success = Report(log).success
  BY <1>3, <1>4, <1>5, <1>6, ReportIs
<1> QED
  BY <1>7, <1>8 DEF longer, line

\* What the line of an execution adds to the report.
LEMMA ExecutionReported ==
    ASSUME NEW log \in Seq(LogLine), NEW d \in TriedTrades
    PROVE  LET r == Report(log)
               s == Report(Append(log, [event |-> "execution", decision |-> d]))
           IN /\ r \in Totals /\ s \in Totals
              /\ s.scans = r.scans /\ s.found = r.found /\ s.dry = r.dry
              /\ s.executed = r.executed + 1
              /\ s.success = IF d = "executed" THEN r.success + 1 ELSE r.success
<1> DEFINE line == [event |-> "execution", decision |-> d]
           longer == Append(log, line)
<1>1. line \in LogLine /\ longer \in Seq(LogLine) /\ line.event = "execution" /\ line.decision = d
  BY DEF LogLine, Decisions, Looked
<1> HIDE DEF line
<1>2. \A event, ds : Lines(log, event, ds) \in Nat /\ Lines(longer, event, ds) \in Nat
  BY <1>1, OneMoreLine
<1>3. Lines(longer, "execution", TriedTrades) = Lines(log, "execution", TriedTrades) + 1
  BY <1>1, OneMoreLine
<1>4. /\ d = "executed" => Lines(longer, "execution", {"executed"}) = Lines(log, "execution", {"executed"}) + 1
      /\ d # "executed" => Lines(longer, "execution", {"executed"}) = Lines(log, "execution", {"executed"})
  BY <1>1, OneMoreLine
<1>5. \A ds : Lines(longer, "scan", ds) = Lines(log, "scan", ds)
  BY <1>1, OneMoreLine
<1>6. Report(log) \in Totals /\ Report(longer) \in Totals
  BY <1>2, ReportIs DEF Totals
<1> HIDE DEF longer
<1>7. /\ Report(longer).scans = Report(log).scans
      /\ Report(longer).found = Report(log).found
      /\ Report(longer).dry = Report(log).dry
      /\ Report(longer).executed = Report(log).executed + 1
      /\ Report(longer).success = IF d = "executed" THEN Report(log).success + 1 ELSE Report(log).success
  BY <1>3, <1>4, <1>5, ReportIs
<1> QED
  BY <1>6, <1>7 DEF longer, line

\* An empty log reports nothing.
LEMMA EmptyReport ==
    ASSUME NEW log, log = <<>>
    PROVE  Report(log) = [scans |-> 0, found |-> 0, dry |-> 0, executed |-> 0, success |-> 0]
<1>1. \A event, decisions : Lines(log, event, decisions) = 0
  <2> TAKE event, decisions
  <2> DEFINE counted == {i \in DOMAIN log : log[i].event = event /\ log[i].decision \in decisions}
  <2>1. DOMAIN log = {}
    OBVIOUS
  <2>2. counted = {}
    BY <2>1
  <2> QED
    BY <2>2, FS_EmptySet DEF Lines
<1> QED
  BY <1>1, ReportIs

\* Nothing is owed to the log before the first scan.
LEMMA BotInitially == BotInit => BotInv
<1> SUFFICES ASSUME BotInit PROVE BotInv
  OBVIOUS
<1>1. BotTypeOK
  <2>1. botLog \in Seq(LogLine)
    BY DEF BotInit
  <2> QED
    BY <2>1 DEF BotInit, BotTypeOK, BotStages, Decisions
<1>2. Told = [scans |-> 0, found |-> 0, dry |-> 0, executed |-> 0, success |-> 0]
  BY EmptyReport DEF BotInit, Told
<1>3. BehindOK
  BY <1>2 DEF BotInit, BehindOK, BehindBy, Totals
<1>4. DecidedOK /\ LateOK /\ SummaryOK
  BY <1>2 DEF BotInit, DecidedOK, LateOK, SummaryOK, TriedTrades
<1> QED
  BY <1>1, <1>3, <1>4 DEF BotInv

\* Steps that write no line leave the report as it is.
LEMMA BotKeepsQuietly ==
    ASSUME BotInv, Start \/ RequestShutdown \/ Kill \/ CheckShutdown \/ MarketRaises
    PROVE  BotInv'
<1>1. Told' = Told
  BY DEF Start, RequestShutdown, Kill, CheckShutdown, MarketRaises, Told
<1>2. CASE Start
  <2>1. BotTypeOK'
    BY <1>1, <1>2 DEF BotInv, BotTypeOK, BotStages, Decisions, Looked, TriedTrades, Start
  <2>2. BehindOK'
    BY <1>1, <1>2 DEF BotInv, BotTypeOK, BehindOK, DecidedOK, BehindBy, Totals, Looked, TriedTrades, Start
  <2>3. DecidedOK'
    BY <1>1, <1>2 DEF BotInv, BotTypeOK, DecidedOK, Totals, Looked, TriedTrades, Wirings, BehindOK, Start
  <2>4. LateOK'
    BY <1>1, <1>2 DEF BotInv, BotTypeOK, LateOK, Start
  <2>5. SummaryOK'
    BY <1>1, <1>2 DEF BotInv, BotTypeOK, BehindOK, BehindBy, SummaryOK, Totals, Start
  <2> QED
    BY <2>1, <2>2, <2>3, <2>4, <2>5 DEF BotInv
<1>3. CASE RequestShutdown
  <2>1. BotTypeOK'
    BY <1>1, <1>3 DEF BotInv, BotTypeOK, BotStages, Decisions, Looked, TriedTrades, RequestShutdown
  <2>2. BehindOK'
    BY <1>1, <1>3 DEF BotInv, BotTypeOK, BehindOK, DecidedOK, BehindBy, Totals, Looked, TriedTrades, RequestShutdown
  <2>3. DecidedOK'
    BY <1>1, <1>3 DEF BotInv, BotTypeOK, DecidedOK, Totals, Looked, TriedTrades, Wirings, BehindOK, RequestShutdown
  <2>4. LateOK'
    BY <1>1, <1>3 DEF BotInv, BotTypeOK, LateOK, RequestShutdown
  <2>5. SummaryOK'
    BY <1>1, <1>3 DEF BotInv, BotTypeOK, BehindOK, BehindBy, SummaryOK, Totals, RequestShutdown
  <2> QED
    BY <2>1, <2>2, <2>3, <2>4, <2>5 DEF BotInv
<1>4. CASE Kill
  <2>1. BotTypeOK'
    BY <1>1, <1>4 DEF BotInv, BotTypeOK, BotStages, Decisions, Looked, TriedTrades, Kill
  <2>2. BehindOK'
    BY <1>1, <1>4 DEF BotInv, BotTypeOK, BehindOK, DecidedOK, BehindBy, Totals, Looked, TriedTrades, Kill
  <2>3. DecidedOK'
    BY <1>1, <1>4 DEF BotInv, BotTypeOK, DecidedOK, Totals, Looked, TriedTrades, Wirings, BehindOK, Kill
  <2>4. LateOK'
    BY <1>1, <1>4 DEF BotInv, BotTypeOK, LateOK, Kill
  <2>5. SummaryOK'
    BY <1>1, <1>4 DEF BotInv, BotTypeOK, BehindOK, BehindBy, SummaryOK, Totals, Kill
  <2> QED
    BY <2>1, <2>2, <2>3, <2>4, <2>5 DEF BotInv
<1>5. CASE CheckShutdown
  <2>1. BotTypeOK'
    BY <1>1, <1>5 DEF BotInv, BotTypeOK, BotStages, Decisions, Looked, TriedTrades, CheckShutdown, StopsHere, Summary
  <2>2. BehindOK'
    BY <1>1, <1>5 DEF BotInv, BotTypeOK, BehindOK, DecidedOK, BehindBy, Totals, Looked, TriedTrades, CheckShutdown, StopsHere, Summary
  <2>3. DecidedOK'
    BY <1>1, <1>5 DEF BotInv, BotTypeOK, DecidedOK, Totals, Looked, TriedTrades, Wirings, BehindOK, CheckShutdown, StopsHere, Summary
  <2>4. LateOK'
    BY <1>1, <1>5 DEF BotInv, BotTypeOK, LateOK, CheckShutdown, StopsHere, Summary
  <2>5. SummaryOK'
    BY <1>1, <1>5 DEF BotInv, BotTypeOK, BehindOK, BehindBy, SummaryOK, Totals, CheckShutdown, StopsHere, Summary
  <2> QED
    BY <2>1, <2>2, <2>3, <2>4, <2>5 DEF BotInv
<1>6. CASE MarketRaises
  <2>1. BotTypeOK'
    BY <1>1, <1>6 DEF BotInv, BotTypeOK, BotStages, Decisions, Looked, TriedTrades, MarketRaises, EndIteration
  <2>2. BehindOK'
    <3>1. botStage = "fetch" /\ botStage' = "check" /\ botErrors' = botErrors + 1
          /\ UNCHANGED <<botScans, botFound, botExecuted, botDecision>>
      BY <1>6 DEF MarketRaises, EndIteration
    <3>2. botErrors \in Nat /\ botScans \in Nat /\ BehindOK
      BY DEF BotInv, BotTypeOK
    <3>3. Told.scans \in Nat /\ Told.scans + botErrors + 1 = Told.scans + (botErrors + 1)
      BY <3>2 DEF BehindOK, Totals
    <3>4. BehindBy(botScans, Told.scans + botErrors, botStage \in {"fetch", "execute", "log_scan"})'
      BY <1>1, <3>1, <3>2, <3>3 DEF BehindOK, BehindBy
    <3> QED
      BY <1>1, <3>1, <3>2, <3>4 DEF BehindOK, BehindBy
  <2>3. DecidedOK'
    BY <1>1, <1>6 DEF BotInv, BotTypeOK, DecidedOK, Totals, Looked, TriedTrades, Wirings, BehindOK, MarketRaises, EndIteration
  <2>4. LateOK'
    BY <1>1, <1>6 DEF BotInv, BotTypeOK, LateOK, MarketRaises, EndIteration
  <2>5. SummaryOK'
    BY <1>1, <1>6 DEF BotInv, BotTypeOK, BehindOK, BehindBy, SummaryOK, Totals, MarketRaises, EndIteration
  <2> QED
    BY <2>1, <2>2, <2>3, <2>4, <2>5 DEF BotInv
<1> QED
  BY <1>2, <1>3, <1>4, <1>5, <1>6

\* The decision, and what the executor makes of it.
LEMMA BotKeepsDeciding ==
    ASSUME BotInv, NEW quotes, FetchAndEvaluate(quotes) \/ ExecuteBest
    PROVE  BotInv'
<1>1. Told' = Told
  BY DEF FetchAndEvaluate, ExecuteBest, Told
<1>2. CASE FetchAndEvaluate(quotes)
  <2> DEFINE has == Opportunities(Filtered(quotes)) # {}
  <2>1. /\ botStage = "fetch"
        /\ botFound' = IF has THEN botFound + 1 ELSE botFound
        /\ botStage' = IF has /\ ~botWiring.dry THEN "execute" ELSE "log_scan"
        /\ botDecision' = IF ~has THEN "no_opportunity" ELSE IF botWiring.dry THEN "dry_run_skip" ELSE "none"
        /\ UNCHANGED <<botWiring, botScans, botExecuted, botShutdown, botLog, botSummary, botLate, botErrors>>
    BY <1>2 DEF FetchAndEvaluate
  <2> HIDE DEF has
  <2>2. BotTypeOK'
    BY <1>1, <2>1 DEF BotInv, BotTypeOK, BotStages, Decisions, Looked, TriedTrades
  <2>3. BehindOK'
    BY <1>1, <2>1 DEF BotInv, BotTypeOK, BehindOK, DecidedOK, BehindBy, Totals, Looked, TriedTrades
  <2>4. DecidedOK'
    BY <1>1, <2>1 DEF BotInv, BotTypeOK, DecidedOK, Totals, Looked, TriedTrades, Wirings, BehindOK
  <2>5. LateOK'
    BY <1>1, <2>1 DEF BotInv, BotTypeOK, LateOK
  <2>6. SummaryOK'
    BY <1>1, <2>1 DEF BotInv, BotTypeOK, BehindOK, BehindBy, SummaryOK, Totals
  <2> QED
    BY <2>2, <2>3, <2>4, <2>5, <2>6 DEF BotInv
<1>3. CASE ExecuteBest
  <2>1. BotTypeOK'
    BY <1>1, <1>3 DEF BotInv, BotTypeOK, BotStages, Decisions, Looked, TriedTrades, ExecuteBest
  <2>2. BehindOK'
    BY <1>1, <1>3 DEF BotInv, BotTypeOK, BehindOK, DecidedOK, BehindBy, Totals, Looked, TriedTrades, ExecuteBest
  <2>3. DecidedOK'
    BY <1>1, <1>3 DEF BotInv, BotTypeOK, DecidedOK, Totals, Looked, TriedTrades, Wirings, BehindOK, ExecuteBest
  <2>4. LateOK'
    BY <1>1, <1>3 DEF BotInv, BotTypeOK, LateOK, ExecuteBest
  <2>5. SummaryOK'
    BY <1>1, <1>3 DEF BotInv, BotTypeOK, BehindOK, BehindBy, SummaryOK, Totals, ExecuteBest
  <2> QED
    BY <2>1, <2>2, <2>3, <2>4, <2>5 DEF BotInv
<1> QED
  BY <1>2, <1>3

\* The lines, a scan's and then its execution's.
LEMMA BotKeepsLogging ==
    ASSUME BotInv, LogScan \/ LogExecution
    PROVE  BotInv'
<1> DEFINE d == botDecision
<1>1. d \in Decisions /\ botLog \in Seq(LogLine)
  BY DEF BotInv, BotTypeOK
<1>2. CASE LogScan
  <2>1. d \in Looked /\ botStage = "log_scan"
    BY <1>2 DEF LogScan, BotInv, DecidedOK
  <2>2. botLog' = Append(botLog, [event |-> "scan", decision |-> d]) /\ botLog' \in Seq(LogLine)
    BY <1>1, <1>2 DEF LogScan, Line, LogLine
  <2>3. /\ Told \in Totals /\ Told' \in Totals
        /\ Told'.scans = Told.scans + 1
        /\ Told'.found = IF d = "no_opportunity" THEN Told.found ELSE Told.found + 1
        /\ Told'.dry = IF d = "dry_run_skip" THEN Told.dry + 1 ELSE Told.dry
        /\ Told'.executed = Told.executed /\ Told'.success = Told.success
    BY <1>1, <2>1, <2>2, ScanReported DEF Told
  <2>4. /\ botStage' = IF d \in {"no_opportunity", "dry_run_skip"} THEN "check" ELSE "log_execution"
        /\ UNCHANGED <<botWiring, botScans, botFound, botExecuted, botShutdown, botDecision, botSummary, botLate, botErrors>>
    BY <1>2 DEF LogScan, EndIteration
  <2>5. BotTypeOK'
    BY <2>1, <2>2, <2>3, <2>4 DEF BotInv, BotTypeOK, BotStages, Decisions, Looked, TriedTrades
  <2>6. BehindOK'
    <3>1. /\ Told.scans \in Nat /\ Told.found \in Nat /\ Told.dry \in Nat /\ Told.executed \in Nat /\ Told.success \in Nat
          /\ botScans \in Nat /\ botErrors \in Nat /\ botFound \in Nat /\ botExecuted \in Nat
      BY <2>3 DEF BotInv, BotTypeOK, Totals
    <3>2. BehindBy(botScans, Told.scans + botErrors, botStage \in {"fetch", "execute", "log_scan"})'
      BY <2>1, <2>3, <2>4, <3>1 DEF BotInv, BehindOK, BehindBy
    <3>3. BehindBy(botFound, Told.found, botStage = "execute" \/ (botStage = "log_scan" /\ botDecision # "no_opportunity"))'
      BY <2>1, <2>3, <2>4, <3>1 DEF BotInv, BehindOK, BehindBy, Looked, TriedTrades
    <3>4. BehindBy(botExecuted, Told.success, botStage \in {"log_scan", "log_execution"} /\ botDecision = "executed")'
      BY <2>1, <2>3, <2>4, <3>1 DEF BotInv, BehindOK, BehindBy
    <3>5. BehindBy(Told.found, Told.dry + Told.executed, botStage = "log_execution")'
      BY <2>1, <2>3, <2>4, <3>1 DEF BotInv, BehindOK, BehindBy
    <3> QED
      BY <2>3, <3>2, <3>3, <3>4, <3>5 DEF BehindOK
  <2>7. DecidedOK'
    BY <2>1, <2>2, <2>3, <2>4 DEF BotInv, BotTypeOK, DecidedOK, Totals, Looked, TriedTrades, Wirings, BehindOK
  <2>8. LateOK'
    BY <2>1, <2>2, <2>3, <2>4 DEF BotInv, BotTypeOK, LateOK
  <2>9. SummaryOK'
    BY <2>1, <2>2, <2>3, <2>4 DEF BotInv, BotTypeOK, BehindOK, BehindBy, SummaryOK, Totals
  <2> QED
    BY <2>5, <2>6, <2>7, <2>8, <2>9 DEF BotInv
<1>3. CASE LogExecution
  <2>1. d \in TriedTrades /\ botStage = "log_execution"
    BY <1>3 DEF LogExecution, BotInv, DecidedOK
  <2>2. botLog' = Append(botLog, [event |-> "execution", decision |-> d]) /\ botLog' \in Seq(LogLine)
    BY <1>1, <1>3 DEF LogExecution, Line, LogLine
  <2>3. /\ Told \in Totals /\ Told' \in Totals
        /\ Told'.scans = Told.scans /\ Told'.found = Told.found /\ Told'.dry = Told.dry
        /\ Told'.executed = Told.executed + 1
        /\ Told'.success = IF d = "executed" THEN Told.success + 1 ELSE Told.success
    BY <1>1, <2>1, <2>2, ExecutionReported DEF Told
  <2>4. /\ botStage' = "check"
        /\ UNCHANGED <<botWiring, botScans, botFound, botExecuted, botShutdown, botDecision, botSummary, botLate, botErrors>>
    BY <1>3 DEF LogExecution, EndIteration
  <2>5. BotTypeOK'
    BY <2>1, <2>2, <2>3, <2>4 DEF BotInv, BotTypeOK, BotStages, Decisions, Looked, TriedTrades
  <2>6. BehindOK'
    <3>1. /\ Told.scans \in Nat /\ Told.found \in Nat /\ Told.dry \in Nat /\ Told.executed \in Nat /\ Told.success \in Nat
          /\ botScans \in Nat /\ botErrors \in Nat /\ botFound \in Nat /\ botExecuted \in Nat
      BY <2>3 DEF BotInv, BotTypeOK, Totals
    <3>2. BehindBy(botScans, Told.scans + botErrors, botStage \in {"fetch", "execute", "log_scan"})'
      BY <2>1, <2>3, <2>4, <3>1 DEF BotInv, BehindOK, BehindBy
    <3>3. BehindBy(botFound, Told.found, botStage = "execute" \/ (botStage = "log_scan" /\ botDecision # "no_opportunity"))'
      BY <2>1, <2>3, <2>4, <3>1 DEF BotInv, BehindOK, BehindBy, Looked, TriedTrades
    <3>4. BehindBy(botExecuted, Told.success, botStage \in {"log_scan", "log_execution"} /\ botDecision = "executed")'
      BY <2>1, <2>3, <2>4, <3>1 DEF BotInv, BehindOK, BehindBy
    <3>5. BehindBy(Told.found, Told.dry + Told.executed, botStage = "log_execution")'
      BY <2>1, <2>3, <2>4, <3>1 DEF BotInv, BehindOK, BehindBy
    <3> QED
      BY <2>3, <3>2, <3>3, <3>4, <3>5 DEF BehindOK
  <2>7. DecidedOK'
    BY <2>1, <2>2, <2>3, <2>4 DEF BotInv, BotTypeOK, DecidedOK, Totals, Looked, TriedTrades, Wirings, BehindOK
  <2>8. LateOK'
    BY <2>1, <2>2, <2>3, <2>4 DEF BotInv, BotTypeOK, LateOK
  <2>9. SummaryOK'
    BY <2>1, <2>2, <2>3, <2>4 DEF BotInv, BotTypeOK, BehindOK, BehindBy, SummaryOK, Totals
  <2> QED
    BY <2>5, <2>6, <2>7, <2>8, <2>9 DEF BotInv
<1> QED
  BY <1>2, <1>3

\* No step of the bot breaks the invariant.
LEMMA BotKeeps ==
    ASSUME BotInv, [BotNext]_botVars
    PROVE  BotInv'
<1>1. CASE UNCHANGED botVars
  BY <1>1 DEF botVars, BotInv, BotTypeOK, BehindOK, BehindBy, DecidedOK, LateOK, SummaryOK, Told
<1>2. CASE BotNext
  BY <1>2, BotKeepsQuietly, BotKeepsDeciding, BotKeepsLogging DEF BotNext
<1> QED
  BY <1>1, <1>2

\* The log is behind by what the stage says, and at the end of a run by nothing.
LEMMA BotInvImplies == BotInv => BotAccounted
<1> SUFFICES ASSUME BotInv PROVE BotAccounted
  OBVIOUS
<1>1. /\ botScans - botErrors - Told.scans \in {0, 1}
      /\ botFound - Told.found \in {0, 1}
      /\ botExecuted - Told.success \in {0, 1}
  <2>1. Told.scans \in Nat /\ Told.found \in Nat /\ Told.success \in Nat
    BY DEF BotInv, BehindOK, Totals
  <2>2. botScans \in Nat /\ botFound \in Nat /\ botExecuted \in Nat /\ botErrors \in Nat
    BY DEF BotInv, BotTypeOK
  <2>3. /\ botScans \in {Told.scans + botErrors, Told.scans + botErrors + 1}
        /\ botFound \in {Told.found, Told.found + 1}
        /\ botExecuted \in {Told.success, Told.success + 1}
    BY DEF BotInv, BehindOK, BehindBy
  <2> QED
    BY <2>1, <2>2, <2>3
<1>2. botLate <= 1 /\ (botWiring.dry => Told.executed = 0 /\ Told.dry = Told.found)
  BY DEF BotInv, DecidedOK, LateOK
<1>3. botSummary # NoSummary =>
        /\ botSummary = [scans |-> Told.scans + botErrors, found |-> Told.found, executed |-> Told.success]
        /\ Told.found = Told.dry + Told.executed
  BY DEF BotInv, SummaryOK
<1>4. Told = Report(botLog)
  BY DEF Told
<1> QED
  BY <1>1, <1>2, <1>3, <1>4 DEF BotAccounted

\* However many iterations, pairs and quotes, and wherever a run is killed: the
\* executor is called once at most after a shutdown request, a dry run executes
\* nothing, and the log the tracker reads agrees with the summary.
THEOREM BotAccountedCorrect == Spec => []BotAccounted
<1>1. Init => BotInv
  BY BotInitially DEF Init
<1>2. BotInv /\ [Next]_componentVars => BotInv'
  BY MarketSteps, BotKeeps
<1> QED
  BY <1>1, <1>2, BotInvImplies, PTL DEF Spec
=============================================================================
