--------------------------- MODULE CountingProofs ---------------------------
(***************************************************************************)
(* Safety of the pair discovery and of the operator's pages, for every     *)
(* value of their constants: what is ranked, and what two queries of a     *)
(* page show, are sums.  They are parts of Components, and a step of the   *)
(* whole is a step of one part.                                            *)
(***************************************************************************)
EXTENDS ComponentsProofs

-----------------------------------------------------------------------------
(* Sums over finite sets                                                   *)

\* The element a fold takes next.
SomeOf(s) == CHOOSE x \in s : TRUE

\* g gives the sum of f over each subset of U, as the folds compute it.
IsSum(g, f, U) ==
    g = [s \in SUBSET U |-> IF s = {} THEN 0 ELSE f[SomeOf(s)] + g[s \ {SomeOf(s)}]]

\* It is one of the set's elements.
LEMMA SomeOfIn == ASSUME NEW s, s # {} PROVE SomeOf(s) \in s
  BY DEF SomeOf

\* Among subsets of a finite set there is a smallest.
LEMMA SmallestSubset ==
    ASSUME NEW U, IsFiniteSet(U), NEW T \in SUBSET SUBSET U, T # {}
    PROVE  \E s \in T : \A t \in T : Cardinality(s) <= Cardinality(t)
<1> DEFINE sizes == {Cardinality(s) : s \in T}
<1>1. \A s \in T : Cardinality(s) \in Nat
  BY FS_Subset, FS_CardinalityType
<1>2. sizes \in SUBSET Nat /\ sizes # {}
  BY <1>1
<1> HIDE DEF sizes
<1>3. PICK n \in sizes : \A m \in sizes : n <= m
  BY <1>2, LeastNatural
<1> QED
  BY <1>3 DEF sizes

\* A subset without one of its elements is smaller.
LEMMA OneLess ==
    ASSUME NEW U, IsFiniteSet(U), NEW s \in SUBSET U, NEW x \in s
    PROVE  /\ s \ {x} \in SUBSET U
           /\ Cardinality(s) \in Nat
           /\ Cardinality(s \ {x}) = Cardinality(s) - 1
           /\ Cardinality(s) > 0
<1>1. IsFiniteSet(s) /\ Cardinality(s) \in Nat
  BY FS_Subset, FS_CardinalityType
<1>2. Cardinality(s \ {x}) = Cardinality(s) - 1
  BY <1>1, FS_RemoveElement
<1>3. Cardinality(s) # 0
  BY <1>1, FS_EmptySet
<1> QED
  BY <1>1, <1>2, <1>3

\* Subsets of at most n elements.
UpToSize(U, n) == {s \in SUBSET U : Cardinality(s) <= n}

\* The fold is defined: a sum for small subsets extends to larger ones.
LEMMA SumExists ==
    ASSUME NEW f, NEW U, IsFiniteSet(U)
    PROVE  \E g : IsSum(g, f, U)
<1> DEFINE FoldStep(g, s) == IF s = {} THEN 0 ELSE f[SomeOf(s)] + g[s \ {SomeOf(s)}]
           PartSum(g, n) == g = [s \in UpToSize(U, n) |-> FoldStep(g, s)]
           missing == {n \in Nat : \A g : ~PartSum(g, n)}
<1>1. CASE missing = {}
  <2>1. Cardinality(U) \in Nat
    BY FS_CardinalityType
  <2>2. \E g : PartSum(g, Cardinality(U))
    <3>1. Cardinality(U) \notin missing
      BY <1>1
    <3> HIDE DEF PartSum
    <3> QED
      BY <2>1, <3>1
  <2>3. PICK g : PartSum(g, Cardinality(U))
    BY <2>2
  <2>4. UpToSize(U, Cardinality(U)) = SUBSET U
    BY FS_Subset DEF UpToSize
  <2>5. IsSum(g, f, U)
    BY <2>3, <2>4 DEF IsSum
  <2> QED
    BY <2>5
<1>2. CASE missing # {}
  <2>1. PICK n \in missing : \A m \in missing : n <= m
    <3>1. missing \in SUBSET Nat
      OBVIOUS
    <3> HIDE DEF missing
    <3> QED
      BY <1>2, <3>1, LeastNatural
  <2>2. n \in Nat
    BY <2>1
  <2>3. CASE n = 0
    <3> DEFINE g == [s \in UpToSize(U, 0) |-> 0]
    <3>1. \A s \in UpToSize(U, 0) : s = {}
      BY FS_Subset, FS_CardinalityType, FS_EmptySet DEF UpToSize
    <3>2. \A s \in UpToSize(U, 0) : FoldStep(g, s) = 0
      BY <3>1
    <3>3. PartSum(g, 0)
      BY <3>2
    <3> QED
      BY <2>1, <2>3, <3>3
  <2>4. CASE n > 0
    <3>1. n - 1 \in Nat /\ n - 1 < n
      BY <2>2, <2>4
    <3>2. \E g : PartSum(g, n - 1)
      <4>1. n - 1 \notin missing
        <5> SUFFICES ASSUME n - 1 \in missing PROVE FALSE
          OBVIOUS
        <5>1. n <= n - 1
          <6> HIDE DEF missing
          <6> QED
            BY <2>1
        <5> QED
          BY <3>1, <5>1
      <4> HIDE DEF PartSum
      <4> QED
        BY <3>1, <4>1
    <3>3. PICK g : PartSum(g, n - 1)
      BY <3>2
    <3> DEFINE h == [s \in UpToSize(U, n) |-> FoldStep(g, s)]
    <3>4. ASSUME NEW s \in UpToSize(U, n), s # {}
          PROVE  h[s \ {SomeOf(s)}] = g[s \ {SomeOf(s)}]
      <4> DEFINE rest == s \ {SomeOf(s)}
      <4>1. rest \in UpToSize(U, n - 1) /\ rest \in UpToSize(U, n)
        BY <2>2, <3>4, OneLess, SomeOfIn DEF UpToSize
      <4> HIDE DEF rest
      <4>2. h[rest] = FoldStep(g, rest)
        BY <4>1
      <4>3. g[rest] = FoldStep(g, rest)
        BY <3>3, <4>1
      <4> QED
        BY <4>2, <4>3 DEF rest
    <3>5. \A s \in UpToSize(U, n) : FoldStep(g, s) = FoldStep(h, s)
      BY <3>4
    <3>6. PartSum(h, n)
      BY <3>5
    <3> QED
      BY <2>1, <3>6
  <2> QED
    BY <2>2, <2>3, <2>4
<1> QED
  BY <1>1, <1>2

\* What the definition says of one subset.
LEMMA SumOf ==
    ASSUME NEW f, NEW U, NEW g, IsSum(g, f, U), NEW s \in SUBSET U
    PROVE  g[s] = IF s = {} THEN 0 ELSE f[SomeOf(s)] + g[s \ {SomeOf(s)}]
<1> DEFINE FoldStep(h, t) == IF t = {} THEN 0 ELSE f[SomeOf(t)] + h[t \ {SomeOf(t)}]
<1>1. g = [t \in SUBSET U |-> FoldStep(g, t)]
  BY DEF IsSum
<1>2. g[s] = FoldStep(g, s)
  <2> HIDE DEF FoldStep
  <2> QED
    BY <1>1
<1> QED
  BY <1>2

\* Sums of natural numbers are natural numbers.
LEMMA SumNat ==
    ASSUME NEW f, NEW U, IsFiniteSet(U), \A x \in U : f[x] \in Nat, NEW g, IsSum(g, f, U)
    PROVE  \A s \in SUBSET U : g[s] \in Nat
<1> DEFINE wrong == {s \in SUBSET U : g[s] \notin Nat}
<1> SUFFICES ASSUME wrong # {} PROVE FALSE
  OBVIOUS
<1>1. PICK s \in wrong : \A t \in wrong : Cardinality(s) <= Cardinality(t)
  <2>1. wrong \in SUBSET SUBSET U
    OBVIOUS
  <2> HIDE DEF wrong
  <2> QED
    BY <2>1, SmallestSubset
<1>2. s \in SUBSET U /\ g[s] \notin Nat
  BY <1>1
<1>3. s # {}
  <2> SUFFICES ASSUME s = {} PROVE FALSE
    OBVIOUS
  <2>1. g[s] = 0
    BY <1>2, SumOf
  <2> QED
    BY <1>2, <2>1
<1> DEFINE x == SomeOf(s)
<1>4. x \in s
  BY <1>3, SomeOfIn
<1>5. g[s] = f[x] + g[s \ {x}]
  BY <1>2, <1>3, SumOf
<1> HIDE DEF x
<1>6. s \ {x} \in SUBSET U /\ Cardinality(s) \in Nat /\ Cardinality(s \ {x}) = Cardinality(s) - 1
  BY <1>2, <1>4, OneLess
<1>7. g[s \ {x}] \in Nat
  BY <1>1, <1>6
<1>8. f[x] \in Nat
  BY <1>2, <1>4
<1> QED
  BY <1>2, <1>5, <1>7, <1>8

\* It does not matter which element a fold takes next.
LEMMA SumWithout ==
    ASSUME NEW f, NEW U, IsFiniteSet(U), \A x \in U : f[x] \in Nat, NEW g, IsSum(g, f, U)
    PROVE  \A s \in SUBSET U : \A x \in s : g[s] = f[x] + g[s \ {x}]
<1> DEFINE wrong == {s \in SUBSET U : \E x \in s : g[s] # f[x] + g[s \ {x}]}
<1> SUFFICES ASSUME wrong # {} PROVE FALSE
  OBVIOUS
<1>1. PICK s \in wrong : \A t \in wrong : Cardinality(s) <= Cardinality(t)
  <2>1. wrong \in SUBSET SUBSET U
    OBVIOUS
  <2> HIDE DEF wrong
  <2> QED
    BY <2>1, SmallestSubset
<1>2. s \in SUBSET U
  BY <1>1
<1>3. PICK x \in s : g[s] # f[x] + g[s \ {x}]
  BY <1>1
<1> DEFINE c == SomeOf(s)
<1>4. c \in s
  BY <1>3, SomeOfIn
<1>5. g[s] = f[c] + g[s \ {c}]
  <2>1. s # {}
    BY <1>3
  <2> QED
    BY <1>2, <2>1, SumOf
<1> HIDE DEF c
<1>6. c # x
  BY <1>3, <1>5
<1>7. \A y \in s : s \ {y} \in SUBSET U /\ Cardinality(s) \in Nat /\ Cardinality(s \ {y}) = Cardinality(s) - 1
  BY <1>2, OneLess
<1>8. \A y \in s : s \ {y} \notin wrong
  <2> SUFFICES ASSUME NEW y \in s, s \ {y} \in wrong PROVE FALSE
    OBVIOUS
  <2>1. Cardinality(s) <= Cardinality(s \ {y})
    <3> HIDE DEF wrong
    <3> QED
      BY <1>1
  <2> QED
    BY <1>7, <2>1
<1>9. ASSUME NEW y \in s, NEW z \in s, y # z
      PROVE  g[s \ {y}] = f[z] + g[(s \ {y}) \ {z}]
  <2>1. s \ {y} \in SUBSET U /\ s \ {y} \notin wrong
    BY <1>7, <1>8
  <2>2. z \in s \ {y}
    BY <1>9
  <2> QED
    BY <2>1, <2>2
<1>10. g[s \ {c}] = f[x] + g[(s \ {c}) \ {x}] /\ g[s \ {x}] = f[c] + g[(s \ {x}) \ {c}]
  <2> HIDE DEF wrong
  <2> QED
    BY <1>3, <1>4, <1>6, <1>9
<1>11. (s \ {x}) \ {c} = (s \ {c}) \ {x}
  OBVIOUS
<1> DEFINE rest == g[(s \ {c}) \ {x}]
<1>12. f[x] \in Nat /\ f[c] \in Nat /\ rest \in Nat /\ g[s] # f[x] + g[s \ {x}]
  <2>1. (s \ {c}) \ {x} \in SUBSET U
    BY <1>2
  <2> QED
    BY <1>2, <1>3, <1>4, <2>1, SumNat
<1>13. g[s] = f[c] + (f[x] + rest) /\ g[s \ {x}] = f[c] + rest
  BY <1>5, <1>10, <1>11
<1> HIDE DEF rest
<1> QED
  BY <1>3, <1>12, <1>13

\* A sum of less over fewer is less.
LEMMA SumMonotone ==
    ASSUME NEW f, NEW U, IsFiniteSet(U), \A x \in U : f[x] \in Nat, NEW g, IsSum(g, f, U),
           NEW k, NEW W, IsFiniteSet(W), \A x \in W : k[x] \in Nat, NEW h, IsSum(h, k, W),
           U \subseteq W, \A x \in U : f[x] <= k[x]
    PROVE  \A s \in SUBSET U : \A t \in SUBSET W : s \subseteq t => g[s] <= h[t]
<1> DEFINE wrong == {s \in SUBSET U : \E t \in SUBSET W : s \subseteq t /\ ~(g[s] <= h[t])}
<1> SUFFICES ASSUME wrong # {} PROVE FALSE
  OBVIOUS
<1>1. PICK s \in wrong : \A t \in wrong : Cardinality(s) <= Cardinality(t)
  <2>1. wrong \in SUBSET SUBSET U
    OBVIOUS
  <2> HIDE DEF wrong
  <2> QED
    BY <2>1, SmallestSubset
<1>2. s \in SUBSET U
  BY <1>1
<1>3. PICK t \in SUBSET W : s \subseteq t /\ ~(g[s] <= h[t])
  BY <1>1
<1>4. g[s] \in Nat /\ h[t] \in Nat
  BY <1>2, SumNat
<1>5. s # {}
  <2> SUFFICES ASSUME s = {} PROVE FALSE
    OBVIOUS
  <2>1. g[s] = 0
    BY <1>2, SumOf
  <2> QED
    BY <1>3, <1>4, <2>1
<1>6. PICK x \in s : TRUE
  BY <1>5
<1>7. g[s] = f[x] + g[s \ {x}]
  BY <1>2, <1>6, SumWithout
<1>8. h[t] = k[x] + h[t \ {x}]
  BY <1>3, <1>6, SumWithout
<1>9. s \ {x} \in SUBSET U /\ Cardinality(s) \in Nat /\ Cardinality(s \ {x}) = Cardinality(s) - 1
  BY <1>2, <1>6, OneLess
<1>10. s \ {x} \notin wrong
  BY <1>1, <1>9
<1>11. t \ {x} \in SUBSET W /\ s \ {x} \subseteq t \ {x}
  BY <1>3
<1>12. g[s \ {x}] <= h[t \ {x}]
  BY <1>9, <1>10, <1>11
<1>13. f[x] \in Nat /\ k[x] \in Nat /\ f[x] <= k[x] /\ g[s \ {x}] \in Nat /\ h[t \ {x}] \in Nat
  BY <1>2, <1>3, <1>6, <1>9, <1>11, SumNat
<1> QED
  BY <1>3, <1>4, <1>7, <1>8, <1>12, <1>13

\* SumFunction computes such a sum.
LEMMA SumFunctionIs ==
    ASSUME NEW fun, IsFiniteSet(DOMAIN fun)
    PROVE  \E g : IsSum(g, fun, DOMAIN fun) /\ SumFunction(fun) = g[DOMAIN fun]
<1> DEFINE sum == CHOOSE g : IsSum(g, fun, DOMAIN fun)
<1>1. IsSum(sum, fun, DOMAIN fun)
  BY SumExists
<1>2. SumFunction(fun) = sum[DOMAIN fun]
  BY DEF SumFunction, SumFunctionOnSet, FoldFunctionOnSet, MapThenFoldSet, IsSum, SomeOf
<1> QED
  BY <1>1, <1>2

\* A finite set of numbers has a greatest one, which Max picks.
LEMMA MaxIsGreatest ==
    ASSUME NEW S \in SUBSET Nat, IsFiniteSet(S), S # {}
    PROVE  Max(S) \in S /\ \A y \in S : y <= Max(S)
<1> DEFINE Greatest(s, x) == x \in s /\ \A y \in s : x >= y
           wrong == {s \in SUBSET S : s # {} /\ \A x \in s : ~Greatest(s, x)}
<1>1. CASE wrong = {}
  <2>1. \E x \in S : \A y \in S : x >= y
    BY <1>1
  <2>2. Max(S) \in S /\ \A y \in S : Max(S) >= y
    BY <2>1 DEF Max
  <2> QED
    BY <2>2
<1>2. CASE wrong # {}
  <2>1. PICK s \in wrong : \A t \in wrong : Cardinality(s) <= Cardinality(t)
    <3>1. wrong \in SUBSET SUBSET S
      OBVIOUS
    <3> HIDE DEF wrong
    <3> QED
      BY <1>2, <3>1, SmallestSubset
  <2>2. s \in SUBSET S /\ s # {} /\ \A x \in s : ~Greatest(s, x)
    BY <2>1
  <2>3. PICK x \in s : TRUE
    BY <2>2
  <2> DEFINE rest == s \ {x}
  <2>4. rest \in SUBSET S /\ Cardinality(s) \in Nat /\ Cardinality(rest) = Cardinality(s) - 1
    BY <2>2, <2>3, OneLess
  <2>5. rest \notin wrong
    <3> SUFFICES ASSUME rest \in wrong PROVE FALSE
      OBVIOUS
    <3>1. Cardinality(s) <= Cardinality(rest)
      <4> HIDE DEF wrong, rest
      <4> QED
        BY <2>1
    <3> HIDE DEF rest
    <3> QED
      BY <2>4, <3>1
  <2>6. x \in Nat /\ \A y \in s : y \in Nat
    BY <2>2, <2>3
  <2>7. CASE rest = {}
    <3>1. s = {x}
      BY <2>3, <2>7
    <3> QED
      BY <2>2, <2>6, <3>1
  <2>8. CASE rest # {}
    <3>1. PICK m \in rest : \A y \in rest : m >= y
      BY <2>4, <2>5, <2>8
    <3>2. m \in s /\ m \in Nat /\ \A y \in s : y = x \/ m >= y
      BY <2>6, <3>1
    <3>3. CASE m >= x
      <4>1. Greatest(s, m)
        BY <3>2, <3>3
      <4> QED
        BY <2>2, <3>2, <4>1
    <3>4. CASE x >= m
      <4>1. \A y \in s : x >= y
        BY <2>6, <3>2, <3>4
      <4> QED
        BY <2>2, <2>3, <4>1
    <3> QED
      BY <2>6, <3>2, <3>3, <3>4
  <2> QED
    BY <2>7, <2>8
<1> QED
  BY <1>1, <1>2

-----------------------------------------------------------------------------
(* The pair discovery                                                      *)

\* A step of the composition is a step of the discovery, of the pages, or leaves
\* their variables as they are.
LEMMA CountingSteps ==
    ASSUME [Next]_componentVars
    PROVE  [DsNext]_dsVars /\ [VwNext]_vwVars
<1>1. CASE UNCHANGED componentVars
  BY <1>1 DEF componentVars, partVars
<1>2. CASE Pairing
  BY <1>2 DEF Pairing
<1>3. CASE Views
  BY <1>3 DEF Views
<1>4. CASE Fanout \/ Jupiter \/ Pools \/ Pricing \/ Scanner \/ Bot
  BY <1>4 DEF Fanout, Jupiter, Pools, Pricing, Scanner, Bot
<1>5. CASE Risk \/ Latency \/ Swap \/ Onchain \/ Reports \/ Dashboard \/ Chain
  BY <1>5 DEF Risk, Latency, Swap, Onchain, Reports, Dashboard, Chain
<1> QED
  BY <1>1, <1>2, <1>3, <1>4, <1>5 DEF Next

\* The two ways to add up volumes.
BotVolume(times, pools) == MapThenSumSet(LAMBDA l : times[l] * l.volume, pools)
BestVolume(pools) == MapThenSumSet(LAMBDA d : Max({l.volume : l \in {k \in pools : k.dex = d}}), DexesOf(pools))

\* The bot's volume is the sum of what it lists.
LEMMA BotVolumeIs ==
    ASSUME NEW times, NEW pools, IsFiniteSet(pools)
    PROVE  \E g : /\ IsSum(g, [l \in pools |-> times[l] * l.volume], pools)
                  /\ BotVolume(times, pools) = g[pools]
<1> DEFINE f == [l \in pools |-> times[l] * l.volume]
           P(g) == g = [s \in SUBSET pools |->
                            IF s = {} THEN 0 ELSE times[SomeOf(s)] * SomeOf(s).volume + g[s \ {SomeOf(s)}]]
           sum == CHOOSE g : P(g)
<1>1. \A s \in SUBSET pools : s # {} => SomeOf(s) \in pools
  BY DEF SomeOf
<1>2. \A g : IsSum(g, f, pools) <=> P(g)
  BY <1>1 DEF IsSum
<1>3. BotVolume(times, pools) = sum[pools]
  BY DEF BotVolume, MapThenSumSet, MapThenFoldSet, SomeOf
<1>4. P(sum)
  <2>1. \E g : P(g)
    BY <1>2, SumExists
  <2> QED
    BY <2>1
<1> QED
  BY <1>2, <1>3, <1>4

\* Volume of the best pool of a DEX.
BestOn(pools, d) == Max({l.volume : l \in {k \in pools : k.dex = d}})

\* The others' is the sum of the best of each DEX.
LEMMA BestVolumeIs ==
    ASSUME NEW pools, IsFiniteSet(DexesOf(pools))
    PROVE  \E g : /\ IsSum(g, [d \in DexesOf(pools) |-> BestOn(pools, d)], DexesOf(pools))
                  /\ BestVolume(pools) = g[DexesOf(pools)]
<1> DEFINE U == DexesOf(pools)
           f == [d \in U |-> BestOn(pools, d)]
           P(g) == g = [s \in SUBSET U |-> IF s = {} THEN 0 ELSE BestOn(pools, SomeOf(s)) + g[s \ {SomeOf(s)}]]
           sum == CHOOSE g : P(g)
<1>1. \A s \in SUBSET U : s # {} => SomeOf(s) \in U
  BY DEF SomeOf
<1>2. \A g : IsSum(g, f, U) <=> P(g)
  BY <1>1 DEF IsSum
<1>3. BestVolume(pools) = sum[U]
  BY DEF BestVolume, BestOn, MapThenSumSet, MapThenFoldSet, SomeOf
<1>4. P(sum)
  <2>1. \E g : P(g)
    BY <1>2, SumExists
  <2> QED
    BY <2>1
<1> QED
  BY <1>2, <1>3, <1>4

All == [l \in Listings |-> 1]

\* Listings are finitely many, with numbers as volumes.
LEMMA ListingFacts ==
    ASSUME NEW pools \in SUBSET Listings
    PROVE  /\ IsFiniteSet(pools) /\ IsFiniteSet(DexesOf(pools))
           /\ Cardinality(DexesOf(pools)) \in Nat
           /\ \A l \in pools : l.volume \in Nat
<1>1. IsFiniteSet(pools) /\ \A l \in pools : l.volume \in Nat
  BY DiscoveryAssumption, FS_Subset
<1> DEFINE f == [l \in pools |-> l.dex]
<1>2. f \in Surjection(pools, DexesOf(pools))
  BY DEF DexesOf, Surjection
<1>3. IsFiniteSet(DexesOf(pools))
  BY <1>1, <1>2, FS_Surjection
<1> QED
  BY <1>1, <1>3, FS_CardinalityType

\* The bot's volume of pools entered once is at most that of all that are listed.
LEMMA BotVolumeGrows ==
    ASSUME NEW listed \in SUBSET Listings, NEW pools \in SUBSET listed,
           NEW times, \A l \in pools : times[l] = 1
    PROVE  BotVolume(times, pools) <= BotVolume(All, listed)
<1> DEFINE f == [l \in pools |-> times[l] * l.volume]
           k == [l \in listed |-> All[l] * l.volume]
<1>1. /\ IsFiniteSet(listed) /\ IsFiniteSet(pools)
      /\ \A l \in listed : l.volume \in Nat
  BY ListingFacts
<1>2. \A l \in pools : f[l] = l.volume
  BY <1>1
<1>3. \A l \in listed : k[l] = l.volume
  BY <1>1 DEF All
<1>4. PICK g : IsSum(g, f, pools) /\ BotVolume(times, pools) = g[pools]
  BY <1>1, BotVolumeIs
<1>5. PICK h : IsSum(h, k, listed) /\ BotVolume(All, listed) = h[listed]
  BY <1>1, BotVolumeIs
<1> HIDE DEF f, k
<1>6. (\A l \in pools : f[l] \in Nat /\ f[l] <= k[l]) /\ \A l \in listed : k[l] \in Nat
  BY <1>1, <1>2, <1>3
<1>7. g[pools] <= h[listed]
  BY <1>1, <1>4, <1>5, <1>6, SumMonotone
<1> QED
  BY <1>4, <1>5, <1>7

\* The best pool of a DEX among more pools is no worse.
LEMMA BestGrows ==
    ASSUME NEW listed \in SUBSET Listings, NEW pools \in SUBSET listed, NEW d \in DexesOf(pools)
    PROVE  BestOn(pools, d) \in Nat /\ BestOn(listed, d) \in Nat /\ BestOn(pools, d) <= BestOn(listed, d)
<1> DEFINE On(some) == {k \in some : k.dex = d}
           Volumes(some) == {l.volume : l \in On(some)}
<1>1. ASSUME NEW some \in SUBSET Listings, d \in DexesOf(some)
      PROVE  Max(Volumes(some)) \in Volumes(some) /\ \A y \in Volumes(some) : y <= Max(Volumes(some))
  <2>1. On(some) \in SUBSET Listings /\ On(some) # {}
    BY <1>1 DEF DexesOf
  <2>2. IsFiniteSet(On(some)) /\ \A l \in On(some) : l.volume \in Nat
    BY <2>1, ListingFacts
  <2> DEFINE v == [l \in On(some) |-> l.volume]
  <2>3. v \in Surjection(On(some), Volumes(some))
    BY DEF Surjection
  <2>4. IsFiniteSet(Volumes(some))
    BY <2>2, <2>3, FS_Surjection
  <2>5. Volumes(some) \in SUBSET Nat /\ Volumes(some) # {}
    BY <2>1, <2>2
  <2> HIDE DEF Volumes
  <2> QED
    BY <2>4, <2>5, MaxIsGreatest
<1>2. d \in DexesOf(listed)
  BY DEF DexesOf
<1>3. Max(Volumes(pools)) \in Volumes(pools) /\ \A y \in Volumes(listed) : y <= Max(Volumes(listed))
  BY <1>1, <1>2
<1>4. Max(Volumes(listed)) \in Volumes(listed)
  BY <1>1, <1>2
<1>5. Volumes(pools) \subseteq Volumes(listed) /\ Volumes(listed) \subseteq Nat
  BY ListingFacts
<1>6. BestOn(pools, d) = Max(Volumes(pools)) /\ BestOn(listed, d) = Max(Volumes(listed))
  BY DEF BestOn
<1> HIDE DEF Volumes
<1> QED
  BY <1>3, <1>4, <1>5, <1>6

\* So the others' volume, over no more DEXes, is at most that of all pools.
LEMMA BestVolumeGrows ==
    ASSUME NEW listed \in SUBSET Listings, NEW pools \in SUBSET listed
    PROVE  /\ BestVolume(pools) \in Nat /\ BestVolume(listed) \in Nat
           /\ BestVolume(pools) <= BestVolume(listed)
<1> DEFINE U == DexesOf(pools)
           W == DexesOf(listed)
           f == [d \in U |-> BestOn(pools, d)]
           k == [d \in W |-> BestOn(listed, d)]
<1>1. IsFiniteSet(U) /\ IsFiniteSet(W) /\ U \subseteq W
  BY ListingFacts DEF DexesOf
<1>2. PICK g : IsSum(g, f, U) /\ BestVolume(pools) = g[U]
  BY <1>1, BestVolumeIs
<1>3. PICK h : IsSum(h, k, W) /\ BestVolume(listed) = h[W]
  BY <1>1, BestVolumeIs
<1>4. \A d \in U : f[d] \in Nat /\ f[d] <= k[d]
  BY <1>1, BestGrows
<1>5. \A d \in W : k[d] \in Nat
  BY BestGrows
<1> HIDE DEF U, W, f, k
<1>6. g[U] <= h[W] /\ g[U] \in Nat /\ h[W] \in Nat
  <2>1. g[U] \in Nat
    BY <1>1, <1>2, <1>4, SumNat
  <2>2. h[W] \in Nat
    BY <1>1, <1>3, <1>5, SumNat
  <2>3. g[U] <= h[W]
    BY <1>1, <1>2, <1>3, <1>4, <1>5, SumMonotone
  <2> QED
    BY <2>1, <2>2, <2>3
<1> QED
  BY <1>2, <1>3, <1>6 DEF U, W

\* A product of no more is no more.
LEMMA ProductsGrow ==
    ASSUME NEW a \in Nat, NEW b \in Nat, NEW c \in Nat, NEW d \in Nat, a <= b, c <= d
    PROVE  a * c \in Nat /\ b * d \in Nat /\ a * c <= b * d
<1>1. a * c <= b * c
  OBVIOUS
<1>2. b * c <= b * d
  OBVIOUS
<1> QED
  BY <1>1, <1>2

\* The pool whose addresses a pair gets is one of its pools.
LEMMA BestIsListed ==
    ASSUME NEW pools \in SUBSET Listings, pools # {}
    PROVE  BestOf(pools) \in pools
<1> DEFINE volumes == {l.volume : l \in pools}
           v == [l \in pools |-> l.volume]
<1>1. v \in Surjection(pools, volumes) /\ IsFiniteSet(pools) /\ volumes \in SUBSET Nat /\ volumes # {}
  BY ListingFacts DEF Surjection
<1>2. IsFiniteSet(volumes)
  <2> HIDE DEF v, volumes
  <2> QED
    BY <1>1, FS_Surjection
<1>3. Max(volumes) \in volumes /\ \A y \in volumes : y <= Max(volumes)
  <2> HIDE DEF volumes
  <2> QED
    BY <1>1, <1>2, MaxIsGreatest
<1>4. \E l \in pools : \A k \in pools : k.volume <= l.volume
  BY <1>3
<1> QED
  BY <1>4 DEF BestOf

\* The score for a kind of discovery.
ScoreFor(kind, times, pools) ==
    IF kind = "bot" THEN BotVolume(times, pools)
    ELSE BestVolume(pools) * Cardinality(DexesOf(pools)) * (IF \E l \in pools : l.pair \in BluePairs THEN 2 ELSE 1)

\* It is the one in the model.
LEMMA ScoreIs ==
    ASSUME NEW times, NEW pools
    PROVE  Score(times, pools) = ScoreFor(dsKind, times, pools)
<1>1. Volume(times, pools) = IF dsKind = "bot" THEN BotVolume(times, pools) ELSE BestVolume(pools)
  BY DEF Volume, BotVolume, BestVolume
<1> QED
  BY <1>1 DEF Score, ScoreFor

\* Pools an answer shows on a second DEX, or that are well known.
SeenTwice(l) == l.known \/ \E k \in Qualified : k.pair = l.pair /\ k.dex # l.dex /\ k.searches \cap l.searches # {}

\* What has been entered qualifies; the bot enters a pool once.
EnteredOK ==
    \A l \in Listings : dsFound[l] > 0 =>
        /\ l \in Qualified
        /\ dsKind = "bot" => dsFound[l] = 1 /\ SeenTwice(l)

\* Types, and which kind of discovery comes to which stage.
DiscoveryTypeOK ==
    /\ dsKind \in {"solana", "evm", "bot", "refresher"}
    /\ dsFound \in [Listings -> Nat]
    /\ dsStage \in {"new", "keep", "persist", "waiting"} => dsKind = "refresher"
    /\ dsStage = "quote" => dsKind = "evm"
    /\ dsQuotes # {} => dsKind = "evm" /\ dsStage = "done"

\* The pools listed for a ranked pair, and what its rank promises of them.
Listed(kind, p) ==
    {l \in Listings : l.chain \in TargetOf[kind] /\ l.volume >= MinVolume /\ l.pair = p.pair /\ l.chain = p.chain}
AsListed(kind, p) ==
    /\ \E l \in Listed(kind, p) : l.mint = p.mint
    /\ p.score <= ScoreFor(kind, All, Listed(kind, p))
    /\ IF kind = "bot"
       THEN \E l \in Listed(kind, p) :
               l.known \/ \E k \in Listed(kind, p) : k.dex # l.dex /\ k.searches \cap l.searches # {}
       ELSE Cardinality(DexesOf(Listed(kind, p))) >= MinDexes

DiscoveryInv == DiscoveryTypeOK /\ EnteredOK /\ (\A p \in dsResult : AsListed(dsKind, p)) /\ PricedOnItsChain /\ SnapshotFollows

\* More pools, all of them entered once, score no less.
LEMMA ScoreGrows ==
    ASSUME NEW listed \in SUBSET Listings, NEW pools \in SUBSET listed,
           NEW times, dsKind = "bot" => \A l \in pools : times[l] = 1
    PROVE  ScoreFor(dsKind, times, pools) <= ScoreFor(dsKind, All, listed)
<1>1. CASE dsKind = "bot"
  <2>1. BotVolume(times, pools) <= BotVolume(All, listed)
    BY <1>1, BotVolumeGrows
  <2> QED
    BY <1>1, <2>1 DEF ScoreFor
<1>2. CASE dsKind # "bot"
  <2> DEFINE v == BestVolume(pools)
             w == BestVolume(listed)
             m == Cardinality(DexesOf(pools))
             n == Cardinality(DexesOf(listed))
             b == IF \E l \in pools : l.pair \in BluePairs THEN 2 ELSE 1
             c == IF \E l \in listed : l.pair \in BluePairs THEN 2 ELSE 1
  <2>1. v \in Nat /\ w \in Nat /\ v <= w
    BY BestVolumeGrows
  <2>2. m \in Nat /\ n \in Nat /\ m <= n
    <3>1. DexesOf(pools) \in SUBSET DexesOf(listed)
      BY DEF DexesOf
    <3>2. IsFiniteSet(DexesOf(listed)) /\ n \in Nat /\ m \in Nat
      BY ListingFacts
    <3> QED
      BY <3>1, <3>2, FS_Subset
  <2>3. b \in Nat /\ c \in Nat /\ b <= c
    OBVIOUS
  <2>4. ScoreFor(dsKind, times, pools) = v * m * b /\ ScoreFor(dsKind, All, listed) = w * n * c
    BY <1>2 DEF ScoreFor
  <2> HIDE DEF v, w, m, n, b, c
  <2>5. v * m \in Nat /\ w * n \in Nat /\ v * m <= w * n
    BY <2>1, <2>2, ProductsGrow
  <2>6. v * m * b <= w * n * c
    BY <2>3, <2>5, ProductsGrow
  <2> QED
    BY <2>4, <2>6
<1> QED
  BY <1>1, <1>2

\* What the ranking makes of the pools entered is borne out by what is listed.
LEMMA RankedIsListed ==
    ASSUME DiscoveryTypeOK, EnteredOK, NEW p \in RankedPairs
    PROVE  AsListed(dsKind, p)
<1>1. PICK l \in Listings :
          /\ Enough(Of(dsFound, l.pair, l.chain))
          /\ p = [pair |-> l.pair, chain |-> l.chain, mint |-> BestOf(Of(dsFound, l.pair, l.chain)).mint,
                  score |-> Score(dsFound, Of(dsFound, l.pair, l.chain))]
  BY DEF RankedPairs
<1> DEFINE pools == Of(dsFound, l.pair, l.chain)
<1>2. /\ p.pair = l.pair /\ p.chain = l.chain /\ p.mint = BestOf(pools).mint
      /\ p.score = ScoreFor(dsKind, dsFound, pools)
  BY <1>1, ScoreIs
<1>3. pools \in SUBSET Listed(dsKind, p) /\ Listed(dsKind, p) \in SUBSET Listings
  BY <1>2 DEF Of, Listed, EnteredOK, Qualified
<1>4. pools # {} /\ (dsKind = "bot" \/ Cardinality(DexesOf(pools)) >= MinDexes)
  BY <1>1 DEF Enough
<1>5. \A k \in pools : dsKind = "bot" => dsFound[k] = 1 /\ SeenTwice(k)
  BY DEF Of, EnteredOK
<1> HIDE DEF pools
<1>6. \E k \in Listed(dsKind, p) : k.mint = p.mint
  BY <1>2, <1>3, <1>4, BestIsListed
<1>7. p.score <= ScoreFor(dsKind, All, Listed(dsKind, p))
  BY <1>2, <1>3, <1>5, ScoreGrows
<1>8. CASE dsKind = "bot"
  <2>1. PICK k \in pools : SeenTwice(k)
    BY <1>4, <1>5, <1>8
  <2>2. \A j \in Qualified : j.pair = k.pair => j \in Listed(dsKind, p)
    BY <1>3, <1>8, DiscoveryAssumption DEF Listed, Qualified
  <2>3. k \in Listed(dsKind, p)
    BY <1>3
  <2>4. \E j \in Listed(dsKind, p) : j.known \/ \E i \in Listed(dsKind, p) : i.dex # j.dex /\ i.searches \cap j.searches # {}
    BY <2>1, <2>2, <2>3 DEF SeenTwice
  <2> QED
    BY <1>6, <1>7, <1>8, <2>4 DEF AsListed
<1>9. CASE dsKind # "bot"
  <2>1. DexesOf(pools) \in SUBSET DexesOf(Listed(dsKind, p))
    BY <1>3 DEF DexesOf
  <2>2. Cardinality(DexesOf(pools)) <= Cardinality(DexesOf(Listed(dsKind, p)))
    BY <1>3, <2>1, ListingFacts, FS_Subset
  <2>3. /\ Cardinality(DexesOf(pools)) \in Nat /\ Cardinality(DexesOf(Listed(dsKind, p))) \in Nat /\ MinDexes \in Nat
    BY <1>3, ListingFacts, DiscoveryAssumption
  <2>4. Cardinality(DexesOf(Listed(dsKind, p))) >= MinDexes
    BY <1>4, <1>9, <2>2, <2>3
  <2> QED
    BY <1>6, <1>7, <1>9, <2>4 DEF AsListed
<1> QED
  BY <1>8, <1>9

\* The promise of the rank, in the words of RankedAsListed.
LEMMA RankedInWords ==
    ASSUME \A p \in dsResult : AsListed(dsKind, p)
    PROVE  RankedAsListed
<1>1. \A p : Listed(dsKind, p) = {l \in Qualified : l.pair = p.pair /\ l.chain = p.chain}
  BY DEF Listed, Qualified
<1>2. \A p : Score([l \in Listings |-> 1], Listed(dsKind, p)) = ScoreFor(dsKind, All, Listed(dsKind, p))
  BY ScoreIs DEF All
<1>3. ASSUME NEW p \in dsResult, NEW listed, listed = {l \in Qualified : l.pair = p.pair /\ l.chain = p.chain}
      PROVE  /\ \E l \in listed : l.mint = p.mint
             /\ p.score <= Score([l \in Listings |-> 1], listed)
             /\ IF dsKind = "bot"
                THEN \E l \in listed : l.known \/ \E k \in listed : k.dex # l.dex /\ k.searches \cap l.searches # {}
                ELSE Cardinality(DexesOf(listed)) >= MinDexes
  <2>1. listed = Listed(dsKind, p) /\ AsListed(dsKind, p)
    BY <1>1, <1>3
  <2>2. Score([l \in Listings |-> 1], listed) = ScoreFor(dsKind, All, listed)
    BY <1>2, <2>1
  <2> QED
    BY <2>1, <2>2 DEF AsListed
<1> QED
  BY <1>3 DEF RankedAsListed

\* The discovery starts in its invariant.
LEMMA DiscoveryInit == DsInit => DiscoveryInv
  BY DEF DsInit, DiscoveryInv, DiscoveryTypeOK, EnteredOK, NotFound, PricedOnItsChain, SnapshotFollows

\* A search enters qualifying pools only, the bot's those it saw twice or knows.
LEMMA EnterKeeps ==
    ASSUME DiscoveryInv, NEW pools \in SUBSET Qualified, Enter(pools), dsKind' = dsKind,
           dsKind = "bot" => \A l \in pools : SeenTwice(l)
    PROVE  EnteredOK' /\ dsFound' \in [Listings -> Nat]
<1>1. dsFound \in [Listings -> Nat] /\ EnteredOK
  BY DEF DiscoveryInv, DiscoveryTypeOK
<1>2. dsFound' = [l \in Listings |-> IF l \in pools THEN Entered(l) ELSE dsFound[l]]
  BY DEF Enter
<1>3. \A l \in Listings : Entered(l) \in Nat /\ (dsKind = "bot" => Entered(l) = 1)
  BY <1>1 DEF Entered
<1>4. Qualified' = Qualified /\ \A l : SeenTwice(l)' <=> SeenTwice(l)
  BY DEF Qualified, SeenTwice
<1>5. dsFound' \in [Listings -> Nat]
  BY <1>1, <1>2, <1>3
<1>6. \A l \in Listings : dsFound'[l] = IF l \in pools THEN Entered(l) ELSE dsFound[l]
  BY <1>2
<1>7. EnteredOK'
  BY <1>1, <1>3, <1>4, <1>6 DEF EnteredOK
<1> QED
  BY <1>5, <1>7

\* Both kinds of search keep the invariant.
LEMMA SearchKeeps == DiscoveryInv /\ (Search \/ SearchKnownPools) => DiscoveryInv'
<1> SUFFICES ASSUME DiscoveryInv, Search \/ SearchKnownPools PROVE DiscoveryInv'
  OBVIOUS
<1>1. /\ dsKind' = dsKind /\ dsResult' = dsResult /\ dsQuotes' = dsQuotes
      /\ rfMemory' = rfMemory /\ rfSnapshot' = rfSnapshot /\ rfSaved' = rfSaved
      /\ dsStage \in {"search", "pools"} /\ dsStage' \in {"search", "pools", "rank"}
  BY DEF Search, SearchKnownPools, rfVars
<1>2. \E pools \in SUBSET Qualified : Enter(pools) /\ (dsKind = "bot" => \A l \in pools : SeenTwice(l))
  <2>1. CASE Enter({})
    BY <2>1
  <2>2. CASE Search /\ dsKind # "bot" /\ \E pools \in SUBSET SearchAnswer(Tokens[dsNext]) : Enter(pools)
    BY <2>2 DEF SearchAnswer
  <2>3. CASE Search /\ dsKind = "bot" /\ Enter(CrossDex(SearchAnswer(Tokens[dsNext])))
    <3>1. CrossDex(SearchAnswer(Tokens[dsNext])) \in SUBSET Qualified
      BY DEF CrossDex, SearchAnswer
    <3>2. \A l \in CrossDex(SearchAnswer(Tokens[dsNext])) : SeenTwice(l)
      BY DEF CrossDex, SearchAnswer, SeenTwice
    <3> QED
      BY <2>3, <3>1, <3>2
  <2>4. CASE SearchKnownPools /\ Enter({l \in Qualified : l.known})
    BY <2>4 DEF SeenTwice
  <2> QED
    BY <2>1, <2>2, <2>3, <2>4 DEF Search, SearchKnownPools
<1>3. EnteredOK' /\ dsFound' \in [Listings -> Nat]
  BY <1>1, <1>2, EnterKeeps
<1>4. DiscoveryTypeOK'
  BY <1>1, <1>3 DEF DiscoveryInv, DiscoveryTypeOK
<1>5. \A p \in dsResult' : AsListed(dsKind, p)'
  BY <1>1 DEF DiscoveryInv
<1>6. PricedOnItsChain' /\ SnapshotFollows'
  BY <1>1 DEF DiscoveryInv, PricedOnItsChain, SnapshotFollows
<1> QED
  BY <1>3, <1>4, <1>5, <1>6 DEF DiscoveryInv

\* The ranking and the cut keep it.
LEMMA RankKeeps == DiscoveryInv /\ Rank => DiscoveryInv'
<1> SUFFICES ASSUME DiscoveryInv, Rank PROVE DiscoveryInv'
  OBVIOUS
<1>1. /\ dsStage = "rank" /\ dsKind' = dsKind /\ dsFound' = dsFound /\ dsQuotes' = dsQuotes
      /\ dsResult' \in SUBSET RankedPairs
      /\ dsStage' = CASE dsKind = "refresher" -> "keep" [] dsKind = "evm" -> "quote" [] OTHER -> "done"
  BY DEF Rank, Best
<1>2. DiscoveryTypeOK /\ EnteredOK
  BY DEF DiscoveryInv
<1>3. dsQuotes = {}
  BY <1>1, <1>2 DEF DiscoveryTypeOK
<1>4. DiscoveryTypeOK' /\ EnteredOK'
  BY <1>1, <1>2, <1>3 DEF DiscoveryTypeOK, EnteredOK, SeenTwice, Qualified
<1>5. \A p \in dsResult' : AsListed(dsKind, p)'
  BY <1>1, <1>2, RankedIsListed
<1>6. PricedOnItsChain'
  BY <1>1, <1>3 DEF PricedOnItsChain
<1>7. SnapshotFollows'
  BY <1>1 DEF SnapshotFollows
<1> QED
  BY <1>4, <1>5, <1>6, <1>7 DEF DiscoveryInv

\* The prices LiveMarket asks for keep it.
LEMMA LiveQuotesKeep == DiscoveryInv /\ GetLiveQuotes => DiscoveryInv'
<1> SUFFICES ASSUME DiscoveryInv, GetLiveQuotes PROVE DiscoveryInv'
  OBVIOUS
<1>1. /\ dsStage = "quote" /\ dsStage' = "done" /\ dsKind' = dsKind /\ dsFound' = dsFound /\ dsResult' = dsResult
  BY DEF GetLiveQuotes
<1>2. DiscoveryTypeOK' /\ EnteredOK'
  BY <1>1 DEF DiscoveryInv, DiscoveryTypeOK, EnteredOK, SeenTwice, Qualified
<1>3. \A p \in dsResult' : AsListed(dsKind, p)'
  BY <1>1 DEF DiscoveryInv
<1>4. ASSUME NEW q \in dsQuotes'
      PROVE  /\ q.coin.chain = Venues[q.venue]
             /\ \/ q.coin.mint = "registry"
                \/ \E p \in dsResult : p.pair = q.pair /\ p.chain = q.coin.chain /\ p.mint = q.coin.mint
  <2>1. PICK p \in PairList, v \in DOMAIN Venues :
            \E c \in CoinsOf(p.pair, Venues[v]) : q = [pair |-> p.pair, venue |-> v, coin |-> c]
    BY DEF GetLiveQuotes
  <2>2. PICK last \in PairList : last.pair = p.pair /\ q.coin \in Coin(last, Venues[v]) /\ q.pair = p.pair /\ q.venue = v
    BY <2>1 DEF CoinsOf
  <2>3. CASE last.chain = Venues[v]
    <3>1. q.coin = [pair |-> last.pair, chain |-> Venues[v], mint |-> last.mint]
      BY <2>2, <2>3 DEF Coin
    <3>2. last \in dsResult
      BY <2>3, DiscoveryAssumption DEF PairList
    <3> QED
      BY <2>2, <2>3, <3>1, <3>2
  <2>4. CASE last.chain # Venues[v]
    BY <2>2, <2>4 DEF Coin
  <2> QED
    BY <2>3, <2>4
<1>5. PricedOnItsChain'
  BY <1>1, <1>4 DEF PricedOnItsChain
<1>6. SnapshotFollows'
  BY <1>1 DEF SnapshotFollows
<1> QED
  BY <1>2, <1>3, <1>5, <1>6 DEF DiscoveryInv

\* The refresher's own steps keep it.
LEMMA RefresherKeeps ==
    ASSUME DiscoveryInv,
           StartRefresher \/ KeepPairs \/ PersistPairs \/ IntervalPasses \/ LoopWakes \/ StopRefresher \/ RestartRefresher
    PROVE  DiscoveryInv'
<1>1. /\ dsKind' = dsKind /\ dsQuotes' = dsQuotes /\ dsKind = "refresher"
      /\ dsResult' = dsResult \/ dsResult' = {}
      /\ dsFound' = dsFound \/ dsFound' = NotFound
  BY DEF DiscoveryInv, DiscoveryTypeOK, StartRefresher, KeepPairs, PersistPairs, IntervalPasses, LoopWakes,
         StopRefresher, RestartRefresher, rfVars
<1>2. dsQuotes = {}
  BY <1>1 DEF DiscoveryInv, DiscoveryTypeOK
<1>3. EnteredOK' /\ dsFound' \in [Listings -> Nat]
  BY <1>1 DEF DiscoveryInv, DiscoveryTypeOK, EnteredOK, SeenTwice, Qualified, NotFound
<1>4. dsStage' # "quote"
  BY <1>1 DEF DiscoveryInv, DiscoveryTypeOK, StartRefresher, KeepPairs, PersistPairs, IntervalPasses, LoopWakes,
         StopRefresher, RestartRefresher
<1>5. DiscoveryTypeOK'
  BY <1>1, <1>2, <1>3, <1>4 DEF DiscoveryInv, DiscoveryTypeOK
<1>6. \A p \in dsResult' : AsListed(dsKind, p)'
  BY <1>1 DEF DiscoveryInv
<1>7. PricedOnItsChain'
  BY <1>1, <1>2 DEF PricedOnItsChain
<1>8. SnapshotFollows'
  <2>1. CASE StartRefresher \/ KeepPairs \/ LoopWakes \/ RestartRefresher
    BY <2>1 DEF SnapshotFollows, StartRefresher, KeepPairs, LoopWakes, RestartRefresher
  <2>2. CASE PersistPairs
    BY <2>2 DEF SnapshotFollows, PersistPairs
  <2>3. CASE IntervalPasses \/ StopRefresher
    BY <2>3 DEF DiscoveryInv, SnapshotFollows, IntervalPasses, StopRefresher
  <2> QED
    BY <2>1, <2>2, <2>3
<1> QED
  BY <1>3, <1>5, <1>6, <1>7, <1>8 DEF DiscoveryInv

\* Every step of the discovery keeps its invariant.
LEMMA DiscoveryKeeps ==
    ASSUME DiscoveryInv, [DsNext]_dsVars
    PROVE  DiscoveryInv'
<1>1. CASE UNCHANGED dsVars
  <2>1. dsKind' = dsKind /\ dsResult' = dsResult
    BY <1>1 DEF dsVars
  <2>2. \A p \in dsResult' : AsListed(dsKind, p)'
    BY <2>1 DEF DiscoveryInv
  <2> QED
    BY <1>1, <2>2 DEF dsVars, rfVars, DiscoveryInv, DiscoveryTypeOK, EnteredOK, SeenTwice, Qualified,
                      PricedOnItsChain, SnapshotFollows
<1> QED
  BY <1>1, SearchKeeps, RankKeeps, LiveQuotesKeep, RefresherKeeps DEF DsNext

\* A ranked pair is one the exchanges list, at no more than their volume and on
\* enough DEXes; a coin is priced on its own chain; a restart finds what the
\* memory held: for any listings, tokens and limits, whichever searches fail.
THEOREM DiscoverySoundCorrect == Spec => []DiscoverySound
<1>1. Init => DiscoveryInv
  BY DiscoveryInit DEF Init
<1>2. DiscoveryInv /\ [Next]_componentVars => DiscoveryInv'
  BY DiscoveryKeeps, CountingSteps
<1>3. DiscoveryInv => DiscoverySound
  BY RankedInWords DEF DiscoveryInv, DiscoverySound
<1> QED
  BY <1>1, <1>2, <1>3, PTL DEF Spec

-----------------------------------------------------------------------------
(* Counts                                                                  *)

\* A part of a finite set has no more elements.
LEMMA FewerInSubset ==
    ASSUME NEW B, IsFiniteSet(B), NEW A \in SUBSET B
    PROVE  /\ IsFiniteSet(A)
           /\ Cardinality(A) \in Nat /\ Cardinality(B) \in Nat
           /\ Cardinality(A) <= Cardinality(B)
  BY FS_Subset, FS_CardinalityType

\* Two disjoint parts together have no more either, and as many when they make
\* up the whole.
LEMMA DisjointCounts ==
    ASSUME NEW C, IsFiniteSet(C), NEW A \in SUBSET C, NEW B \in SUBSET C, A \cap B = {}
    PROVE  /\ Cardinality(A \cup B) = Cardinality(A) + Cardinality(B)
           /\ Cardinality(A) + Cardinality(B) <= Cardinality(C)
<1>1. IsFiniteSet(A) /\ IsFiniteSet(B) /\ Cardinality(A) \in Nat /\ Cardinality(B) \in Nat
  BY FewerInSubset
<1>2. Cardinality(A \cup B) = Cardinality(A) + Cardinality(B) - Cardinality(A \cap B)
  BY <1>1, FS_Union
<1>3. Cardinality(A \cap B) = 0
  BY FS_EmptySet
<1>4. A \cup B \in SUBSET C
  OBVIOUS
<1>5. Cardinality(A \cup B) <= Cardinality(C) /\ Cardinality(C) \in Nat /\ Cardinality(A \cup B) \in Nat
  BY <1>4, FewerInSubset
<1> QED
  BY <1>1, <1>2, <1>3, <1>5

\* What SumFunction computes is a natural number, no more than for another
\* function that is nowhere less.
LEMMA SumFunctionGrows ==
    ASSUME NEW f, NEW k, DOMAIN f = DOMAIN k, IsFiniteSet(DOMAIN f),
           \A x \in DOMAIN f : f[x] \in Nat /\ k[x] \in Nat /\ f[x] <= k[x]
    PROVE  SumFunction(f) \in Nat /\ SumFunction(k) \in Nat /\ SumFunction(f) <= SumFunction(k)
<1>1. PICK g : IsSum(g, f, DOMAIN f) /\ SumFunction(f) = g[DOMAIN f]
  BY SumFunctionIs
<1>2. PICK h : IsSum(h, k, DOMAIN k) /\ SumFunction(k) = h[DOMAIN k]
  BY SumFunctionIs
<1>3. g[DOMAIN f] \in Nat /\ h[DOMAIN k] \in Nat
  BY <1>1, <1>2, SumNat
<1>4. g[DOMAIN f] <= h[DOMAIN k]
  BY <1>1, <1>2, SumMonotone
<1> QED
  BY <1>1, <1>2, <1>3, <1>4

\* How many elements there are of each class.
ClassCounts(rows, K, class) == [c \in K |-> Cardinality({i \in rows : class[i] = c})]

\* The counts of the classes of a finite set add up to the whole.
LEMMA ClassesAddUp ==
    ASSUME NEW rows, IsFiniteSet(rows), NEW K, IsFiniteSet(K), NEW class, \A i \in rows : class[i] \in K
    PROVE  SumFunction(ClassCounts(rows, K, class)) = Cardinality(rows)
<1> USE DEF ClassCounts
<1> DEFINE f == [c \in K |-> Cardinality({i \in rows : class[i] = c})]
           In(s) == {i \in rows : class[i] \in s}
<1>1. DOMAIN f = K
  OBVIOUS
<1>2. PICK g : IsSum(g, f, K) /\ SumFunction(f) = g[K]
  BY <1>1, SumFunctionIs
<1> DEFINE wrong == {s \in SUBSET K : g[s] # Cardinality(In(s))}
<1>3. CASE wrong = {}
  <2>1. g[K] = Cardinality(In(K))
    BY <1>3
  <2>2. In(K) = rows
    OBVIOUS
  <2> QED
    BY <1>2, <2>1, <2>2
<1>4. CASE wrong # {}
  <2>1. PICK s \in wrong : \A t \in wrong : Cardinality(s) <= Cardinality(t)
    <3>1. wrong \in SUBSET SUBSET K
      OBVIOUS
    <3> HIDE DEF wrong
    <3> QED
      BY <1>4, <3>1, SmallestSubset
  <2>2. s \in SUBSET K /\ g[s] # Cardinality(In(s))
    BY <2>1
  <2>3. s # {}
    <3> SUFFICES ASSUME s = {} PROVE FALSE
      OBVIOUS
    <3>1. g[s] = 0
      BY <1>2, <2>2, SumOf
    <3>2. In(s) = {}
      OBVIOUS
    <3> QED
      BY <2>2, <3>1, <3>2, FS_EmptySet
  <2> DEFINE x == SomeOf(s)
             rest == s \ {x}
  <2>4. x \in s
    BY <2>3, SomeOfIn
  <2>5. g[s] = f[x] + g[rest]
    <3> HIDE DEF f
    <3> QED
      BY <1>2, <2>2, <2>3, SumOf
  <2> HIDE DEF x
  <2>6. rest \in SUBSET K /\ Cardinality(s) \in Nat /\ Cardinality(rest) = Cardinality(s) - 1
    BY <2>2, <2>4, OneLess
  <2>7. g[rest] = Cardinality(In(rest))
    <3> SUFFICES ASSUME rest \in wrong PROVE FALSE
      BY <2>6
    <3>1. Cardinality(s) <= Cardinality(rest)
      <4> HIDE DEF wrong, rest
      <4> QED
        BY <2>1
    <3> HIDE DEF rest
    <3> QED
      BY <2>6, <3>1
  <2>8. f[x] = Cardinality(In({x}))
    <3>1. In({x}) = {i \in rows : class[i] = x}
      OBVIOUS
    <3>2. x \in K
      BY <2>2, <2>4
    <3>3. f[x] = Cardinality({i \in rows : class[i] = x})
      BY <3>2
    <3> QED
      BY <3>1, <3>3
  <2>9. In({x}) \in SUBSET rows /\ In(rest) \in SUBSET rows /\ In({x}) \cap In(rest) = {} /\ In({x}) \cup In(rest) = In(s)
    BY <2>4
  <2> HIDE DEF In, f, rest
  <2>10. Cardinality(In(s)) = Cardinality(In({x})) + Cardinality(In(rest))
    <3> DEFINE a == In({x})
               b == In(rest)
               c == In(s)
    <3>1. a \in SUBSET rows /\ b \in SUBSET rows /\ a \cap b = {} /\ a \cup b = c
      BY <2>9
    <3> HIDE DEF a, b, c
    <3>2. Cardinality(c) = Cardinality(a) + Cardinality(b)
      BY <3>1, DisjointCounts
    <3> QED
      BY <3>2 DEF a, b, c
  <2> QED
    BY <2>2, <2>5, <2>7, <2>8, <2>10
<1> QED
  BY <1>3, <1>4

-----------------------------------------------------------------------------
(* The rows of the pipeline                                                *)

Flags == {"included", "reverted", "dropped"}

ViewRows ==
    [at : Nat, pair : ViewPairs, status : Statuses, priced : {"none", "gain", "loss"},
     risk : {"none", "approved", "simulation_approved"} \cup RefusalReasons,
     simulation : {"none", "simulated", "simulation_failed"}, attempt : BOOLEAN, results : SUBSET SUBSET Flags]

Traded == {"submitted", "confirmed", "reverted", "dropped"}

\* What the columns of a row owe to each other at any statement of process.
RowOK(row) ==
    /\ row \in ViewRows
    /\ row.results = {} \/ \E result \in TradeResults : row.results = {result}
    /\ row.priced = "none" => row.risk = "none"
    /\ row.risk = "none" => row.status = "detected"
    /\ row.risk \in {"simulation_approved"} \cup RefusalReasons => row.status \in {"detected", Judgement(row.risk)}
    /\ row.risk = "approved" => row.status \notin {"rejected", "simulation_approved"}
    /\ row.status = "detected" => row.simulation = "none"
    /\ row.attempt => row.status \in {"approved", "simulated"} \cup Traded
    /\ row.status \in {"simulated", "simulation_failed"} => row.simulation = row.status
    /\ row.status \in Traded => row.attempt
    /\ row.results # {} => row.status \in Traded
    /\ row.status \in Traded \ {"submitted"} => \E result \in TradeResults : row.results = {result} /\ FinalStatus(result) = row.status

\* Of a candidate process has finished with, the status tells what the other
\* tables hold.
RowDone(row) ==
    /\ (\E result \in row.results : Successful(result)) <=> row.status = "confirmed"
    /\ (\E result \in row.results : "reverted" \in result) <=> row.status = "reverted"
    /\ (\E result \in row.results : "dropped" \in result) <=> row.status = "dropped"
    /\ row.risk = "simulation_approved" <=> row.status = "simulation_approved"
    /\ row.risk \in RefusalReasons <=> row.status = "rejected"

\* What later statements add to a row, and never take away.
RowGrows(row, new) ==
    /\ new.at = row.at /\ new.pair = row.pair
    /\ row.priced # "none" => new.priced = row.priced
    /\ row.risk # "none" => new.risk = row.risk
    /\ row.simulation # "none" => new.simulation = row.simulation
    /\ row.attempt => new.attempt
    /\ row.results \subseteq new.results

\* A trade result by its flags.
LEMMA ResultFacts ==
    ASSUME NEW result \in TradeResults
    PROVE  /\ result \in SUBSET Flags
           /\ FinalStatus(result) \in Traded
           /\ Successful(result) <=> FinalStatus(result) = "confirmed"
           /\ "reverted" \in result <=> FinalStatus(result) = "reverted"
           /\ "dropped" \in result <=> FinalStatus(result) = "dropped"
  BY DEF TradeResults, Flags, FinalStatus, Traded, Successful

\* A candidate comes in with nothing but its detection.
LEMMA NewRowOK ==
    ASSUME NEW pair \in ViewPairs, vwClock \in Nat
    PROVE  RowOK(NewRow(pair))
  BY DEF NewRow, RowOK, ViewRows, Statuses, Traded

\* Where a row stands, one place for each statement.
LEMMA RowPlaces ==
    ASSUME NEW row, RowOK(row)
    PROVE  NextRows(row) =
             IF row.priced = "none" THEN Price(row)
             ELSE IF row.risk = "none" THEN Decide(row)
             ELSE IF row.status = "detected" THEN {[row EXCEPT !.status = Judgement(row.risk)]}
             ELSE IF row.status = "approved" /\ ~row.attempt /\ row.simulation = "none"
                  THEN {[row EXCEPT !.simulation = outcome] : outcome \in {"simulated", "simulation_failed"}} \cup SubmitOrNot(row)
             ELSE IF row.status = "approved" /\ ~row.attempt THEN {[row EXCEPT !.status = row.simulation]}
             ELSE IF row.status = "simulated" /\ ~row.attempt THEN SubmitOrNot(row)
             ELSE IF row.status \in {"approved", "simulated"} THEN {[row EXCEPT !.status = "submitted"]}
             ELSE IF row.status = "submitted" /\ row.results = {} THEN {[row EXCEPT !.results = {result}] : result \in TradeResults}
             ELSE IF row.status = "submitted" THEN {[row EXCEPT !.status = FinalStatus(result)] : result \in row.results} \ {row}
             ELSE {}
<1>1. CASE row.priced = "none"
  BY <1>1 DEF RowOK, NextRows, ViewRows
<1>2. CASE row.priced # "none" /\ row.risk = "none"
  BY <1>2 DEF RowOK, NextRows, ViewRows
<1>3. CASE row.priced # "none" /\ row.risk # "none" /\ row.status = "detected"
  BY <1>3 DEF RowOK, NextRows, ViewRows
<1>4. CASE row.priced # "none" /\ row.risk # "none" /\ row.status = "approved"
  BY <1>4 DEF RowOK, NextRows, ViewRows
<1>5. CASE row.priced # "none" /\ row.risk # "none" /\ row.status = "simulated"
  BY <1>5 DEF RowOK, NextRows, ViewRows
<1>6. CASE row.priced # "none" /\ row.risk # "none" /\ row.status = "submitted"
  BY <1>6 DEF RowOK, NextRows, ViewRows
<1>7. CASE row.priced # "none" /\ row.risk # "none" /\ row.status \notin {"detected", "approved", "simulated", "submitted"}
  BY <1>7 DEF RowOK, NextRows, ViewRows
<1> QED
  BY <1>1, <1>2, <1>3, <1>4, <1>5, <1>6, <1>7 DEF RowOK, ViewRows

\* The rows a statement may leave behind, column by column.
LEMMA RowWith ==
    ASSUME NEW row \in ViewRows
    PROVE  /\ \A x \in Statuses : [row EXCEPT !.status = x] \in ViewRows
           /\ \A x \in {"gain", "loss"} : [row EXCEPT !.priced = x] \in ViewRows
           /\ [row EXCEPT !.attempt = TRUE] \in ViewRows
           /\ \A x \in {"approved", "simulation_approved"} \cup RefusalReasons : [row EXCEPT !.risk = x] \in ViewRows
           /\ \A x \in {"simulated", "simulation_failed"} : [row EXCEPT !.simulation = x] \in ViewRows
           /\ \A x \in SUBSET Flags : [row EXCEPT !.results = {x}] \in ViewRows
  BY DEF ViewRows

\* The price is written.
LEMMA PricedOK ==
    ASSUME NEW row, RowOK(row), row.priced = "none", NEW profit \in {"gain", "loss"},
           NEW new, new = [row EXCEPT !.priced = profit]
    PROVE  RowOK(new) /\ RowGrows(row, new)
<1>1. row \in ViewRows
  BY DEF RowOK
<1>2. new \in ViewRows
  BY <1>1, RowWith
<1>3. /\ new.at = row.at /\ new.pair = row.pair /\ new.status = row.status /\ new.priced = profit
      /\ new.risk = row.risk /\ new.simulation = row.simulation /\ new.attempt = row.attempt /\ new.results = row.results
  BY <1>1 DEF ViewRows
<1>4. RowGrows(row, new)
  BY <1>3 DEF RowGrows
<1>5. RowOK(new)
  BY <1>1, <1>2, <1>3 DEF RowOK, ViewRows, Traded
<1> QED
  BY <1>4, <1>5

\* The decision is written.
LEMMA DecidedRowOK ==
    ASSUME NEW row, RowOK(row), row.priced # "none", row.risk = "none",
           NEW verdict \in {"approved", "simulation_approved"} \cup RefusalReasons,
           NEW new, new = [row EXCEPT !.risk = verdict]
    PROVE  RowOK(new) /\ RowGrows(row, new)
<1>1. row \in ViewRows
  BY DEF RowOK
<1>2. new \in ViewRows
  BY <1>1, RowWith
<1>3. /\ new.at = row.at /\ new.pair = row.pair /\ new.status = row.status /\ new.priced = row.priced
      /\ new.risk = verdict /\ new.simulation = row.simulation /\ new.attempt = row.attempt /\ new.results = row.results
  BY <1>1 DEF ViewRows
<1>4. RowGrows(row, new)
  BY <1>3 DEF RowGrows
<1>5. RowOK(new)
  BY <1>1, <1>2, <1>3, ViewsAssumption DEF RowOK, ViewRows, Traded
<1> QED
  BY <1>4, <1>5

\* The decision becomes the status.
LEMMA JudgedOK ==
    ASSUME NEW row, RowOK(row), row.priced # "none", row.risk # "none", row.status = "detected",
           NEW new, new = [row EXCEPT !.status = Judgement(row.risk)]
    PROVE  RowOK(new) /\ RowGrows(row, new)
<1>1. row \in ViewRows
  BY DEF RowOK
<1>2. new \in ViewRows
  <2>1. Judgement(row.risk) \in Statuses
    BY <1>1 DEF ViewRows, Statuses, Judgement
  <2> QED
    BY <1>1, <2>1, RowWith
<1>3. /\ new.at = row.at /\ new.pair = row.pair /\ new.status = Judgement(row.risk) /\ new.priced = row.priced
      /\ new.risk = row.risk /\ new.simulation = row.simulation /\ new.attempt = row.attempt /\ new.results = row.results
  BY <1>1 DEF ViewRows
<1>4. RowGrows(row, new)
  BY <1>3 DEF RowGrows
<1>5. RowOK(new)
  BY <1>1, <1>2, <1>3, ViewsAssumption DEF RowOK, ViewRows, Traded, Judgement
<1> QED
  BY <1>4, <1>5

\* A simulation is written.
LEMMA SimulatedOK ==
    ASSUME NEW row, RowOK(row), row.risk # "none", row.status = "approved", ~row.attempt, row.simulation = "none",
           NEW outcome \in {"simulated", "simulation_failed"},
           NEW new, new = [row EXCEPT !.simulation = outcome]
    PROVE  RowOK(new) /\ RowGrows(row, new)
<1>1. row \in ViewRows
  BY DEF RowOK
<1>2. new \in ViewRows
  BY <1>1, RowWith
<1>3. /\ new.at = row.at /\ new.pair = row.pair /\ new.status = row.status /\ new.priced = row.priced
      /\ new.risk = row.risk /\ new.simulation = outcome /\ new.attempt = row.attempt /\ new.results = row.results
  BY <1>1 DEF ViewRows
<1>4. RowGrows(row, new)
  BY <1>3 DEF RowGrows
<1>5. RowOK(new)
  BY <1>1, <1>2, <1>3, ViewsAssumption DEF RowOK, ViewRows, Traded, Judgement
<1> QED
  BY <1>4, <1>5

\* Its outcome becomes the status.
LEMMA SimulationJudgedOK ==
    ASSUME NEW row, RowOK(row), row.risk # "none", row.status = "approved", ~row.attempt, row.simulation # "none",
           NEW new, new = [row EXCEPT !.status = row.simulation]
    PROVE  RowOK(new) /\ RowGrows(row, new)
<1>1. row \in ViewRows
  BY DEF RowOK
<1>2. new \in ViewRows
  <2>1. row.simulation \in Statuses
    BY <1>1 DEF ViewRows, Statuses
  <2> QED
    BY <1>1, <2>1, RowWith
<1>3. /\ new.at = row.at /\ new.pair = row.pair /\ new.status = row.simulation /\ new.priced = row.priced
      /\ new.risk = row.risk /\ new.simulation = row.simulation /\ new.attempt = row.attempt /\ new.results = row.results
  BY <1>1 DEF ViewRows
<1>4. RowGrows(row, new)
  BY <1>3 DEF RowGrows
<1>5. RowOK(new)
  BY <1>1, <1>2, <1>3, ViewsAssumption DEF RowOK, ViewRows, Traded, Judgement
<1> QED
  BY <1>4, <1>5

\* The attempt is written.
LEMMA AttemptedOK ==
    ASSUME NEW row, RowOK(row), row.risk # "none", row.status \in {"approved", "simulated"},
           NEW new, new = [row EXCEPT !.attempt = TRUE]
    PROVE  RowOK(new) /\ RowGrows(row, new)
<1>1. row \in ViewRows
  BY DEF RowOK
<1>2. new \in ViewRows
  BY <1>1, RowWith
<1>3. /\ new.at = row.at /\ new.pair = row.pair /\ new.status = row.status /\ new.priced = row.priced
      /\ new.risk = row.risk /\ new.simulation = row.simulation /\ new.attempt = TRUE /\ new.results = row.results
  BY <1>1 DEF ViewRows
<1>4. RowGrows(row, new)
  BY <1>3 DEF RowGrows
<1>5. RowOK(new)
  BY <1>1, <1>2, <1>3, ViewsAssumption DEF RowOK, ViewRows, Traded, Judgement
<1> QED
  BY <1>4, <1>5

\* Nothing is submitted.
LEMMA DryRunOK ==
    ASSUME NEW row, RowOK(row), row.risk # "none", row.status \in {"approved", "simulated"}, ~row.attempt,
           NEW new, new = [row EXCEPT !.status = "dry_run"]
    PROVE  RowOK(new) /\ RowGrows(row, new)
<1>1. row \in ViewRows
  BY DEF RowOK
<1>2. new \in ViewRows
  BY <1>1, RowWith DEF Statuses
<1>3. /\ new.at = row.at /\ new.pair = row.pair /\ new.status = "dry_run" /\ new.priced = row.priced
      /\ new.risk = row.risk /\ new.simulation = row.simulation /\ new.attempt = row.attempt /\ new.results = row.results
  BY <1>1 DEF ViewRows
<1>4. RowGrows(row, new)
  BY <1>3 DEF RowGrows
<1>5. RowOK(new)
  BY <1>1, <1>2, <1>3, ViewsAssumption DEF RowOK, ViewRows, Traded, Judgement
<1> QED
  BY <1>4, <1>5

\* The submission becomes the status.
LEMMA SubmittedOK ==
    ASSUME NEW row, RowOK(row), row.risk # "none", row.status \in {"approved", "simulated"}, row.attempt,
           NEW new, new = [row EXCEPT !.status = "submitted"]
    PROVE  RowOK(new) /\ RowGrows(row, new)
<1>1. row \in ViewRows
  BY DEF RowOK
<1>2. new \in ViewRows
  BY <1>1, RowWith DEF Statuses
<1>3. /\ new.at = row.at /\ new.pair = row.pair /\ new.status = "submitted" /\ new.priced = row.priced
      /\ new.risk = row.risk /\ new.simulation = row.simulation /\ new.attempt = row.attempt /\ new.results = row.results
  BY <1>1 DEF ViewRows
<1>4. RowGrows(row, new)
  BY <1>3 DEF RowGrows
<1>5. RowOK(new)
  BY <1>1, <1>2, <1>3, ViewsAssumption DEF RowOK, ViewRows, Traded, Judgement
<1> QED
  BY <1>4, <1>5

\* The trade result is written.
LEMMA ResultWrittenOK ==
    ASSUME NEW row, RowOK(row), row.status = "submitted", row.results = {}, NEW result \in TradeResults,
           NEW new, new = [row EXCEPT !.results = {result}]
    PROVE  RowOK(new) /\ RowGrows(row, new)
<1>1. row \in ViewRows
  BY DEF RowOK
<1>2. new \in ViewRows
  BY <1>1, RowWith, ResultFacts
<1>3. /\ new.at = row.at /\ new.pair = row.pair /\ new.status = row.status /\ new.priced = row.priced
      /\ new.risk = row.risk /\ new.simulation = row.simulation /\ new.attempt = row.attempt /\ new.results = {result}
  BY <1>1 DEF ViewRows
<1>4. RowGrows(row, new)
  BY <1>3 DEF RowGrows
<1>5. RowOK(new)
  BY <1>1, <1>2, <1>3, ViewsAssumption DEF RowOK, ViewRows, Traded, Judgement
<1> QED
  BY <1>4, <1>5

\* The trade result becomes the status.
LEMMA ResultJudgedOK ==
    ASSUME NEW row, RowOK(row), row.status = "submitted", NEW result \in TradeResults, row.results = {result},
           NEW new, new = [row EXCEPT !.status = FinalStatus(result)]
    PROVE  RowOK(new) /\ RowGrows(row, new)
<1>1. row \in ViewRows
  BY DEF RowOK
<1>2. new \in ViewRows
  BY <1>1, RowWith, ResultFacts DEF Traded, Statuses
<1>3. /\ new.at = row.at /\ new.pair = row.pair /\ new.status = FinalStatus(result) /\ new.priced = row.priced
      /\ new.risk = row.risk /\ new.simulation = row.simulation /\ new.attempt = row.attempt /\ new.results = row.results
  BY <1>1 DEF ViewRows
<1>4. RowGrows(row, new)
  BY <1>3 DEF RowGrows
<1>5. RowOK(new)
  BY <1>1, <1>2, <1>3, ResultFacts, ViewsAssumption DEF RowOK, ViewRows, Traded, Judgement
<1> QED
  BY <1>4, <1>5

\* A statement of process leaves a row in order, and takes nothing away.
LEMMA NextRowOK ==
    ASSUME NEW row, RowOK(row), NEW new \in NextRows(row)
    PROVE  RowOK(new) /\ RowGrows(row, new)
<1>1. CASE row.priced = "none"
  BY <1>1, RowPlaces, PricedOK DEF Price
<1>2. CASE row.priced # "none" /\ row.risk = "none"
  BY <1>2, RowPlaces, DecidedRowOK DEF Decide
<1>3. CASE row.priced # "none" /\ row.risk # "none" /\ row.status = "detected"
  BY <1>3, RowPlaces, JudgedOK
<1>4. CASE row.priced # "none" /\ row.risk # "none" /\ row.status = "approved" /\ ~row.attempt /\ row.simulation = "none"
  BY <1>4, RowPlaces, SimulatedOK, AttemptedOK, DryRunOK DEF SubmitOrNot
<1>5. CASE row.priced # "none" /\ row.risk # "none" /\ row.status = "approved" /\ ~row.attempt /\ row.simulation # "none"
  BY <1>5, RowPlaces, SimulationJudgedOK
<1>6. CASE row.priced # "none" /\ row.risk # "none" /\ row.status = "simulated" /\ ~row.attempt
  BY <1>6, RowPlaces, AttemptedOK, DryRunOK DEF SubmitOrNot
<1>7. CASE row.priced # "none" /\ row.risk # "none" /\ row.status \in {"approved", "simulated"} /\ row.attempt
  BY <1>7, RowPlaces, SubmittedOK DEF RowOK, ViewRows
<1>8. CASE row.priced # "none" /\ row.risk # "none" /\ row.status = "submitted" /\ row.results = {}
  BY <1>8, RowPlaces, ResultWrittenOK
<1>9. CASE row.priced # "none" /\ row.risk # "none" /\ row.status = "submitted" /\ row.results # {}
  <2>1. PICK result \in TradeResults : row.results = {result}
    BY <1>9 DEF RowOK
  <2>2. new = [row EXCEPT !.status = FinalStatus(result)]
    BY <1>9, <2>1, RowPlaces
  <2> QED
    BY <1>9, <2>1, <2>2, ResultJudgedOK
<1>10. CASE row.priced # "none" /\ row.risk # "none" /\ row.status \notin {"detected", "approved", "simulated", "submitted"}
  BY <1>10, RowPlaces
<1> QED
  BY <1>1, <1>2, <1>3, <1>4, <1>5, <1>6, <1>7, <1>8, <1>9, <1>10 DEF RowOK, ViewRows

\* The batch ends with a row whose tables tell the same.
LEMMA FinishedIsDone ==
    ASSUME NEW row, RowOK(row), Finished(row)
    PROVE  RowDone(row)
<1>0. row \in ViewRows
  BY DEF RowOK
<1>1. CASE row.status \in {"rejected", "simulation_approved", "simulation_failed", "dry_run"}
  BY <1>0, <1>1, ViewsAssumption DEF RowOK, RowDone, ViewRows, Traded, Judgement
<1>2. CASE row.status \in Traded \ {"submitted"}
  <2>1. PICK result \in TradeResults : row.results = {result} /\ FinalStatus(result) = row.status
    BY <1>2 DEF RowOK
  <2>2. /\ row.risk \notin {"simulation_approved"} \cup RefusalReasons
        /\ row.status \notin {"rejected", "simulation_approved"}
    BY <1>2 DEF RowOK, Traded, Judgement
  <2> QED
    BY <2>1, <2>2, ResultFacts DEF RowDone
<1>3. CASE row.status = "submitted"
  <2>1. row.priced # "none" /\ row.risk # "none" /\ row.risk \notin {"simulation_approved"} \cup RefusalReasons
    BY <1>3 DEF RowOK, Judgement
  <2>2. CASE row.results = {}
    BY <1>3, <2>1, <2>2 DEF RowDone
  <2>3. CASE row.results # {}
    <3>1. PICK result \in TradeResults : row.results = {result}
      BY <2>3 DEF RowOK
    <3>2. NextRows(row) = {[row EXCEPT !.status = FinalStatus(result)]} \ {row}
      BY <1>3, <2>1, <2>3, <3>1, RowPlaces
    <3>3. [row EXCEPT !.status = FinalStatus(result)] = row
      BY <2>3, <3>2 DEF Finished
    <3>4. FinalStatus(result) = "submitted"
      BY <1>0, <1>3, <3>3 DEF ViewRows
    <3> QED
      BY <1>3, <2>1, <3>1, <3>4, ResultFacts DEF RowDone
  <2> QED
    BY <2>2, <2>3
<1>4. CASE row.status \in {"detected", "approved", "simulated"}
  <2>1. NextRows(row) = {}
    BY <1>4 DEF Finished
  <2>2. row.priced # "none"
    BY <2>1, RowPlaces DEF Price
  <2>3. CASE row.risk = "none"
    <3>1. row.status = "detected" /\ row.results = {}
      BY <2>3 DEF RowOK, Traded
    <3> QED
      BY <2>3, <3>1, ViewsAssumption DEF RowDone
  <2>4. CASE row.risk # "none"
    <3>1. row.status \in {"approved", "simulated"} /\ ~row.attempt
      BY <1>4, <2>1, <2>2, <2>4, RowPlaces
    <3> QED
      BY <2>1, <2>2, <2>4, <3>1, RowPlaces DEF SubmitOrNot
  <2> QED
    BY <2>3, <2>4
<1> QED
  BY <1>0, <1>1, <1>2, <1>3, <1>4 DEF ViewRows, Statuses, Traded

-----------------------------------------------------------------------------
(* What a query counts                                                     *)

\* The rows detected since then, and among them the trades by outcome.
SinceIn(rows, since) == {i \in DOMAIN rows : rows[i].at >= since}
IsOutcome(outcome, result) ==
    \/ outcome = "total"
    \/ outcome = "successful" /\ Successful(result)
    \/ outcome \in Flags /\ outcome \in result
TradeFigures == {"total", "successful", "reverted", "dropped"}
TradesIn(rows, slice, outcome) == {i \in slice : \E result \in rows[i].results : IsOutcome(outcome, result)}
PricedIn(rows, slice) == {i \in slice : rows[i].priced = "gain"}

\* No row is lost and none is taken back.
Grown(rows, new) ==
    /\ rows \in Seq(ViewRows) /\ new \in Seq(ViewRows) /\ Len(rows) <= Len(new)
    /\ \A i \in 1 .. Len(rows) : RowGrows(rows[i], new[i])

\* The queries in these terms.
LEMMA QueriesAre ==
    ASSUME NEW slice
    PROVE  /\ TradesOf(slice).total = Cardinality(TradesIn(vwRows, slice, "total"))
           /\ TradesOf(slice).successful = Cardinality(TradesIn(vwRows, slice, "successful"))
           /\ TradesOf(slice).reverted = Cardinality(TradesIn(vwRows, slice, "reverted"))
           /\ TradesOf(slice).dropped = Cardinality(TradesIn(vwRows, slice, "dropped"))
           /\ \A o \in TradeFigures : TradesOf(slice)[o] = Cardinality(TradesIn(vwRows, slice, o))
           /\ PricedOf(slice) = Cardinality(PricedIn(vwRows, slice))
           /\ ExpectedVsRealized(slice) = UpTo(Cardinality(TradesIn(vwRows, slice, "included")), Limits.realized)
<1>1. TradesIn(vwRows, slice, "total") = {i \in slice : \E result \in vwRows[i].results : TRUE}
  BY DEF TradesIn, IsOutcome
<1>2. TradesIn(vwRows, slice, "successful") = {i \in slice : \E result \in vwRows[i].results : Successful(result)}
  BY DEF TradesIn, IsOutcome, Flags
<1>3. TradesIn(vwRows, slice, "reverted") = {i \in slice : \E result \in vwRows[i].results : "reverted" \in result}
  BY DEF TradesIn, IsOutcome, Flags
<1>4. TradesIn(vwRows, slice, "dropped") = {i \in slice : \E result \in vwRows[i].results : "dropped" \in result}
  BY DEF TradesIn, IsOutcome, Flags
<1>5. TradesIn(vwRows, slice, "included") = {i \in slice : \E result \in vwRows[i].results : "included" \in result}
  BY DEF TradesIn, IsOutcome, Flags
<1>6. /\ TradesOf(slice).total = Cardinality({i \in slice : \E result \in vwRows[i].results : TRUE})
      /\ TradesOf(slice).successful = Cardinality({i \in slice : \E result \in vwRows[i].results : Successful(result)})
      /\ TradesOf(slice).reverted = Cardinality({i \in slice : \E result \in vwRows[i].results : "reverted" \in result})
      /\ TradesOf(slice).dropped = Cardinality({i \in slice : \E result \in vwRows[i].results : "dropped" \in result})
  BY DEF TradesOf
<1>7. PricedOf(slice) = Cardinality(PricedIn(vwRows, slice))
  BY DEF PricedOf, PricedIn
<1>8. ExpectedVsRealized(slice) = UpTo(Cardinality(TradesIn(vwRows, slice, "included")), Limits.realized)
  BY <1>5 DEF ExpectedVsRealized
<1> QED
  BY <1>1, <1>2, <1>3, <1>4, <1>6, <1>7, <1>8 DEF TradeFigures

\* Parts of the rows are finite, and larger ones count no less.
LEMMA PartsCounted ==
    ASSUME NEW rows \in Seq(ViewRows), NEW B \in SUBSET DOMAIN rows, NEW A \in SUBSET B
    PROVE  /\ IsFiniteSet(A) /\ IsFiniteSet(B) /\ Cardinality(DOMAIN rows) = Len(rows)
           /\ Cardinality(A) \in Nat /\ Cardinality(B) \in Nat
           /\ Cardinality(A) <= Cardinality(B) /\ Cardinality(B) <= Len(rows)
<1>1. DOMAIN rows = 1 .. Len(rows) /\ Len(rows) \in Nat
  OBVIOUS
<1>2. IsFiniteSet(1 .. Len(rows)) /\ Cardinality(1 .. Len(rows)) = Len(rows)
  <2>1. \A n \in Nat : IsFiniteSet(1 .. n) /\ Cardinality(1 .. n) = IF 1 > n THEN 0 ELSE n - 1 + 1
    BY FS_Interval
  <2>2. \A n \in Nat : (IF 1 > n THEN 0 ELSE n - 1 + 1) = n
    OBVIOUS
  <2> QED
    BY <1>1, <2>1, <2>2
<1>3. B \in SUBSET (1 .. Len(rows))
  BY <1>1
<1> QED
  BY <1>1, <1>2, <1>3, FewerInSubset

\* The counts grow with the rows and with the slice that is looked at.
LEMMA CountsGrow ==
    ASSUME NEW rows, NEW new, Grown(rows, new), NEW B \in SUBSET DOMAIN new, NEW A \in SUBSET (DOMAIN rows \cap B)
    PROVE  /\ \A outcome : Cardinality(TradesIn(rows, A, outcome)) <= Cardinality(TradesIn(new, B, outcome))
           /\ Cardinality(PricedIn(rows, A)) <= Cardinality(PricedIn(new, B))
           /\ Cardinality(A) <= Cardinality(B)
<1>1. /\ rows \in Seq(ViewRows) /\ new \in Seq(ViewRows) /\ DOMAIN rows = 1 .. Len(rows)
      /\ \A i \in DOMAIN rows : RowGrows(rows[i], new[i])
  BY DEF Grown
<1>2. \A outcome : TradesIn(rows, A, outcome) \in SUBSET TradesIn(new, B, outcome)
  BY <1>1 DEF TradesIn, RowGrows
<1>3. PricedIn(rows, A) \in SUBSET PricedIn(new, B)
  BY <1>1 DEF PricedIn, RowGrows
<1>4. \A outcome : TradesIn(new, B, outcome) \in SUBSET DOMAIN new
  BY DEF TradesIn
<1>5. PricedIn(new, B) \in SUBSET DOMAIN new
  BY DEF PricedIn
<1> QED
  BY <1>1, <1>2, <1>3, <1>4, <1>5, PartsCounted

\* What a window shows is still in it later, and in a longer window.
LEMMA SinceGrows ==
    ASSUME NEW rows, NEW new, Grown(rows, new), NEW from \in Int, NEW since \in Int, since <= from
    PROVE  SinceIn(new, since) \in SUBSET DOMAIN new /\ SinceIn(rows, from) \in SUBSET (DOMAIN rows \cap SinceIn(new, since))
<1>1. /\ rows \in Seq(ViewRows) /\ new \in Seq(ViewRows) /\ DOMAIN rows = 1 .. Len(rows) /\ DOMAIN new = 1 .. Len(new)
      /\ Len(rows) <= Len(new) /\ \A i \in DOMAIN rows : RowGrows(rows[i], new[i])
  BY DEF Grown
<1>2. \A i \in DOMAIN rows : i \in DOMAIN new /\ new[i].at = rows[i].at /\ rows[i].at \in Nat
  <2> SUFFICES ASSUME NEW i \in DOMAIN rows PROVE i \in DOMAIN new /\ new[i].at = rows[i].at /\ rows[i].at \in Nat
    OBVIOUS
  <2>1. rows[i] \in ViewRows
    BY <1>1
  <2>2. rows[i].at \in Nat
    BY <2>1 DEF ViewRows
  <2> QED
    BY <1>1, <2>2 DEF RowGrows
<1> QED
  BY <1>2 DEF SinceIn

\* A row has one trade result at most, which is of one outcome.
LEMMA OneOutcome ==
    ASSUME NEW rows, NEW slice, \A i \in slice : RowOK(rows[i])
    PROVE  /\ TradesIn(rows, slice, "successful") \cap TradesIn(rows, slice, "reverted") = {}
           /\ TradesIn(rows, slice, "successful") \cap TradesIn(rows, slice, "dropped") = {}
           /\ TradesIn(rows, slice, "reverted") \cap TradesIn(rows, slice, "dropped") = {}
           /\ TradesIn(rows, slice, "successful") \in SUBSET TradesIn(rows, slice, "included")
           /\ TradesIn(rows, slice, "reverted") \in SUBSET TradesIn(rows, slice, "included")
<1>1. \A i \in slice : rows[i].results = {} \/ \E result \in TradeResults : rows[i].results = {result}
  BY DEF RowOK
<1>2. \A result \in TradeResults :
          /\ ~(Successful(result) /\ "reverted" \in result) /\ ~(Successful(result) /\ "dropped" \in result)
          /\ ~("reverted" \in result /\ "dropped" \in result)
          /\ Successful(result) \/ "reverted" \in result => "included" \in result
  BY DEF TradeResults, Successful
<1>3. /\ \A result : IsOutcome("successful", result) <=> Successful(result)
      /\ \A result : \A flag \in Flags : IsOutcome(flag, result) <=> flag \in result
      /\ {"included", "reverted", "dropped"} = Flags
  BY DEF IsOutcome, Flags
<1>4. \A i \in slice : \A r, q \in rows[i].results : r = q /\ r \in TradeResults
  BY <1>1
<1> QED
  BY <1>2, <1>3, <1>4 DEF TradesIn

-----------------------------------------------------------------------------
(* The pipeline's tables and the consumer's counters                       *)

\* Every row is in order, and only the one of an open batch may still change.
RowsInv ==
    /\ vwRows \in Seq(ViewRows) /\ vwStage \in {"idle", "batch", "committed", "counted"}
    /\ vwStage # "idle" => Len(vwRows) > 0
    /\ \A i \in 1 .. Len(vwRows) :
          RowOK(vwRows[i]) /\ (i < Len(vwRows) \/ vwStage # "batch" => RowDone(vwRows[i]))

\* The refusals the consumer has had the time to count.
RefusedOf(rows, stage) ==
    {i \in 1 .. Len(rows) : rows[i].status = "rejected" /\ (stage = "idle" \/ i < Len(rows))}

CountersInv ==
    /\ vwCounted \in [detected : Nat, rejected : Nat]
    /\ vwCounted.detected + (IF vwStage \in {"batch", "committed"} THEN 1 ELSE 0) <= Len(vwRows)
    /\ vwCounted.rejected <= Cardinality(RefusedOf(vwRows, vwStage))
    /\ vwStage = "counted" => vwRows[Len(vwRows)].status = "rejected"

\* The sequences a statement and a rollback leave.
LEMMA LastRow ==
    ASSUME NEW rows \in Seq(ViewRows), Len(rows) > 0, NEW row \in ViewRows
    PROVE  /\ Front(rows) \in Seq(ViewRows) /\ Len(Front(rows)) = Len(rows) - 1
           /\ \A i \in 1 .. Len(rows) - 1 : Front(rows)[i] = rows[i]
           /\ Append(Front(rows), row) \in Seq(ViewRows) /\ Len(Append(Front(rows), row)) = Len(rows)
           /\ \A i \in 1 .. Len(rows) - 1 : Append(Front(rows), row)[i] = rows[i]
           /\ Append(Front(rows), row)[Len(rows)] = row
           /\ Last(rows) = rows[Len(rows)] /\ Last(rows) \in ViewRows
<1> DEFINE front == Front(rows)
<1>1. Len(rows) \in Nat /\ Len(rows) - 1 \in Nat
  OBVIOUS
<1>2. front \in Seq(ViewRows) /\ Len(front) = Len(rows) - 1 /\ \A i \in 1 .. Len(rows) - 1 : front[i] = rows[i]
  <2> DEFINE n == Len(rows) - 1
  <2>1. \A i \in 1 .. n : rows[i] \in ViewRows
    OBVIOUS
  <2>2. n \in Nat /\ front = SubSeq(rows, 1, n)
    BY <1>1 DEF Front
  <2> HIDE DEF n, front
  <2>3. /\ front \in Seq(ViewRows) /\ Len(front) = IF 1 <= n THEN n - 1 + 1 ELSE 0
        /\ \A i \in 1 .. n - 1 + 1 : front[i] = rows[1 + i - 1]
    BY <2>1, <2>2, SubSeqProperties
  <2>4. front \in Seq(ViewRows) /\ Len(front) = n /\ \A i \in 1 .. n : front[i] = rows[i]
    BY <2>2, <2>3
  <2> QED
    BY <2>4 DEF n
<1>3. Last(rows) = rows[Len(rows)] /\ Last(rows) \in ViewRows
  BY DEF Last
<1> HIDE DEF front
<1>4. /\ Append(front, row) \in Seq(ViewRows) /\ Len(Append(front, row)) = Len(front) + 1
      /\ \A i \in 1 .. Len(front) : Append(front, row)[i] = front[i]
      /\ Append(front, row)[Len(front) + 1] = row
  BY <1>2
<1>5. Len(front) + 1 = Len(rows) /\ 1 .. Len(front) = 1 .. Len(rows) - 1
  BY <1>1, <1>2
<1> QED
  BY <1>2, <1>3, <1>4, <1>5 DEF front

\* Refusals are finitely many.
LEMMA RefusedFinite ==
    ASSUME NEW rows \in Seq(ViewRows), NEW stage
    PROVE  IsFiniteSet(RefusedOf(rows, stage)) /\ Cardinality(RefusedOf(rows, stage)) \in Nat
<1>1. RefusedOf(rows, stage) \in SUBSET DOMAIN rows
  BY DEF RefusedOf
<1> QED
  BY <1>1, PartsCounted

\* A row grows into itself.
LEMMA SameGrows ==
    ASSUME NEW rows \in Seq(ViewRows)
    PROVE  Grown(rows, rows)
  BY DEF Grown, RowGrows

\* A candidate comes in.
LEMMA DetectTables ==
    ASSUME RowsInv, CountersInv, vwClock \in Nat, NEW pair \in ViewPairs, Detect(pair)
    PROVE  RowsInv' /\ CountersInv' /\ Grown(vwRows, vwRows')
<1>1. /\ vwStage = "idle" /\ vwStage' = "batch" /\ vwCounted' = vwCounted
      /\ vwRows' = Append(vwRows, NewRow(pair)) /\ vwRows \in Seq(ViewRows)
  BY DEF Detect, RowsInv
<1>2. RowOK(NewRow(pair)) /\ NewRow(pair) \in ViewRows
  BY NewRowOK DEF RowOK
<1>3. /\ vwRows' \in Seq(ViewRows) /\ Len(vwRows') = Len(vwRows) + 1 /\ Len(vwRows) \in Nat
      /\ \A i \in 1 .. Len(vwRows) : vwRows'[i] = vwRows[i]
      /\ vwRows'[Len(vwRows) + 1] = NewRow(pair)
  BY <1>1, <1>2
<1>4. RowsInv'
  BY <1>1, <1>2, <1>3 DEF RowsInv
<1>5. Grown(vwRows, vwRows')
  BY <1>1, <1>3 DEF Grown, RowGrows
<1>6. RefusedOf(vwRows', "batch") = RefusedOf(vwRows, "idle")
  BY <1>3 DEF RefusedOf
<1>7. CountersInv'
  BY <1>1, <1>3, <1>6 DEF CountersInv
<1> QED
  BY <1>4, <1>5, <1>7

\* A statement is executed.
LEMMA WriteTables ==
    ASSUME RowsInv, CountersInv, WriteNext
    PROVE  RowsInv' /\ CountersInv' /\ Grown(vwRows, vwRows')
<1>1. /\ vwStage = "batch" /\ vwStage' = "batch" /\ vwCounted' = vwCounted
      /\ vwRows \in Seq(ViewRows) /\ Len(vwRows) > 0 /\ Len(vwRows) \in Nat
  BY DEF WriteNext, RowsInv
<1>2. PICK row \in NextRows(Last(vwRows)) : vwRows' = Append(Front(vwRows), row)
  BY DEF WriteNext
<1>3. Last(vwRows) = vwRows[Len(vwRows)] /\ RowOK(Last(vwRows))
  BY <1>1 DEF RowsInv, Last
<1>4. RowOK(row) /\ RowGrows(Last(vwRows), row) /\ row \in ViewRows
  BY <1>3, NextRowOK DEF RowOK
<1>5. /\ vwRows' \in Seq(ViewRows) /\ Len(vwRows') = Len(vwRows)
      /\ \A i \in 1 .. Len(vwRows) - 1 : vwRows'[i] = vwRows[i]
      /\ vwRows'[Len(vwRows)] = row
  BY <1>1, <1>2, <1>4, LastRow
<1>6. RowsInv'
  BY <1>1, <1>4, <1>5 DEF RowsInv
<1>7. Grown(vwRows, vwRows')
  <2>1. \A i \in 1 .. Len(vwRows) - 1 : RowGrows(vwRows[i], vwRows'[i])
    BY <1>5 DEF RowGrows
  <2>2. RowGrows(vwRows[Len(vwRows)], vwRows'[Len(vwRows)])
    BY <1>3, <1>4, <1>5
  <2> QED
    BY <1>1, <1>5, <2>1, <2>2 DEF Grown
<1>8. RefusedOf(vwRows', "batch") = RefusedOf(vwRows, "batch")
  BY <1>1, <1>5 DEF RefusedOf
<1>9. CountersInv'
  BY <1>1, <1>5, <1>8 DEF CountersInv
<1> QED
  BY <1>6, <1>7, <1>9

\* A candidate is rolled back.
LEMMA AbortTables ==
    ASSUME RowsInv, CountersInv, AbortBatch
    PROVE  RowsInv' /\ CountersInv'
<1>1. /\ vwStage = "batch" /\ vwStage' = "idle" /\ vwCounted' = vwCounted /\ vwRows' = Front(vwRows)
      /\ vwRows \in Seq(ViewRows) /\ Len(vwRows) > 0 /\ Len(vwRows) \in Nat
  BY DEF AbortBatch, RowsInv
<1>2. /\ vwRows' \in Seq(ViewRows) /\ Len(vwRows') = Len(vwRows) - 1
      /\ \A i \in 1 .. Len(vwRows) - 1 : vwRows'[i] = vwRows[i]
  BY <1>1, LastRow
<1>3. RowsInv'
  BY <1>1, <1>2 DEF RowsInv
<1>4. RefusedOf(vwRows', "idle") = RefusedOf(vwRows, "batch")
  BY <1>1, <1>2 DEF RefusedOf
<1>5. CountersInv'
  BY <1>1, <1>2, <1>4 DEF CountersInv
<1> QED
  BY <1>3, <1>5

\* The batch is committed.
LEMMA CommitTables ==
    ASSUME RowsInv, CountersInv, CommitBatch
    PROVE  RowsInv' /\ CountersInv' /\ Grown(vwRows, vwRows')
<1>1. /\ vwStage = "batch" /\ vwStage' = "committed" /\ vwCounted' = vwCounted /\ vwRows' = vwRows
      /\ vwRows \in Seq(ViewRows) /\ Len(vwRows) > 0 /\ Len(vwRows) \in Nat
  BY DEF CommitBatch, RowsInv
<1>2. RowDone(vwRows[Len(vwRows)])
  BY <1>1, FinishedIsDone DEF RowsInv, CommitBatch, Last
<1>3. RowsInv'
  BY <1>1, <1>2 DEF RowsInv
<1>4. RefusedOf(vwRows', "committed") = RefusedOf(vwRows, "batch")
  BY <1>1 DEF RefusedOf
<1>5. CountersInv'
  BY <1>1, <1>4 DEF CountersInv
<1> QED
  BY <1>1, <1>3, <1>5, SameGrows

\* The consumer counts a detection.
LEMMA CountDetectedTables ==
    ASSUME RowsInv, CountersInv, CountDetected
    PROVE  RowsInv' /\ CountersInv' /\ Grown(vwRows, vwRows')
<1>1. /\ vwStage = "committed" /\ vwRows' = vwRows
      /\ vwStage' = IF vwRows[Len(vwRows)].status = "rejected" THEN "counted" ELSE "idle"
      /\ vwRows \in Seq(ViewRows) /\ Len(vwRows) > 0 /\ Len(vwRows) \in Nat
  BY DEF CountDetected, RowsInv, Last
<1>2. /\ vwCounted' \in [detected : Nat, rejected : Nat]
      /\ vwCounted'.detected = vwCounted.detected + 1 /\ vwCounted'.rejected = vwCounted.rejected
      /\ vwCounted.detected \in Nat /\ vwCounted.rejected \in Nat
  BY DEF CountDetected, CountersInv
<1>3. RowsInv'
  BY <1>1 DEF RowsInv
<1>4. RefusedOf(vwRows, "committed") = RefusedOf(vwRows, vwStage')
  BY <1>1 DEF RefusedOf
<1>5. CountersInv'
  BY <1>1, <1>2, <1>4 DEF CountersInv
<1> QED
  BY <1>1, <1>3, <1>5, SameGrows

\* The consumer counts a refusal.
LEMMA CountRejectedTables ==
    ASSUME RowsInv, CountersInv, CountRejected
    PROVE  RowsInv' /\ CountersInv' /\ Grown(vwRows, vwRows')
<1>1. /\ vwStage = "counted" /\ vwStage' = "idle" /\ vwRows' = vwRows
      /\ vwRows \in Seq(ViewRows) /\ Len(vwRows) > 0 /\ Len(vwRows) \in Nat
  BY DEF CountRejected, RowsInv
<1>2. /\ vwCounted' \in [detected : Nat, rejected : Nat]
      /\ vwCounted'.detected = vwCounted.detected /\ vwCounted'.rejected = vwCounted.rejected + 1
      /\ vwCounted.detected \in Nat /\ vwCounted.rejected \in Nat
  BY DEF CountRejected, CountersInv
<1>3. RowsInv'
  BY <1>1 DEF RowsInv
<1> DEFINE n == Len(vwRows)
           before == RefusedOf(vwRows, "counted")
<1>4. RefusedOf(vwRows, "idle") = before \cup {n} /\ n \notin before
  BY <1>1 DEF RefusedOf, CountersInv
<1>5. IsFiniteSet(before) /\ Cardinality(before) \in Nat
  BY <1>1, RefusedFinite
<1> HIDE DEF before
<1>6. Cardinality(before \cup {n}) = Cardinality(before) + 1
  BY <1>4, <1>5, FS_AddElement
<1>7. vwCounted.rejected <= Cardinality(before) /\ vwCounted.detected <= Len(vwRows)
  BY <1>1 DEF CountersInv, before
<1>8. Cardinality(RefusedOf(vwRows', vwStage')) = Cardinality(before) + 1
  BY <1>1, <1>4, <1>6
<1>9. CountersInv'
  BY <1>1, <1>2, <1>5, <1>7, <1>8 DEF CountersInv
<1> QED
  BY <1>1, <1>3, <1>9, SameGrows

\* Every step keeps the tables, and all but a rollback let them grow.
LEMMA TablesKeep ==
    ASSUME RowsInv, CountersInv, vwClock \in Nat, [VwNext]_vwVars
    PROVE  RowsInv' /\ CountersInv' /\ (AbortBatch \/ Grown(vwRows, vwRows'))
<1>1. CASE UNCHANGED vwTables
  <2>1. vwRows' = vwRows /\ vwStage' = vwStage /\ vwCounted' = vwCounted
    BY <1>1 DEF vwTables
  <2> QED
    BY <2>1, SameGrows DEF RowsInv, CountersInv
<1>2. CASE UNCHANGED vwVars
  BY <1>1, <1>2 DEF vwVars
<1>3. CASE PassTime \/ (\E page \in PageQueries : OpenPage(page)) \/ ComputeSince \/ RunFirst \/ RunLater
  BY <1>1, <1>3 DEF PassTime, OpenPage, ComputeSince, RunFirst, RunLater
<1> QED
  BY <1>2, <1>3, DetectTables, WriteTables, AbortTables, CommitTables, CountDetectedTables, CountRejectedTables DEF VwNext

\* Of rows process has finished with, the status column and the other tables
\* tell the same.
LEMMA DoneAgree ==
    ASSUME NEW slice \in SUBSET DOMAIN vwRows, vwRows \in Seq(ViewRows), \A i \in slice : RowDone(vwRows[i])
    PROVE  LET funnel == FunnelOf(slice)
               trades == TradesOf(slice)
               reasons == ReasonsOf(slice)
           IN  /\ trades.successful = funnel["confirmed"]
               /\ trades.reverted = funnel["reverted"]
               /\ trades.dropped = funnel["dropped"]
               /\ reasons["simulation_approved"] = funnel["simulation_approved"]
               /\ SumFunction([r \in RefusalReasons |-> reasons[r]]) = funnel["rejected"]
<1>1. \A s \in Statuses : FunnelOf(slice)[s] = Cardinality({i \in slice : vwRows[i].status = s})
  BY DEF FunnelOf
<1>2. {"confirmed", "reverted", "dropped", "rejected", "simulation_approved"} \in SUBSET Statuses
  BY DEF Statuses
<1>3. TradesIn(vwRows, slice, "successful") = {i \in slice : vwRows[i].status = "confirmed"}
  BY DEF TradesIn, IsOutcome, RowDone, Flags
<1>4. TradesIn(vwRows, slice, "reverted") = {i \in slice : vwRows[i].status = "reverted"}
  BY DEF TradesIn, IsOutcome, RowDone, Flags
<1>5. TradesIn(vwRows, slice, "dropped") = {i \in slice : vwRows[i].status = "dropped"}
  BY DEF TradesIn, IsOutcome, RowDone, Flags
<1>6. \A r \in {"simulation_approved"} \cup RefusalReasons :
         ReasonsOf(slice)[r] = Cardinality({i \in slice : vwRows[i].risk = r})
  BY DEF ReasonsOf
<1>7. ReasonsOf(slice)["simulation_approved"] = FunnelOf(slice)["simulation_approved"]
  <2>1. {i \in slice : vwRows[i].risk = "simulation_approved"} = {i \in slice : vwRows[i].status = "simulation_approved"}
    BY DEF RowDone
  <2> QED
    BY <1>1, <1>2, <1>6, <2>1
<1>8. SumFunction([r \in RefusalReasons |-> ReasonsOf(slice)[r]]) = FunnelOf(slice)["rejected"]
  <2> DEFINE refused == {i \in slice : vwRows[i].status = "rejected"}
             class == [i \in DOMAIN vwRows |-> vwRows[i].risk]
  <2>1. refused \in SUBSET DOMAIN vwRows
    OBVIOUS
  <2>2. \A i \in slice : i \in refused <=> vwRows[i].risk \in RefusalReasons
    BY DEF RowDone
  <2>3. \A i \in slice : class[i] = vwRows[i].risk
    OBVIOUS
  <2>4. \A i \in refused : i \in slice
    OBVIOUS
  <2> HIDE DEF refused, class
  <2>5. IsFiniteSet(refused)
    BY <2>1, PartsCounted
  <2>6. \A r \in RefusalReasons : {i \in refused : class[i] = r} = {i \in slice : vwRows[i].risk = r}
    BY <2>2, <2>3, <2>4
  <2>7. SumFunction(ClassCounts(refused, RefusalReasons, class)) = Cardinality(refused)
    BY <2>2, <2>3, <2>4, <2>5, ViewsAssumption, ClassesAddUp
  <2>8. ClassCounts(refused, RefusalReasons, class) = [r \in RefusalReasons |-> ReasonsOf(slice)[r]]
    BY <1>6, <2>6 DEF ClassCounts
  <2>9. FunnelOf(slice)["rejected"] = Cardinality(refused)
    BY <1>1, <1>2 DEF refused
  <2> QED
    BY <2>7, <2>8, <2>9
<1> QED
  BY <1>1, <1>2, <1>3, <1>4, <1>5, <1>7, <1>8, QueriesAre

\* No trade counts twice.
LEMMA TradesOnce ==
    ASSUME NEW slice \in SUBSET DOMAIN vwRows, vwRows \in Seq(ViewRows), \A i \in slice : RowOK(vwRows[i])
    PROVE  TradesOf(slice).successful + TradesOf(slice).reverted + TradesOf(slice).dropped <= TradesOf(slice).total
<1> DEFINE all == TradesIn(vwRows, slice, "total")
           good == TradesIn(vwRows, slice, "successful")
           bad == TradesIn(vwRows, slice, "reverted")
           lost == TradesIn(vwRows, slice, "dropped")
<1>1. good \in SUBSET all /\ bad \in SUBSET all /\ lost \in SUBSET all /\ all \in SUBSET DOMAIN vwRows
  BY DEF TradesIn, IsOutcome
<1>2. good \cap bad = {} /\ good \cap lost = {} /\ bad \cap lost = {}
  BY OneOutcome
<1> HIDE DEF all, good, bad, lost
<1>3. IsFiniteSet(all) /\ good \cup bad \in SUBSET all /\ (good \cup bad) \cap lost = {}
  BY <1>1, <1>2, PartsCounted
<1>4. Cardinality(good \cup bad) = Cardinality(good) + Cardinality(bad)
  BY <1>1, <1>2, <1>3, DisjointCounts
<1>5. Cardinality(good \cup bad) + Cardinality(lost) <= Cardinality(all)
  BY <1>1, <1>3, DisjointCounts
<1> QED
  BY <1>4, <1>5, QueriesAre DEF all, good, bad, lost

\* The tables agree at any instant.
LEMMA TablesInWords == RowsInv /\ CountersInv => TablesAgree
<1> SUFFICES ASSUME RowsInv, CountersInv PROVE TablesAgree
  OBVIOUS
<1>1. /\ vwRows \in Seq(ViewRows) /\ DOMAIN vwRows = 1 .. Len(vwRows)
      /\ \A i \in DOMAIN vwRows : RowOK(vwRows[i])
      /\ vwStage # "batch" => \A i \in DOMAIN vwRows : RowDone(vwRows[i])
  BY DEF RowsInv
<1>2. vwCounted.detected <= Len(vwRows)
  BY <1>1 DEF CountersInv
<1>3. vwCounted.rejected <= FunnelOf(DOMAIN vwRows)["rejected"]
  <2> DEFINE refused == RefusedOf(vwRows, vwStage)
             all == {i \in DOMAIN vwRows : vwRows[i].status = "rejected"}
  <2>1. refused \in SUBSET all /\ all \in SUBSET DOMAIN vwRows
    BY <1>1 DEF RefusedOf
  <2>2. FunnelOf(DOMAIN vwRows)["rejected"] = Cardinality(all)
    BY DEF FunnelOf, Statuses
  <2>3. vwCounted.rejected <= Cardinality(refused) /\ vwCounted.rejected \in Nat
    BY DEF CountersInv
  <2> HIDE DEF refused, all
  <2>4. Cardinality(refused) \in Nat /\ Cardinality(all) \in Nat /\ Cardinality(refused) <= Cardinality(all)
    BY <1>1, <2>1, PartsCounted
  <2> QED
    BY <2>2, <2>3, <2>4
<1>4. \A since : Since(since) \in SUBSET DOMAIN vwRows
  BY DEF Since
<1>5. \A since : /\ \A i \in Since(since) : RowOK(vwRows[i])
                 /\ vwStage # "batch" => \A i \in Since(since) : RowDone(vwRows[i])
  BY <1>1, <1>4
<1> QED
  BY <1>1, <1>2, <1>3, <1>4, <1>5, DoneAgree, TradesOnce DEF TablesAgree

-----------------------------------------------------------------------------
(* The pages                                                               *)

WindowQueries == {"window_total", "window_trades", "window_priced"}
CallQueries == {"per_pair", "per_venue"}
TimedQueries == WindowQueries \cup CallQueries
QueryNames ==
    WindowQueries \cup CallQueries \cup
        {"funnel", "pnl", "list", "options", "known", "metrics", "hourly", "reasons", "pairs", "realized",
         "opportunity", "pricing", "risk", "simulation", "attempt"}
Windows == 1 .. Day

\* How a page's first query and a later one comparable with it are related:
\* both without a window, or of one kind and of a longer window, or the total
\* of a window and the pairs of the day, or of one analytics of the day.
Follows(f, q) ==
    \/ f.window = 0 /\ q.window = 0 /\ f.query \notin WindowQueries
    \/ f.query \in WindowQueries /\ q.query = f.query /\ f.window \in Windows /\ q.window \in Windows /\ f.window < q.window
    \/ f.query = "window_total" /\ q.query = "pairs" /\ f.window \in Windows /\ q.window = Day
    \/ f.query \in CallQueries /\ q.query \in {"per_venue", "hourly"} /\ f.window = Day /\ q.window = Day /\ Day \in Windows

\* A longer window comes later, and is longer by one at least.
LEMMA WindowsAscend ==
    /\ Day \in Nat /\ \A w \in Windows : WindowLengths[w] \in Nat
    /\ \A v, w \in Windows : v < w => WindowLengths[v] + 1 <= WindowLengths[w]
    /\ \A w \in Windows : WindowLengths[w] <= WindowLengths[Day]
<1>1. /\ Day \in Nat /\ DOMAIN WindowLengths = Windows /\ \A w \in Windows : WindowLengths[w] \in Nat
      /\ \A w \in Windows : w > 1 => WindowLengths[w - 1] < WindowLengths[w]
  <2>1. /\ WindowLengths \in Seq(Nat)
        /\ \A i \in DOMAIN WindowLengths : i > 1 => WindowLengths[i - 1] < WindowLengths[i]
    BY ViewsAssumption
  <2>2. /\ Len(WindowLengths) \in Nat /\ DOMAIN WindowLengths = 1 .. Len(WindowLengths)
        /\ \A i \in 1 .. Len(WindowLengths) : WindowLengths[i] \in Nat
    BY <2>1
  <2> QED
    BY <2>1, <2>2 DEF Day, Windows
<1>2. ASSUME NEW v \in Windows
      PROVE  \A w \in Windows : v < w => WindowLengths[v] < WindowLengths[w]
  <2> DEFINE wrong == {w \in Windows : v < w /\ ~(WindowLengths[v] < WindowLengths[w])}
  <2>1. CASE wrong = {}
    BY <2>1
  <2>2. CASE wrong # {}
    <3>1. wrong \in SUBSET Nat
      BY <1>1 DEF Windows
    <3> HIDE DEF wrong
    <3>2. PICK w \in wrong : \A u \in wrong : w <= u
      BY <2>2, <3>1, LeastNatural
    <3>3. w \in Windows /\ v < w /\ ~(WindowLengths[v] < WindowLengths[w])
      BY <3>2 DEF wrong
    <3>4. v \in Nat /\ w \in Nat /\ v >= 1 /\ w - 1 \in Windows /\ WindowLengths[w - 1] < WindowLengths[w]
      BY <1>1, <3>3 DEF Windows
    <3>5. v # w - 1
      BY <3>3, <3>4
    <3>6. w - 1 \in wrong
      BY <1>1, <3>3, <3>4, <3>5 DEF wrong
    <3> QED
      BY <3>2, <3>4, <3>6
  <2> QED
    BY <2>1, <2>2
<1>3. \A v, w \in Windows : v < w => WindowLengths[v] + 1 <= WindowLengths[w]
  BY <1>1, <1>2
<1>4. \A w \in Windows : WindowLengths[w] <= WindowLengths[Day]
  <2> SUFFICES ASSUME NEW w \in Windows PROVE WindowLengths[w] <= WindowLengths[Day]
    OBVIOUS
  <2>1. w = Day \/ (w < Day /\ Day \in Windows)
    BY <1>1 DEF Windows
  <2> QED
    BY <1>1, <1>3, <2>1
<1> QED
  BY <1>1, <1>3, <1>4

\* A function on the first numbers is a sequence.
LEMMA FunctionIsSequence ==
    ASSUME NEW S, NEW c \in Nat, NEW s \in [1 .. c -> S]
    PROVE  s \in Seq(S) /\ Len(s) = c
  OBVIOUS

\* The queries of all windows, three of each.
LEMMA AllWindowsAre ==
    /\ AllWindows \in Seq([window : Nat, query : QueryNames]) /\ Len(AllWindows) = 3 * Day
    /\ \A k \in 1 .. 3 * Day :
          AllWindows[k].window \in Windows /\ AllWindows[k].query \in WindowQueries
    /\ \A j, k \in 1 .. 3 * Day :
          j < k /\ AllWindows[j].query = AllWindows[k].query => AllWindows[j].window < AllWindows[k].window
<1> DEFINE window(k) == (k + 2) \div 3
           query(k) == <<"window_total", "window_trades", "window_priced">>[((k + 2) % 3) + 1]
<1>1. Day \in Nat
  BY WindowsAscend
<1>2. AllWindows = [k \in 1 .. 3 * Day |-> At(window(k), query(k))]
  BY DEF AllWindows
<1>3. ASSUME NEW k \in 1 .. 3 * Day
      PROVE  /\ window(k) \in Windows
             /\ (k + 2) % 3 \in 0 .. 2 /\ k + 2 = 3 * window(k) + ((k + 2) % 3)
  <2> DEFINE n == k + 2
  <2>1. n \in Nat /\ n >= 3 /\ n <= 3 * Day + 2
    BY <1>1
  <2> HIDE DEF n
  <2>2. n = 3 * (n \div 3) + (n % 3) /\ n % 3 \in 0 .. 2 /\ n \div 3 \in Nat
    BY <2>1, Division
  <2> DEFINE p == n \div 3
             r == n % 3
  <2> HIDE DEF p, r
  <2>3. n = 3 * p + r /\ r \in 0 .. 2 /\ p \in Nat
    BY <2>2 DEF p, r
  <2>4. p \in 1 .. Day
    BY <1>1, <2>1, <2>3
  <2> QED
    <3>1. n = 3 * (n \div 3) + (n % 3) /\ n % 3 \in 0 .. 2 /\ n \div 3 \in Windows
      BY <2>3, <2>4 DEF p, r, Windows
    <3> QED
      BY <3>1 DEF n
<1>4. ASSUME NEW k \in 1 .. 3 * Day
      PROVE  query(k) = IF (k + 2) % 3 = 0 THEN "window_total" ELSE IF (k + 2) % 3 = 1 THEN "window_trades" ELSE "window_priced"
  BY <1>3
<1> HIDE DEF window, query
<1>5. \A k \in 1 .. 3 * Day : AllWindows[k].window = window(k) /\ AllWindows[k].query = query(k)
  BY <1>2 DEF At
<1>6. \A k \in 1 .. 3 * Day : window(k) \in Windows /\ query(k) \in WindowQueries
  BY <1>3, <1>4 DEF WindowQueries
<1>7. ASSUME NEW j \in 1 .. 3 * Day, NEW k \in 1 .. 3 * Day, j < k, query(j) = query(k)
      PROVE  window(j) < window(k)
  <2>1. (j + 2) % 3 = (k + 2) % 3
    BY <1>3, <1>4, <1>7
  <2> DEFINE a == window(j)
             b == window(k)
             r == (k + 2) % 3
  <2>2. a \in Nat /\ b \in Nat /\ r \in 0 .. 2 /\ j + 2 = 3 * a + r /\ k + 2 = 3 * b + r
    BY <1>1, <1>3, <2>1 DEF Windows
  <2> HIDE DEF a, b, r
  <2>3. a < b
    BY <1>1, <1>7, <2>2
  <2> QED
    BY <2>3 DEF a, b
<1>8. AllWindows \in Seq([window : Nat, query : QueryNames]) /\ Len(AllWindows) = 3 * Day
  <2>1. \A k \in 1 .. 3 * Day : At(window(k), query(k)) \in [window : Nat, query : QueryNames]
    <3>1. \A k \in 1 .. 3 * Day : window(k) \in Nat /\ query(k) \in QueryNames
      BY <1>1, <1>6 DEF Windows, QueryNames
    <3>2. \A w \in Nat : \A q \in QueryNames : At(w, q) \in [window : Nat, query : QueryNames]
      BY DEF At
    <3> QED
      BY <3>1, <3>2
  <2> DEFINE c == 3 * Day
  <2>2. c \in Nat /\ AllWindows \in [1 .. c -> [window : Nat, query : QueryNames]]
    BY <1>1, <1>2, <2>1
  <2> HIDE DEF c
  <2>3. AllWindows \in Seq([window : Nat, query : QueryNames]) /\ Len(AllWindows) = c
    BY <2>2, FunctionIsSequence
  <2> QED
    BY <2>3 DEF c
<1> QED
  BY <1>5, <1>6, <1>7, <1>8

\* What the pages ask, as sequences of queries.
Asks == [window : Nat, query : QueryNames]
Firsts == <<Whole("funnel"), Whole("pnl"), Whole("list"), Whole("metrics"), Whole("options")>>
FirstQueries == Firsts \o Analytics(Day)
DashboardQueries == FirstQueries \o AllWindows \o <<At(Day, "pairs")>>

\* The queries of one analytics ask for the same window.
LEMMA AnalyticsAsks ==
    ASSUME NEW w \in Nat
    PROVE  /\ Analytics(w) \in Seq(Asks) /\ Len(Analytics(w)) = 4
           /\ \A k \in 1 .. 4 :
                Analytics(w)[k].window = w /\ Analytics(w)[k].query \in CallQueries \cup {"hourly", "reasons"}
<1>1. CallQueries \cup {"hourly", "reasons"} \in SUBSET QueryNames
  BY DEF QueryNames
<1>2. \A q \in QueryNames : At(w, q) \in Asks /\ At(w, q).window = w /\ At(w, q).query = q
  BY DEF At, Asks
<1>3. Analytics(w) = <<At(w, "per_pair"), At(w, "per_venue"), At(w, "hourly"), At(w, "reasons")>>
  BY DEF Analytics
<1>4. {"per_pair", "per_venue", "hourly", "reasons"} \in SUBSET (CallQueries \cup {"hourly", "reasons"})
  BY DEF CallQueries
<1> QED
  BY <1>1, <1>2, <1>3, <1>4

\* The queries of /dashboard without a since come before those of its analytics.
LEMMA FirstAsks ==
    /\ FirstQueries \in Seq(Asks) /\ Len(FirstQueries) = 9
    /\ \A k \in 1 .. 9 :
          \/ FirstQueries[k].query \in {"funnel", "pnl", "list", "metrics", "options"} /\ FirstQueries[k].window = 0
          \/ FirstQueries[k].query \in CallQueries \cup {"hourly", "reasons"} /\ FirstQueries[k].window = Day
<1> DEFINE analytics == Analytics(Day)
           wholes == {"funnel", "pnl", "list", "metrics", "options"}
<1>1. Day \in Nat
  BY WindowsAscend
<1>2. /\ analytics \in Seq(Asks) /\ Len(analytics) = 4
      /\ \A k \in 1 .. 4 : analytics[k].window = Day /\ analytics[k].query \in CallQueries \cup {"hourly", "reasons"}
  BY <1>1, AnalyticsAsks
<1>3. \A q \in wholes : Whole(q) \in Asks /\ Whole(q).window = 0 /\ Whole(q).query = q
  BY DEF Whole, At, Asks, QueryNames
<1>4. /\ Firsts \in Seq(Asks) /\ Len(Firsts) = 5
      /\ \A k \in 1 .. 5 : Firsts[k].window = 0 /\ Firsts[k].query \in wholes
  BY <1>3 DEF Firsts
<1> HIDE DEF analytics, wholes
<1>5. /\ FirstQueries \in Seq(Asks) /\ Len(FirstQueries) = Len(Firsts) + Len(analytics)
      /\ \A k \in 1 .. Len(FirstQueries) :
            FirstQueries[k] = IF k <= Len(Firsts) THEN Firsts[k] ELSE analytics[k - Len(Firsts)]
  BY <1>2, <1>4, ConcatElements DEF FirstQueries, analytics
<1>6. /\ FirstQueries \in Seq(Asks) /\ Len(FirstQueries) = 9
      /\ \A k \in 1 .. 9 : FirstQueries[k] = IF k <= 5 THEN Firsts[k] ELSE analytics[k - 5]
  BY <1>2, <1>4, <1>5
<1>7. ASSUME NEW k \in 1 .. 9
      PROVE  \/ FirstQueries[k].query \in wholes /\ FirstQueries[k].window = 0
             \/ FirstQueries[k].query \in CallQueries \cup {"hourly", "reasons"} /\ FirstQueries[k].window = Day
  <2>1. CASE k \in 1 .. 5
    BY <1>4, <1>6, <2>1
  <2>2. CASE k \notin 1 .. 5
    <3>1. FirstQueries[k] = analytics[k - 5] /\ k - 5 \in 1 .. 4
      BY <1>6, <2>2
    <3> QED
      BY <1>2, <3>1
  <2> QED
    BY <2>1, <2>2
<1> QED
  BY <1>6, <1>7 DEF wholes

\* The queries of /dashboard, by place.
LEMMA DashboardAsks ==
    /\ Len(DashboardQueries) = 10 + 3 * Day /\ DOMAIN DashboardQueries = 1 .. 10 + 3 * Day
    /\ \A k \in 1 .. 9 : DashboardQueries[k] = FirstQueries[k]
    /\ \A k \in 10 .. 9 + 3 * Day : DashboardQueries[k] = AllWindows[k - 9]
    /\ DashboardQueries[10 + 3 * Day] = At(Day, "pairs")
<1> DEFINE last == <<At(Day, "pairs")>>
           n == 3 * Day
<1>1. Day \in Nat /\ n \in Nat
  BY WindowsAscend
<1>2. FirstQueries \in Seq(Asks) /\ Len(FirstQueries) = 9
  BY FirstAsks
<1>3. AllWindows \in Seq(Asks) /\ Len(AllWindows) = n
  BY AllWindowsAre DEF Asks
<1>4. last \in Seq(Asks) /\ Len(last) = 1 /\ last[1] = At(Day, "pairs")
  BY <1>1 DEF At, Asks, QueryNames
<1> DEFINE start == FirstQueries \o AllWindows
<1> HIDE DEF last, n
<1>5. /\ start \in Seq(Asks) /\ Len(start) = 9 + n
      /\ \A k \in 1 .. 9 + n : start[k] = IF k <= 9 THEN FirstQueries[k] ELSE AllWindows[k - 9]
  <2>1. /\ start \in Seq(Asks) /\ Len(start) = Len(FirstQueries) + Len(AllWindows)
        /\ \A k \in 1 .. Len(start) : start[k] = IF k <= Len(FirstQueries) THEN FirstQueries[k] ELSE AllWindows[k - Len(FirstQueries)]
    BY <1>2, <1>3, ConcatElements
  <2> HIDE DEF start
  <2> QED
    BY <1>2, <1>3, <2>1
<1> HIDE DEF start
<1>6. DashboardQueries = start \o last
  BY DEF DashboardQueries, start, last
<1>7. /\ DashboardQueries \in Seq(Asks) /\ Len(DashboardQueries) = 9 + n + 1
      /\ \A k \in 1 .. 9 + n + 1 : DashboardQueries[k] = IF k <= 9 + n THEN start[k] ELSE last[k - (9 + n)]
  <2>1. /\ DashboardQueries \in Seq(Asks) /\ Len(DashboardQueries) = Len(start) + Len(last)
        /\ \A k \in 1 .. Len(DashboardQueries) :
              DashboardQueries[k] = IF k <= Len(start) THEN start[k] ELSE last[k - Len(start)]
    BY <1>4, <1>5, <1>6, ConcatElements
  <2> QED
    BY <1>4, <1>5, <2>1
<1>8. Len(DashboardQueries) = 10 + n /\ DOMAIN DashboardQueries = 1 .. 10 + n
  BY <1>1, <1>7
<1>9. \A k \in 1 .. 9 : DashboardQueries[k] = FirstQueries[k]
  BY <1>1, <1>5, <1>7
<1>10. \A k \in 10 .. 9 + n : DashboardQueries[k] = AllWindows[k - 9]
  BY <1>1, <1>5, <1>7
<1>11. DashboardQueries[10 + n] = At(Day, "pairs")
  BY <1>1, <1>4, <1>7
<1> QED
  BY <1>8, <1>9, <1>10, <1>11 DEF n

\* What can be compared on /dashboard.
LEMMA DashboardFollows ==
    ASSUME NEW j \in DOMAIN DashboardQueries, NEW k \in j + 1 .. Len(DashboardQueries),
           <<DashboardQueries[j].query, DashboardQueries[k].query>> \in Comparable
    PROVE  Follows(DashboardQueries[j], DashboardQueries[k])
<1> DEFINE f == DashboardQueries[j]
           q == DashboardQueries[k]
           n == 3 * Day
<1> SUFFICES Follows(f, q)
  OBVIOUS
<1>1. Day \in Nat /\ n \in Nat
  BY WindowsAscend
<1>2. j \in 1 .. 10 + n /\ k \in 1 .. 10 + n /\ j < k
  BY <1>1, DashboardAsks
<1>3. <<f.query, q.query>> \in Comparable
  OBVIOUS
<1> DEFINE AtPlace(i, e) ==
              \/ i <= 9 /\ e.query \in {"funnel", "pnl", "list", "metrics", "options"} /\ e.window = 0
              \/ i <= 9 /\ e.query \in CallQueries \cup {"hourly", "reasons"} /\ e.window = Day
              \/ i \in 10 .. 9 + n /\ e = AllWindows[i - 9] /\ i - 9 \in 1 .. n
              \/ i = 10 + n /\ e.query = "pairs" /\ e.window = Day
<1>4. \A i \in 1 .. 10 + n : AtPlace(i, DashboardQueries[i])
  <2> SUFFICES ASSUME NEW i \in 1 .. 10 + n PROVE AtPlace(i, DashboardQueries[i])
    OBVIOUS
  <2>1. CASE i \in 1 .. 9
    <3>1. DashboardQueries[i] = FirstQueries[i]
      BY <2>1, DashboardAsks
    <3>2. \/ /\ FirstQueries[i].query \in {"funnel", "pnl", "list", "metrics", "options"}
             /\ FirstQueries[i].window = 0
          \/ FirstQueries[i].query \in CallQueries \cup {"hourly", "reasons"} /\ FirstQueries[i].window = Day
      BY <2>1, FirstAsks
    <3>3. i <= 9
      BY <2>1
    <3> QED
      BY <3>1, <3>2, <3>3
  <2>2. CASE i \in 10 .. 9 + n
    BY <1>1, <2>2, DashboardAsks
  <2>3. CASE i = 10 + n
    BY <2>3, DashboardAsks DEF At
  <2> QED
    BY <1>1, <2>1, <2>2, <2>3
<1>5. AtPlace(j, f) /\ AtPlace(k, q)
  BY <1>2, <1>4
<1>6. /\ \A i \in 1 .. n : AllWindows[i].window \in Windows /\ AllWindows[i].query \in WindowQueries
      /\ \A g, h \in 1 .. n :
            g < h /\ AllWindows[g].query = AllWindows[h].query => AllWindows[g].window < AllWindows[h].window
  BY AllWindowsAre
<1> HIDE DEF f, q, n
<1>7. CASE f.query \in WindowQueries
  <2>1. j \in 10 .. 9 + n /\ j - 9 \in 1 .. n /\ f = AllWindows[j - 9]
    BY <1>5, <1>7 DEF WindowQueries, CallQueries
  <2>2. f.window \in Windows
    BY <1>6, <2>1
  <2>3. CASE q.query = f.query
    <3>1. k \in 10 .. 9 + n /\ k - 9 \in 1 .. n /\ q = AllWindows[k - 9]
      BY <1>5, <1>7, <2>3 DEF WindowQueries, CallQueries
    <3>2. j - 9 < k - 9
      BY <1>2, <2>1, <3>1
    <3>3. f.window < q.window /\ q.window \in Windows
      BY <1>6, <2>1, <2>3, <3>1, <3>2
    <3> QED
      BY <1>7, <2>2, <2>3, <3>3 DEF Follows
  <2>4. CASE f.query = "window_total" /\ q.query = "pairs"
    <3>1. q.window = Day
      BY <1>5, <1>6, <2>4 DEF WindowQueries, CallQueries
    <3> QED
      BY <2>2, <2>4, <3>1 DEF Follows
  <2>5. q.query = f.query \/ (f.query = "window_total" /\ q.query = "pairs")
    BY <1>3, <1>7 DEF Comparable, WindowQueries
  <2> QED
    BY <2>3, <2>4, <2>5
<1>8. CASE f.query \notin WindowQueries
  <2>1. f.query \in {"funnel", "metrics", "opportunity"} \cup CallQueries /\ q.query \notin WindowQueries
    BY <1>3, <1>8 DEF Comparable, WindowQueries, CallQueries
  <2>2. f.query # "opportunity"
    BY <1>5, <1>6, <1>8 DEF CallQueries
  <2>3. CASE f.query \in CallQueries
    <3>1. q.query \in {"per_venue", "hourly", "realized"} /\ f.query # q.query
      BY <1>3, <2>3 DEF Comparable, CallQueries
    <3>2. f.window = Day
      BY <1>5, <1>6, <1>8, <2>3 DEF CallQueries
    <3>3. q.query # "realized" /\ q.window = Day
      BY <1>5, <1>6, <2>1, <3>1 DEF CallQueries
    <3>4. Day = 0 \/ Day \in Windows
      BY <1>1 DEF Windows
    <3> QED
      BY <1>8, <2>3, <3>1, <3>2, <3>3, <3>4 DEF Follows
  <2>4. CASE f.query \in {"funnel", "metrics"}
    <3>1. q.query \in {"pnl", "list", "options", "known"}
      BY <1>3, <2>4 DEF Comparable
    <3>2. f.window = 0 /\ q.window = 0
      BY <1>5, <1>6, <1>8, <2>1, <2>4, <3>1 DEF CallQueries
    <3> QED
      BY <1>8, <3>2 DEF Follows
  <2> QED
    BY <2>1, <2>2, <2>3, <2>4
<1> QED
  BY <1>7, <1>8

\* What can be compared on any page.
LEMMA PagesFollow ==
    ASSUME NEW page \in PageQueries, NEW j \in DOMAIN page, NEW k \in j + 1 .. Len(page),
           <<page[j].query, page[k].query>> \in Comparable
    PROVE  Follows(page[j], page[k])
<1>1. CASE page = DashboardQueries
  BY <1>1, DashboardFollows
<1>2. CASE page = <<At(Day, "window_trades"), Whole("metrics"), Whole("known"), Whole("known")>>
  <2>1. j \in 1 .. 4 /\ k \in 1 .. 4 /\ j < k
    BY <1>2
  <2>2. /\ page[1].query = "window_trades"
        /\ \A i \in 2 .. 4 : page[i] \in {Whole("metrics"), Whole("known")}
    BY <1>2 DEF At
  <2>3. CASE j = 1
    BY <2>1, <2>2, <2>3 DEF Comparable, Whole, At
  <2>4. CASE j # 1
    <3>1. j \in 2 .. 4 /\ k \in 2 .. 4
      BY <2>1, <2>4
    <3> QED
      BY <2>2, <3>1 DEF Follows, Whole, At, WindowQueries
  <2> QED
    BY <2>3, <2>4
<1>3. CASE page = Analytics(0) \o <<Whole("known"), Whole("realized")>>
  <2> DEFINE rest == <<Whole("known"), Whole("realized")>>
             asks == Analytics(0)
  <2>1. /\ asks \in Seq(Asks) /\ Len(asks) = 4
        /\ \A i \in 1 .. 4 : asks[i].window = 0 /\ asks[i].query \notin WindowQueries
    BY AnalyticsAsks DEF WindowQueries, CallQueries
  <2>2. /\ rest \in Seq(Asks) /\ Len(rest) = 2
        /\ \A i \in 1 .. 2 : rest[i].window = 0 /\ rest[i].query \notin WindowQueries
    BY DEF Whole, At, Asks, QueryNames, WindowQueries
  <2> HIDE DEF rest, asks
  <2>3. page = asks \o rest
    BY <1>3 DEF rest, asks
  <2>4. /\ page \in Seq(Asks) /\ Len(page) = Len(asks) + Len(rest)
        /\ \A i \in 1 .. Len(page) : page[i] = IF i <= Len(asks) THEN asks[i] ELSE rest[i - Len(asks)]
    BY <2>1, <2>2, <2>3, ConcatElements
  <2>5. Len(page) = 6 /\ DOMAIN page = 1 .. 6 /\ \A i \in 1 .. 6 : page[i] = IF i <= 4 THEN asks[i] ELSE rest[i - 4]
    BY <2>1, <2>2, <2>4
  <2>6. ASSUME NEW i \in 1 .. 6
        PROVE  page[i].window = 0 /\ page[i].query \notin WindowQueries
    <3>1. CASE i \in 1 .. 4
      BY <2>1, <2>5, <3>1
    <3>2. CASE i \notin 1 .. 4
      <4>1. page[i] = rest[i - 4] /\ i - 4 \in 1 .. 2
        BY <2>5, <3>2
      <4> QED
        BY <2>2, <4>1
    <3> QED
      BY <3>1, <3>2
  <2>7. j \in 1 .. 6 /\ k \in 1 .. 6
    BY <2>5
  <2> QED
    BY <2>6, <2>7 DEF Follows
<1>4. CASE page = <<Whole("opportunity"), Whole("pricing"), Whole("risk"), Whole("simulation"), Whole("attempt")>>
  <2>1. j \in 1 .. 5 /\ k \in 1 .. 5
    BY <1>4
  <2>2. \A i \in 1 .. 5 : page[i].window = 0 /\ page[i].query \notin WindowQueries
    BY <1>4 DEF Whole, At, WindowQueries
  <2> QED
    BY <2>1, <2>2 DEF Follows
<1>5. DashboardQueries =
        <<Whole("funnel"), Whole("pnl"), Whole("list"), Whole("metrics"), Whole("options")>> \o Analytics(Day)
          \o AllWindows \o <<At(Day, "pairs")>>
  BY DEF DashboardQueries, FirstQueries, Firsts
<1> QED
  BY <1>1, <1>2, <1>3, <1>4, <1>5 DEF PageQueries

\* The statuses are finitely many.
LEMMA StatusesFinite == IsFiniteSet(Statuses)
<1> DEFINE first == {"detected", "rejected", "simulation_approved", "approved"}
           second == {"simulated", "simulation_failed", "submitted", "confirmed"}
           third == {"reverted", "dropped", "dry_run"}
<1>1. \A a, b, c, d : IsFiniteSet({a, b, c, d})
  <2> SUFFICES ASSUME NEW a, NEW b, NEW c, NEW d PROVE IsFiniteSet({a, b, c, d})
    OBVIOUS
  <2>1. IsFiniteSet({a})
    BY FS_Singleton
  <2>2. IsFiniteSet({a} \cup {b})
    BY <2>1, FS_AddElement
  <2>3. IsFiniteSet(({a} \cup {b}) \cup {c})
    BY <2>2, FS_AddElement
  <2>4. IsFiniteSet((({a} \cup {b}) \cup {c}) \cup {d})
    BY <2>3, FS_AddElement
  <2>5. {a, b, c, d} = (({a} \cup {b}) \cup {c}) \cup {d}
    OBVIOUS
  <2> QED
    BY <2>4, <2>5
<1>2. third = {"reverted", "dropped", "dry_run", "dry_run"}
  OBVIOUS
<1>3. IsFiniteSet(first) /\ IsFiniteSet(second) /\ IsFiniteSet(third)
  BY <1>1, <1>2
<1>4. Statuses = (first \cup second) \cup third
  BY DEF Statuses
<1> HIDE DEF first, second, third
<1>5. IsFiniteSet(first \cup second)
  BY <1>3, FS_Union
<1>6. IsFiniteSet((first \cup second) \cup third)
  BY <1>3, <1>5, FS_Union
<1> QED
  BY <1>4, <1>6

\* A funnel adds up to its rows.
LEMMA FunnelAddsUp ==
    ASSUME NEW slice \in SUBSET DOMAIN vwRows, vwRows \in Seq(ViewRows)
    PROVE  SumFunction(FunnelOf(slice)) = Cardinality(slice)
<1> DEFINE class == [i \in DOMAIN vwRows |-> vwRows[i].status]
<1>1. IsFiniteSet(slice)
  BY PartsCounted
<1>2. \A i \in slice : class[i] = vwRows[i].status /\ class[i] \in Statuses
  <2>1. \A i \in DOMAIN vwRows : vwRows[i] \in ViewRows
    OBVIOUS
  <2> QED
    BY <2>1 DEF ViewRows
<1> HIDE DEF class
<1>3. FunnelOf(slice) = ClassCounts(slice, Statuses, class)
  <2>1. \A c : {i \in slice : class[i] = c} = {i \in slice : vwRows[i].status = c}
    BY <1>2
  <2> QED
    BY <2>1 DEF FunnelOf, ClassCounts
<1> QED
  BY <1>1, <1>2, <1>3, StatusesFinite, ClassesAddUp

\* Counts per pair add up to the whole.
LEMMA PairsAddUp ==
    ASSUME NEW slice \in SUBSET DOMAIN vwRows, vwRows \in Seq(ViewRows)
    PROVE  SumFunction([p \in ViewPairs |-> Cardinality(OfPair(slice, p))]) = Cardinality(slice)
<1> DEFINE class == [i \in DOMAIN vwRows |-> vwRows[i].pair]
<1>1. IsFiniteSet(slice)
  BY PartsCounted
<1>2. \A i \in slice : class[i] = vwRows[i].pair /\ class[i] \in ViewPairs
  <2>1. \A i \in DOMAIN vwRows : vwRows[i] \in ViewRows
    OBVIOUS
  <2> QED
    BY <2>1 DEF ViewRows
<1>3. IsFiniteSet(ViewPairs)
  BY ViewsAssumption
<1> HIDE DEF class
<1>4. \A p : OfPair(slice, p) = {i \in slice : class[i] = p}
  BY <1>2 DEF OfPair
<1>5. SumFunction(ClassCounts(slice, ViewPairs, class)) = Cardinality(slice)
  BY <1>1, <1>2, <1>3, ClassesAddUp
<1>6. ClassCounts(slice, ViewPairs, class) = [p \in ViewPairs |-> Cardinality(OfPair(slice, p))]
  BY <1>4 DEF ClassCounts
<1> QED
  BY <1>5, <1>6

\* So the pairs' summary adds up to its rows, and the trades per pair to the trades.
LEMMA SummaryAddsUp ==
    ASSUME NEW slice \in SUBSET DOMAIN vwRows, vwRows \in Seq(ViewRows)
    PROVE  /\ SumFunction([p \in ViewPairs |-> Total(PairSummaryOf(slice)[p])]) = Cardinality(slice)
           /\ \A o \in TradeFigures :
                SumFunction([p \in ViewPairs |-> PerPairOf(slice)[p][o]]) = Cardinality(TradesIn(vwRows, slice, o))
<1>1. \A p \in ViewPairs : Total(PairSummaryOf(slice)[p]) = Cardinality(OfPair(slice, p))
  <2> SUFFICES ASSUME NEW p \in ViewPairs PROVE Total(PairSummaryOf(slice)[p]) = Cardinality(OfPair(slice, p))
    OBVIOUS
  <2>1. PairSummaryOf(slice)[p] = FunnelOf(OfPair(slice, p))
    BY DEF PairSummaryOf
  <2>2. OfPair(slice, p) \in SUBSET DOMAIN vwRows
    BY DEF OfPair
  <2> QED
    BY <2>1, <2>2, FunnelAddsUp DEF Total
<1>2. [p \in ViewPairs |-> Total(PairSummaryOf(slice)[p])] = [p \in ViewPairs |-> Cardinality(OfPair(slice, p))]
  BY <1>1
<1>3. ASSUME NEW outcome
      PROVE  SumFunction([p \in ViewPairs |-> Cardinality(TradesIn(vwRows, OfPair(slice, p), outcome))])
               = Cardinality(TradesIn(vwRows, slice, outcome))
  <2> DEFINE trades == TradesIn(vwRows, slice, outcome)
  <2>1. trades \in SUBSET DOMAIN vwRows
    BY DEF TradesIn
  <2>2. \A p : TradesIn(vwRows, OfPair(slice, p), outcome) = OfPair(trades, p)
    BY DEF TradesIn, OfPair
  <2> HIDE DEF trades
  <2>3. SumFunction([p \in ViewPairs |-> Cardinality(OfPair(trades, p))]) = Cardinality(trades)
    BY <2>1, PairsAddUp
  <2> QED
    BY <2>2, <2>3 DEF trades
<1>4. ASSUME NEW o \in TradeFigures
      PROVE  SumFunction([p \in ViewPairs |-> PerPairOf(slice)[p][o]]) = Cardinality(TradesIn(vwRows, slice, o))
  <2>1. \A p \in ViewPairs : PerPairOf(slice)[p][o] = Cardinality(TradesIn(vwRows, OfPair(slice, p), o))
    BY QueriesAre DEF PerPairOf
  <2>2. [p \in ViewPairs |-> PerPairOf(slice)[p][o]]
          = [p \in ViewPairs |-> Cardinality(TradesIn(vwRows, OfPair(slice, p), o))]
    BY <2>1
  <2> QED
    BY <1>3, <2>2
<1> QED
  BY <1>2, <1>4, PairsAddUp

\* The trades per hour add up to the trades, where no hour is cut off.
LEMMA HoursAddUp ==
    ASSUME NEW slice \in SUBSET DOMAIN vwRows, vwRows \in Seq(ViewRows), NEW o \in TradeFigures,
           DOMAIN HourlyOf(slice) = HoursTraded(slice)
    PROVE  SumFunction([h \in DOMAIN HourlyOf(slice) |-> HourlyOf(slice)[h][o]]) = Cardinality(TradesIn(vwRows, slice, o))
<1> DEFINE hours == HoursTraded(slice)
           trades == TradesIn(vwRows, slice, o)
           class == [i \in DOMAIN vwRows |-> vwRows[i].at \div HourLength]
           traded == {i \in slice : vwRows[i].results # {}}
<1>1. trades \in SUBSET traded /\ traded \in SUBSET DOMAIN vwRows /\ trades \in SUBSET slice
  BY DEF TradesIn
<1>2. hours = {class[i] : i \in traded}
  BY DEF HoursTraded
<1>3. \A i \in slice : class[i] = vwRows[i].at \div HourLength
  OBVIOUS
<1>4. \A h : TradesIn(vwRows, OfHour(slice, h), o) = {i \in trades : class[i] = h}
  BY <1>3 DEF TradesIn, OfHour
<1>5. \A h \in DOMAIN HourlyOf(slice) : HourlyOf(slice)[h][o] = Cardinality(TradesIn(vwRows, OfHour(slice, h), o))
  BY QueriesAre DEF HourlyOf
<1> HIDE DEF hours, class, trades, traded
<1>6. IsFiniteSet(trades) /\ IsFiniteSet(traded)
  BY <1>1, PartsCounted
<1>7. IsFiniteSet(hours)
  <2> DEFINE hourOf == [i \in traded |-> class[i]]
  <2>1. hourOf \in Surjection(traded, hours)
    BY <1>2 DEF Surjection
  <2> HIDE DEF hourOf
  <2> QED
    BY <1>6, <2>1, FS_Surjection
<1>8. \A i \in trades : class[i] \in hours
  BY <1>1, <1>2
<1>9. SumFunction(ClassCounts(trades, hours, class)) = Cardinality(trades)
  BY <1>6, <1>7, <1>8, ClassesAddUp
<1>10. [h \in DOMAIN HourlyOf(slice) |-> HourlyOf(slice)[h][o]] = ClassCounts(trades, hours, class)
  BY <1>4, <1>5 DEF ClassCounts, hours
<1> QED
  BY <1>9, <1>10 DEF trades


-----------------------------------------------------------------------------
(* The first reading of a page                                             *)

BoundedBy(n, m) == n \in Nat /\ m \in Nat /\ n <= m
Count(rows, slice, outcome) == Cardinality(TradesIn(rows, slice, outcome))
GroupSum(groups, o) == SumFunction([g \in DOMAIN groups |-> groups[g][o]])

\* What the rows behind a status hold.
StatusGrounded(rows, status) ==
    \/ status \in {"detected", "absent"}
    \/ /\ Len(rows) > 0
       /\ rows[1].priced # "none"
       /\ rows[1].risk # "none"
       /\ status = "rejected" => rows[1].risk \in RefusalReasons
       /\ status # "rejected" => rows[1].risk = (IF status = "simulation_approved" THEN status ELSE "approved")
       /\ status \in {"simulated", "simulation_failed"} => rows[1].simulation = status
       /\ status \in Traded => rows[1].attempt

\* The rows bear a query's answer out, those of its window where it has one.
ReadingOK(rows, query, from, reading) ==
    /\ query = "funnel" =>
         /\ BoundedBy(reading["confirmed"], Count(rows, DOMAIN rows, "successful"))
         /\ BoundedBy(reading["reverted"], Count(rows, DOMAIN rows, "reverted"))
         /\ BoundedBy(reading["dropped"], Count(rows, DOMAIN rows, "dropped"))
         /\ BoundedBy(Total(reading), Len(rows))
    /\ query = "metrics" => BoundedBy(reading.detected, Len(rows))
    /\ query = "window_total" => BoundedBy(reading, Cardinality(SinceIn(rows, from)))
    /\ query = "window_trades" => \A o \in Outcomes : BoundedBy(reading[o], Count(rows, SinceIn(rows, from), o))
    /\ query = "window_priced" => BoundedBy(reading, Cardinality(PricedIn(rows, SinceIn(rows, from))))
    /\ query = "per_pair" =>
         /\ \A o \in {"total", "successful"} : BoundedBy(GroupSum(reading, o), Count(rows, SinceIn(rows, from), o))
         /\ BoundedBy(GroupSum(reading, "successful") + GroupSum(reading, "reverted"),
                      Count(rows, SinceIn(rows, from), "included"))
    /\ query = "per_venue" =>
         \A o \in {"total", "successful"} : BoundedBy(reading[o], Count(rows, SinceIn(rows, from), o))
    /\ query = "opportunity" => StatusGrounded(rows, reading)

\* A bound that grows is still one.
LEMMA BoundedByMore ==
    ASSUME NEW n, NEW m, BoundedBy(n, m), NEW k \in Nat, m <= k
    PROVE  BoundedBy(n, k)
  BY DEF BoundedBy

\* The counts of a query are natural numbers.
LEMMA CountNat ==
    ASSUME NEW rows \in Seq(ViewRows), NEW slice \in SUBSET DOMAIN rows
    PROVE  /\ \A outcome : Count(rows, slice, outcome) \in Nat
           /\ Cardinality(PricedIn(rows, slice)) \in Nat /\ Cardinality(slice) \in Nat
<1>1. \A outcome : TradesIn(rows, slice, outcome) \in SUBSET DOMAIN rows
  BY DEF TradesIn
<1>2. PricedIn(rows, slice) \in SUBSET DOMAIN rows
  BY DEF PricedIn
<1> QED
  BY <1>1, <1>2, PartsCounted DEF Count

\* Rows that grow still bear a reading out.
LEMMA ReadingGrows ==
    ASSUME NEW rows, NEW new, Grown(rows, new), NEW query, NEW from, query \in TimedQueries => from \in Int,
           NEW reading, ReadingOK(rows, query, from, reading)
    PROVE  ReadingOK(new, query, from, reading)
<1>1. rows \in Seq(ViewRows) /\ new \in Seq(ViewRows) /\ Len(rows) <= Len(new) /\ Len(new) \in Nat
  BY DEF Grown
<1>2. DOMAIN rows \in SUBSET (DOMAIN rows \cap DOMAIN new)
  BY <1>1
<1>3. \A outcome : /\ Count(rows, DOMAIN rows, outcome) <= Count(new, DOMAIN new, outcome)
                   /\ Count(new, DOMAIN new, outcome) \in Nat
  BY <1>1, <1>2, CountsGrow, CountNat DEF Count
<1>4. ASSUME query \in TimedQueries
      PROVE  /\ Cardinality(SinceIn(rows, from)) <= Cardinality(SinceIn(new, from))
             /\ Cardinality(SinceIn(new, from)) \in Nat
             /\ \A outcome : /\ Count(rows, SinceIn(rows, from), outcome) <= Count(new, SinceIn(new, from), outcome)
                             /\ Count(new, SinceIn(new, from), outcome) \in Nat
             /\ Cardinality(PricedIn(rows, SinceIn(rows, from))) <= Cardinality(PricedIn(new, SinceIn(new, from)))
             /\ Cardinality(PricedIn(new, SinceIn(new, from))) \in Nat
  <2>1. from \in Int /\ from <= from
    BY <1>4
  <2>2. SinceIn(new, from) \in SUBSET DOMAIN new /\ SinceIn(rows, from) \in SUBSET (DOMAIN rows \cap SinceIn(new, from))
    BY <2>1, SinceGrows
  <2> QED
    BY <1>1, <2>2, CountsGrow, CountNat DEF Count
<1>5. ASSUME query = "opportunity"
      PROVE  StatusGrounded(new, reading)
  <2>1. StatusGrounded(rows, reading)
    BY <1>5 DEF ReadingOK
  <2>2. CASE reading \in {"detected", "absent"}
    BY <2>2 DEF StatusGrounded
  <2>3. CASE reading \notin {"detected", "absent"}
    <3>1. Len(rows) > 0 /\ rows[1].risk # "none"
      BY <2>1, <2>3 DEF StatusGrounded
    <3>2. RowGrows(rows[1], new[1]) /\ Len(new) > 0
      BY <1>1, <3>1 DEF Grown
    <3> QED
      BY <2>1, <2>3, <3>1, <3>2 DEF StatusGrounded, RowGrows
  <2> QED
    BY <2>2, <2>3
<1>6. CASE query = "funnel"
  BY <1>1, <1>3, <1>6, BoundedByMore DEF ReadingOK
<1>7. CASE query = "metrics"
  BY <1>1, <1>7, BoundedByMore DEF ReadingOK
<1>8. CASE query = "window_total"
  BY <1>4, <1>8, BoundedByMore DEF ReadingOK, TimedQueries, WindowQueries
<1>9. CASE query = "window_trades"
  BY <1>4, <1>9, BoundedByMore DEF ReadingOK, TimedQueries, WindowQueries
<1>10. CASE query = "window_priced"
  BY <1>4, <1>10, BoundedByMore DEF ReadingOK, TimedQueries, WindowQueries
<1>11. CASE query \in {"per_pair", "per_venue"}
  BY <1>4, <1>11, BoundedByMore DEF ReadingOK, TimedQueries, CallQueries
<1>12. CASE query = "opportunity"
  BY <1>5, <1>12 DEF ReadingOK
<1>13. CASE query \notin {"funnel", "metrics", "window_total", "window_trades", "window_priced", "per_pair", "per_venue", "opportunity"}
  BY <1>13 DEF ReadingOK
<1> QED
  BY <1>6, <1>7, <1>8, <1>9, <1>10, <1>11, <1>12, <1>13

\* The status of a row is grounded in its other tables.
LEMMA StatusIsGrounded == RowsInv => StatusGrounded(vwRows, LookUp(1).status)
<1> SUFFICES ASSUME RowsInv PROVE StatusGrounded(vwRows, LookUp(1).status)
  OBVIOUS
<1>1. vwRows \in Seq(ViewRows) /\ DOMAIN vwRows = 1 .. Len(vwRows) /\ Len(vwRows) \in Nat
  BY DEF RowsInv
<1>2. CASE Len(vwRows) = 0
  BY <1>1, <1>2 DEF LookUp, Absent, StatusGrounded
<1>3. CASE Len(vwRows) > 0
  <2> DEFINE row == vwRows[1]
  <2>1. RowOK(row) /\ LookUp(1) = row
    BY <1>1, <1>3 DEF RowsInv, LookUp
  <2>2. row \in ViewRows
    BY <2>1 DEF RowOK
  <2>3. row.status \in Statuses /\ row.risk \in {"none", "approved", "simulation_approved"} \cup RefusalReasons
    BY <2>2 DEF ViewRows
  <2> HIDE DEF row
  <2>4. CASE row.status = "detected"
    BY <2>1, <2>4 DEF StatusGrounded
  <2>5. CASE row.status # "detected"
    <3>1. row.risk # "none" /\ row.priced # "none"
      BY <2>1, <2>5 DEF RowOK
    <3>2. /\ row.status = "rejected" => row.risk \in RefusalReasons
          /\ row.status # "rejected" => row.risk = (IF row.status = "simulation_approved" THEN row.status ELSE "approved")
      BY <2>1, <2>3, <2>5, <3>1, ViewsAssumption DEF RowOK, Judgement
    <3>3. row.status \in {"simulated", "simulation_failed"} => row.simulation = row.status
      BY <2>1 DEF RowOK
    <3>4. row.status \in Traded => row.attempt
      BY <2>1 DEF RowOK
    <3> QED
      BY <1>3, <2>1, <3>1, <3>2, <3>3, <3>4 DEF StatusGrounded, row
  <2> QED
    BY <2>4, <2>5
<1> QED
  BY <1>1, <1>2, <1>3

-----------------------------------------------------------------------------
(* A page and its later queries                                            *)

\* The time a page was opened at, give or take what passes before the first tick.
Opened == vwClock - (IF vwTicked THEN 1 ELSE 0)
\* No query of the first one's window has an earlier since.
From == Opened - WindowLengths[vwPage[1].window]
\* The since behind the first one's answer; the queries of one analytics share it.
ReadFrom == IF vwPage[1].query \in CallQueries THEN vwSince ELSE From

\* The since in hand is that of the query it was computed for.
SinceInv ==
    vwSince # NoSince =>
        /\ vwSince \in Int
        /\ vwReading = <<>> =>
             /\ vwPage[1].window \in Windows /\ vwSince >= From
             /\ vwSince <= vwClock - WindowLengths[vwPage[1].window]
        /\ vwReading # <<>> => \E q \in vwPage[2] : q.window \in Windows /\ vwSince <= vwClock - WindowLengths[q.window]

PageInv ==
    /\ vwClock \in Nat /\ vwTicked \in BOOLEAN
    /\ vwPage = <<>> => vwReading = <<>> /\ vwSince = NoSince /\ ~vwTicked
    /\ vwPage # <<>> => vwPage[2] # {} /\ \A q \in vwPage[2] : Follows(vwPage[1], q)
    /\ SinceInv
    /\ vwReading # <<>> /\ vwPage[1].query \in CallQueries /\ vwPage[1].window \in Windows => vwSince # NoSince
    /\ vwReading # <<>> => ReadingOK(vwRows, vwPage[1].query, ReadFrom, vwReading[1])

ViewsInv == RowsInv /\ CountersInv /\ PageInv

\* The page's queries, and the earliest since of the first, as numbers.
LEMMA PageFacts ==
    ASSUME PageInv, vwPage # <<>>
    PROVE  /\ vwPage[1].query \in WindowQueries => vwPage[1].window \in Windows
           /\ vwPage[1].window \in {0} \cup Windows
           /\ vwPage[1].window \in Windows => From \in Int
           /\ vwPage[1].window = 0 => \A q \in vwPage[2] : q.window = 0
           /\ vwPage[1].window \in Windows => \A q \in vwPage[2] : q.window \in Windows
           /\ 0 \notin Windows /\ Opened \in Int /\ Opened <= vwClock /\ vwClock <= Opened + 1
<1>1. PICK q \in vwPage[2] : Follows(vwPage[1], q)
  BY DEF PageInv
<1>2. Day \in Nat /\ 0 \notin Windows /\ \A w \in Windows : WindowLengths[w] \in Nat /\ w \in Nat /\ Day \in Windows
  BY WindowsAscend DEF Windows
<1>3. \A u \in vwPage[2] : Follows(vwPage[1], u)
  BY DEF PageInv
<1>4. Opened \in Int /\ Opened <= vwClock /\ vwClock <= Opened + 1
  BY DEF PageInv, Opened
<1>5. vwPage[1].query \in WindowQueries => vwPage[1].window \in Windows
  BY <1>1 DEF Follows
<1>6. vwPage[1].window \in {0} \cup Windows
  BY <1>1 DEF Follows
<1>7. vwPage[1].window \in Windows => From \in Int
  BY <1>2, <1>4 DEF From
<1>8. vwPage[1].window = 0 => \A u \in vwPage[2] : u.window = 0
  BY <1>2, <1>3 DEF Follows
<1>9. vwPage[1].window \in Windows => \A u \in vwPage[2] : u.window \in Windows
  BY <1>2, <1>3 DEF Follows
<1> QED
  BY <1>2, <1>4, <1>5, <1>6, <1>7, <1>8, <1>9

\* A query's answer is borne out by the rows of a window, when its since does not
\* come before that window begins.
LEMMA ReadingTrue ==
    ASSUME RowsInv, CountersInv, NEW query, NEW from,
           query \in TimedQueries => from \in Int /\ vwSince \in Int /\ from <= vwSince
    PROVE  ReadingOK(vwRows, query, from, QueryResult(query))
<1> DEFINE whole == DOMAIN vwRows
           slice == Since(vwSince)
<1>1. vwRows \in Seq(ViewRows) /\ whole = 1 .. Len(vwRows) /\ Len(vwRows) \in Nat /\ \A i \in whole : RowOK(vwRows[i])
  BY DEF RowsInv
<1>2. slice \in SUBSET whole /\ slice = SinceIn(vwRows, vwSince) /\ whole \in SUBSET whole
  BY DEF Since, SinceIn
<1>3. Cardinality(whole) = Len(vwRows)
  BY <1>1, PartsCounted
<1> HIDE DEF whole, slice
<1>4. CASE query = "funnel"
  <2>1. QueryResult(query) = FunnelOf(whole)
    BY <1>4 DEF QueryResult, whole
  <2>2. \A s \in Statuses : FunnelOf(whole)[s] = Cardinality({i \in whole : vwRows[i].status = s})
    BY DEF FunnelOf
  <2>3. \A s, o : ({i \in whole : vwRows[i].status = s} \in SUBSET TradesIn(vwRows, whole, o))
                    => BoundedBy(Cardinality({i \in whole : vwRows[i].status = s}), Count(vwRows, whole, o))
    <3>1. \A o : TradesIn(vwRows, whole, o) \in SUBSET DOMAIN vwRows
      BY DEF TradesIn, whole
    <3> QED
      BY <1>1, <3>1, PartsCounted DEF BoundedBy, Count
  <2>4. \A i \in whole : vwRows[i].status \in {"confirmed", "reverted", "dropped"} =>
           \E result \in TradeResults : result \in vwRows[i].results /\ FinalStatus(result) = vwRows[i].status
    BY <1>1 DEF RowOK, Traded
  <2>5. /\ {i \in whole : vwRows[i].status = "confirmed"} \in SUBSET TradesIn(vwRows, whole, "successful")
        /\ {i \in whole : vwRows[i].status = "reverted"} \in SUBSET TradesIn(vwRows, whole, "reverted")
        /\ {i \in whole : vwRows[i].status = "dropped"} \in SUBSET TradesIn(vwRows, whole, "dropped")
    BY <2>4, ResultFacts DEF TradesIn, IsOutcome, Flags
  <2>6. {"confirmed", "reverted", "dropped"} \in SUBSET Statuses
    BY DEF Statuses
  <2>7. BoundedBy(Total(FunnelOf(whole)), Len(vwRows))
    BY <1>1, <1>3, FunnelAddsUp DEF Total, BoundedBy, whole
  <2>8. BoundedBy(FunnelOf(whole)["confirmed"], Count(vwRows, whole, "successful"))
    <3>1. FunnelOf(whole)["confirmed"] = Cardinality({i \in whole : vwRows[i].status = "confirmed"})
      BY <2>2, <2>6
    <3> QED
      BY <2>3, <2>5, <3>1
  <2>9. BoundedBy(FunnelOf(whole)["reverted"], Count(vwRows, whole, "reverted"))
    <3>1. FunnelOf(whole)["reverted"] = Cardinality({i \in whole : vwRows[i].status = "reverted"})
      BY <2>2, <2>6
    <3> QED
      BY <2>3, <2>5, <3>1
  <2>10. BoundedBy(FunnelOf(whole)["dropped"], Count(vwRows, whole, "dropped"))
    <3>1. FunnelOf(whole)["dropped"] = Cardinality({i \in whole : vwRows[i].status = "dropped"})
      BY <2>2, <2>6
    <3> QED
      BY <2>3, <2>5, <3>1
  <2>11. whole = DOMAIN vwRows
    BY DEF whole
  <2> QED
    BY <1>4, <2>1, <2>7, <2>8, <2>9, <2>10, <2>11 DEF ReadingOK
<1>5. CASE query = "metrics"
  <2>1. QueryResult(query) = vwCounted
    BY <1>5 DEF QueryResult
  <2>2. BoundedBy(vwCounted.detected, Len(vwRows))
    BY <1>1 DEF CountersInv, BoundedBy
  <2> QED
    BY <1>5, <2>1, <2>2 DEF ReadingOK
<1>6. ASSUME query \in TimedQueries
      PROVE  /\ slice \in SUBSET (DOMAIN vwRows \cap SinceIn(vwRows, from)) /\ SinceIn(vwRows, from) \in SUBSET DOMAIN vwRows
             /\ BoundedBy(Cardinality(slice), Cardinality(SinceIn(vwRows, from)))
             /\ BoundedBy(Cardinality(PricedIn(vwRows, slice)), Cardinality(PricedIn(vwRows, SinceIn(vwRows, from))))
             /\ \A o : BoundedBy(Count(vwRows, slice, o), Count(vwRows, SinceIn(vwRows, from), o))
  <2>1. Grown(vwRows, vwRows)
    BY <1>1, SameGrows
  <2>2. slice \in SUBSET (DOMAIN vwRows \cap SinceIn(vwRows, from)) /\ SinceIn(vwRows, from) \in SUBSET DOMAIN vwRows
    BY <1>2, <1>6, <2>1, SinceGrows
  <2> QED
    BY <1>1, <2>1, <2>2, CountsGrow, CountNat DEF Count, BoundedBy
<1>7. CASE query = "window_total"
  <2>1. QueryResult(query) = Cardinality(slice)
    BY <1>1, <1>2, <1>7, FunnelAddsUp DEF QueryResult, slice, whole
  <2> QED
    BY <1>6, <1>7, <2>1 DEF ReadingOK, TimedQueries, WindowQueries
<1>8. CASE query = "window_trades"
  <2>1. QueryResult(query) = TradesOf(slice)
    BY <1>8 DEF QueryResult, slice
  <2>2. \A o \in Outcomes : TradesOf(slice)[o] = Count(vwRows, slice, o)
    BY QueriesAre DEF Outcomes, Count
  <2> QED
    BY <1>6, <1>8, <2>1, <2>2 DEF ReadingOK, TimedQueries, WindowQueries
<1>9. CASE query = "window_priced"
  <2>1. QueryResult(query) = Cardinality(PricedIn(vwRows, slice))
    BY <1>9, QueriesAre DEF QueryResult, slice
  <2> QED
    BY <1>6, <1>9, <2>1 DEF ReadingOK, TimedQueries, WindowQueries
<1>10. CASE query = "per_pair"
  <2>1. QueryResult(query) = PerPairOf(slice) /\ DOMAIN PerPairOf(slice) = ViewPairs
    BY <1>10 DEF QueryResult, slice, PerPairOf
  <2>2. \A o \in TradeFigures : GroupSum(PerPairOf(slice), o) = Count(vwRows, slice, o)
    BY <1>1, <1>2, <2>1, SummaryAddsUp DEF GroupSum, Count, whole
  <2>3. \A o : BoundedBy(Count(vwRows, slice, o), Count(vwRows, SinceIn(vwRows, from), o))
    BY <1>6, <1>10 DEF TimedQueries, CallQueries
  <2> DEFINE good == TradesIn(vwRows, slice, "successful")
             bad == TradesIn(vwRows, slice, "reverted")
             landed == TradesIn(vwRows, slice, "included")
  <2>4. good \cap bad = {} /\ good \in SUBSET landed /\ bad \in SUBSET landed
    BY <1>1, <1>2, OneOutcome
  <2>5. landed \in SUBSET DOMAIN vwRows
    BY <1>2 DEF TradesIn, whole
  <2> HIDE DEF good, bad, landed
  <2>6. IsFiniteSet(landed) /\ Cardinality(landed) \in Nat /\ Cardinality(good) \in Nat /\ Cardinality(bad) \in Nat
    BY <1>1, <2>4, <2>5, PartsCounted
  <2>7. Cardinality(good) + Cardinality(bad) <= Cardinality(landed)
    BY <2>4, <2>6, DisjointCounts
  <2>8. Count(vwRows, slice, "successful") + Count(vwRows, slice, "reverted") <= Count(vwRows, slice, "included")
    BY <2>7 DEF Count, good, bad, landed
  <2>9. BoundedBy(Count(vwRows, slice, "successful") + Count(vwRows, slice, "reverted"),
                  Count(vwRows, SinceIn(vwRows, from), "included"))
    BY <2>3, <2>8 DEF BoundedBy
  <2> QED
    BY <1>10, <2>1, <2>2, <2>3, <2>9 DEF ReadingOK, TradeFigures
<1>13. CASE query = "per_venue"
  <2>1. QueryResult(query) = TradesOf(slice)
    BY <1>13 DEF QueryResult, slice, PerVenueOf
  <2>2. \A o \in {"total", "successful"} : TradesOf(slice)[o] = Count(vwRows, slice, o)
    BY QueriesAre DEF TradeFigures, Count
  <2> QED
    BY <1>6, <1>13, <2>1, <2>2 DEF ReadingOK, TimedQueries, CallQueries
<1>11. CASE query = "opportunity"
  BY <1>11, StatusIsGrounded DEF ReadingOK, QueryResult
<1>12. CASE query \notin {"funnel", "metrics", "window_total", "window_trades", "window_priced", "per_pair", "per_venue", "opportunity"}
  BY <1>12 DEF ReadingOK
<1> QED
  BY <1>4, <1>5, <1>7, <1>8, <1>9, <1>10, <1>11, <1>12, <1>13

\* The since of a later query is not after the first one's window began.
LEMMA SinceEarlier ==
    ASSUME PageInv, vwReading # <<>>, vwSince # NoSince, NEW q \in vwPage[2], vwPage[1].window \in Windows,
           vwPage[1].query \in WindowQueries,
           q.query = vwPage[1].query \/ (vwPage[1].window = Day /\ ~vwTicked)
    PROVE  vwSince \in Int /\ vwSince <= From
<1> DEFINE f == vwPage[1]
<1>1. vwPage # <<>> /\ From = Opened - WindowLengths[f.window]
  BY DEF PageInv, From
<1>2. vwSince \in Int /\ vwClock \in Nat /\ Opened \in Int /\ vwClock <= Opened + 1 /\ 0 \notin Windows
  BY <1>1, PageFacts DEF PageInv, SinceInv
<1>3. PICK u \in vwPage[2] : u.window \in Windows /\ vwSince <= vwClock - WindowLengths[u.window]
  BY DEF PageInv, SinceInv
<1>4. Follows(f, u) /\ Follows(f, q)
  BY <1>1 DEF PageInv
<1>5. /\ Day \in Nat /\ \A w \in Windows : WindowLengths[w] \in Nat
      /\ \A w \in Windows : w \in Nat /\ w <= Day
      /\ \A v, w \in Windows : v < w => WindowLengths[v] + 1 <= WindowLengths[w]
  BY WindowsAscend DEF Windows
<1>6. f.window \in Windows /\ f.query \notin CallQueries /\ (q.query = f.query \/ (f.window = Day /\ ~vwTicked))
  BY DEF WindowQueries, CallQueries
<1> HIDE DEF f
<1>7. CASE f.window < u.window
  <2>1. WindowLengths[f.window] + 1 <= WindowLengths[u.window]
    BY <1>3, <1>5, <1>6, <1>7
  <2>2. WindowLengths[f.window] \in Nat /\ WindowLengths[u.window] \in Nat
    BY <1>3, <1>5, <1>6
  <2> QED
    <3> DEFINE a == WindowLengths[f.window]
               b == WindowLengths[u.window]
    <3>1. a \in Nat /\ b \in Nat /\ a + 1 <= b /\ vwSince <= vwClock - b /\ From = Opened - a
      BY <1>1, <1>3, <2>1, <2>2
    <3> HIDE DEF a, b
    <3> QED
      BY <1>2, <3>1
<1>8. CASE ~(f.window < u.window)
  <2>1. u.window = Day /\ f.window = Day
    <3>1. f.window # 0
      BY <1>2, <1>6
    <3>2. u.window = Day
      BY <1>4, <1>6, <1>8, <3>1 DEF Follows
    <3>3. f.window \in Nat /\ f.window <= Day
      BY <1>5, <1>6
    <3> QED
      BY <1>5, <1>8, <3>2, <3>3
  <2>2. q.query # f.query
    <3> SUFFICES ASSUME q.query = f.query PROVE FALSE
      OBVIOUS
    <3>1. f.window # 0
      BY <1>2, <1>6
    <3>2. q.window \in Windows /\ f.window < q.window
      BY <1>4, <1>6, <3>1 DEF Follows
    <3> QED
      BY <1>5, <2>1, <3>2
  <2>3. Opened = vwClock
    BY <1>2, <1>6, <2>2 DEF Opened
  <2> QED
    BY <1>1, <1>2, <1>3, <1>5, <2>1, <2>3
<1> QED
  BY <1>7, <1>8

\* No since comes before any time.
LEMMA NoSinceIsInt == NoSince \in Int /\ NoSince < 0
<1>1. CASE WindowLengths = <<>>
  BY <1>1 DEF NoSince
<1>2. CASE WindowLengths # <<>>
  <2>1. Last(WindowLengths) \in Nat
    BY <1>2, ViewsAssumption DEF Last
  <2> QED
    BY <1>2, <2>1 DEF NoSince
<1> QED
  BY <1>1, <1>2

\* Without a since a query looks at all rows.
LEMMA SinceTheStart == RowsInv => Since(NoSince) = DOMAIN vwRows
<1> SUFFICES ASSUME RowsInv PROVE Since(NoSince) = DOMAIN vwRows
  OBVIOUS
<1>1. \A i \in DOMAIN vwRows : vwRows[i].at \in Nat
  <2>1. \A i \in DOMAIN vwRows : vwRows[i] \in ViewRows
    BY DEF RowsInv
  <2> QED
    BY <2>1 DEF ViewRows
<1>2. NoSince \in Int /\ NoSince < 0
  BY NoSinceIsInt
<1>3. \A i \in DOMAIN vwRows : vwRows[i].at >= NoSince
  BY <1>1, <1>2
<1> QED
  BY <1>3 DEF Since

\* What is shown up to a limit does not shrink when there is more of it.
LEMMA UpToGrows ==
    ASSUME NEW n \in Nat, NEW m \in Nat, n <= m, NEW limit \in Nat
    PROVE  UpTo(n, limit) <= UpTo(m, limit)
  BY DEF UpTo

\* What a page shows first is borne out by the rows of its later queries.
LEMMA LaterBearsOut ==
    ASSUME ViewsInv, vwReading # <<>>, NEW q \in Ready
    PROVE  BorneOut(q, vwReading[1], QueryResult(q.query))
<1> DEFINE f == vwPage[1]
           first == vwReading[1]
           later == QueryResult(q.query)
           whole == DOMAIN vwRows
           slice == Since(vwSince)
           old == SinceIn(vwRows, From)
<1> USE DEF ViewsInv
<1>1. /\ vwRows \in Seq(ViewRows) /\ whole = 1 .. Len(vwRows) /\ Len(vwRows) \in Nat
      /\ Cardinality(whole) = Len(vwRows)
  BY PartsCounted DEF RowsInv
<1>2. vwPage # <<>> /\ q \in vwPage[2] /\ (q.window = 0 \/ vwSince # NoSince) /\ Follows(f, q)
  BY DEF PageInv, Ready, Asked
<1>3. ReadingOK(vwRows, f.query, ReadFrom, first) /\ (f.query \notin CallQueries => ReadFrom = From)
  BY DEF PageInv, ReadFrom
<1>4. slice = SinceIn(vwRows, vwSince)
  BY DEF Since, SinceIn
<1>5. ASSUME f.query \in WindowQueries, f.window \in Windows, q.query = f.query \/ (f.window = Day /\ ~vwTicked)
      PROVE  /\ slice \in SUBSET DOMAIN vwRows
             /\ Cardinality(old) <= Cardinality(slice) /\ Cardinality(slice) \in Nat
             /\ Cardinality(PricedIn(vwRows, old)) <= Cardinality(PricedIn(vwRows, slice))
             /\ Cardinality(PricedIn(vwRows, slice)) \in Nat
             /\ \A o : Count(vwRows, old, o) <= Count(vwRows, slice, o) /\ Count(vwRows, slice, o) \in Nat
  <2>1. vwSince # NoSince
    BY <1>2, <1>5, PageFacts
  <2>2. vwSince \in Int /\ vwSince <= From
    BY <1>2, <1>5, <2>1, SinceEarlier
  <2>3. From \in Int
    BY <1>2, <1>5, PageFacts
  <2>4. Grown(vwRows, vwRows)
    BY <1>1, SameGrows
  <2>5. slice \in SUBSET DOMAIN vwRows /\ old \in SUBSET (DOMAIN vwRows \cap slice)
    BY <1>4, <2>2, <2>3, <2>4, SinceGrows
  <2> QED
    BY <1>1, <2>4, <2>5, CountsGrow, CountNat DEF Count
<1>6. f.query \in WindowQueries => f.window \in Windows
  BY <1>2, PageFacts
<1>17. ASSUME f.query \in CallQueries
       PROVE  SinceIn(vwRows, ReadFrom) = slice /\ slice \in SUBSET DOMAIN vwRows
  BY <1>4, <1>17 DEF ReadFrom, SinceIn
<1>18. f.query \in WindowQueries => SinceIn(vwRows, ReadFrom) = old
  BY <1>3 DEF WindowQueries, CallQueries
<1> HIDE DEF f, first, later, whole, slice, old
<1>7. ASSUME f.query = "window_total", q.query = "window_total"
      PROVE  first <= later
  <2>1. later = Cardinality(slice) /\ slice \in SUBSET DOMAIN vwRows
    BY <1>1, <1>5, <1>6, <1>7, FunnelAddsUp DEF later, slice, QueryResult, WindowQueries
  <2>2. BoundedBy(first, Cardinality(old))
    BY <1>3, <1>7, <1>18 DEF ReadingOK, WindowQueries
  <2> QED
    BY <1>5, <1>6, <1>7, <2>1, <2>2 DEF BoundedBy, WindowQueries
<1>8. ASSUME f.query = "window_trades", q.query = "window_trades"
      PROVE  \A o \in Outcomes : first[o] <= later[o]
  <2>1. \A o \in Outcomes : later[o] = Count(vwRows, slice, o)
    BY <1>8, QueriesAre DEF later, slice, QueryResult, Count, Outcomes
  <2>2. \A o \in Outcomes : BoundedBy(first[o], Count(vwRows, old, o))
    BY <1>3, <1>8, <1>18 DEF ReadingOK, WindowQueries
  <2> QED
    BY <1>5, <1>6, <1>8, <2>1, <2>2 DEF BoundedBy, WindowQueries
<1>9. ASSUME f.query = "window_priced", q.query = "window_priced"
      PROVE  first <= later
  <2>1. later = Cardinality(PricedIn(vwRows, slice))
    BY <1>9, QueriesAre DEF later, slice, QueryResult
  <2>2. BoundedBy(first, Cardinality(PricedIn(vwRows, old)))
    BY <1>3, <1>9, <1>18 DEF ReadingOK, WindowQueries
  <2> QED
    BY <1>5, <1>6, <1>9, <2>1, <2>2 DEF BoundedBy, WindowQueries
<1>10. ASSUME f.query = "funnel", q.query = "pnl"
       PROVE  /\ first["confirmed"] <= later.successful
              /\ first["reverted"] <= later.reverted
              /\ first["dropped"] <= later.dropped
  <2>1. /\ later.successful = Count(vwRows, whole, "successful") /\ later.reverted = Count(vwRows, whole, "reverted")
        /\ later.dropped = Count(vwRows, whole, "dropped")
    BY <1>10, QueriesAre DEF later, whole, QueryResult, Count
  <2>2. /\ BoundedBy(first["confirmed"], Count(vwRows, whole, "successful"))
        /\ BoundedBy(first["reverted"], Count(vwRows, whole, "reverted"))
        /\ BoundedBy(first["dropped"], Count(vwRows, whole, "dropped"))
    BY <1>3, <1>10 DEF ReadingOK, whole
  <2> QED
    BY <2>1, <2>2 DEF BoundedBy
<1>11. ASSUME f.query = "funnel", q.query \in {"list", "options"}
       PROVE  /\ q.query = "list" => UpTo(Total(first), Limits.list) <= later
              /\ q.query = "options" => UpTo(Total(first), Limits.options) <= later
  <2>1. BoundedBy(Total(first), Len(vwRows))
    BY <1>3, <1>11 DEF ReadingOK
  <2> DEFINE total == Total(first)
  <2>2. \A limit \in Nat : UpTo(total, limit) <= Recent(limit)
    BY <2>1, UpToGrows DEF BoundedBy, Recent
  <2> HIDE DEF total
  <2>3. (q.query = "list" => later = Recent(Limits.list)) /\ (q.query = "options" => later = Recent(Limits.options))
    BY DEF later, QueryResult
  <2> QED
    BY <2>2, <2>3, ViewsAssumption DEF total
<1>12. ASSUME f.query = "metrics", q.query \in {"options", "known"}
       PROVE  /\ q.query = "options" => UpTo(first.detected, Limits.options) <= later
              /\ q.query = "known" => UpTo(first.detected, Limits.known) <= later
  <2>1. BoundedBy(first.detected, Len(vwRows))
    BY <1>3, <1>12 DEF ReadingOK
  <2>2. \A limit \in Nat : UpTo(first.detected, limit) <= Recent(limit)
    BY <2>1, UpToGrows DEF BoundedBy, Recent
  <2>3. (q.query = "options" => later = Recent(Limits.options)) /\ (q.query = "known" => later = Recent(Limits.known))
    BY DEF later, QueryResult
  <2> QED
    BY <2>2, <2>3, ViewsAssumption
<1>13. ASSUME f.query = "window_total", q.query = "pairs", f = At(Day, "window_total"), ~vwTicked
       PROVE  first <= SumFunction([p \in ViewPairs |-> Total(later[p])])
  <2>1. f.window = Day
    BY <1>13 DEF At
  <2>2. slice \in SUBSET DOMAIN vwRows /\ Cardinality(old) <= Cardinality(slice)
    BY <1>5, <1>6, <1>13, <2>1 DEF WindowQueries
  <2>3. later = PairSummaryOf(slice)
    BY <1>13 DEF later, slice, QueryResult
  <2>4. SumFunction([p \in ViewPairs |-> Total(later[p])]) = Cardinality(slice)
    BY <1>1, <2>2, <2>3, SummaryAddsUp
  <2>5. BoundedBy(first, Cardinality(old))
    BY <1>3, <1>13, <1>18 DEF ReadingOK, WindowQueries
  <2>6. Cardinality(slice) \in Nat
    BY <1>1, <2>2, CountNat
  <2> QED
    BY <2>2, <2>4, <2>5, <2>6 DEF BoundedBy
<1>14. ASSUME f.query = "per_pair", q.query = "per_venue"
       PROVE  \A o \in {"total", "successful"} : GroupSum(first, o) <= later[o]
  <2>1. \A o \in {"total", "successful"} : later[o] = Count(vwRows, slice, o)
    BY <1>14, QueriesAre DEF later, slice, QueryResult, PerVenueOf, Count, TradeFigures
  <2>2. \A o \in {"total", "successful"} : BoundedBy(GroupSum(first, o), Count(vwRows, slice, o))
    BY <1>3, <1>14, <1>17 DEF ReadingOK, CallQueries
  <2> QED
    BY <2>1, <2>2 DEF BoundedBy
<1>19. ASSUME f.query \in CallQueries, q.query = "hourly", DOMAIN later = HoursTraded(Since(vwSince))
       PROVE  /\ f.query = "per_pair" => \A o \in {"total", "successful"} : GroupSum(first, o) <= GroupSum(later, o)
              /\ f.query = "per_venue" => \A o \in {"total", "successful"} : first[o] <= GroupSum(later, o)
  <2>1. later = HourlyOf(slice)
    BY <1>19 DEF later, slice, QueryResult
  <2>2. \A o \in {"total", "successful"} : GroupSum(later, o) = Count(vwRows, slice, o)
    <3>1. DOMAIN HourlyOf(slice) = HoursTraded(slice)
      BY <1>19, <2>1 DEF slice
    <3>2. slice \in SUBSET DOMAIN vwRows
      BY <1>17, <1>19
    <3>3. \A o \in TradeFigures : SumFunction([h \in DOMAIN HourlyOf(slice) |-> HourlyOf(slice)[h][o]])
                                   = Cardinality(TradesIn(vwRows, slice, o))
      BY <1>1, <3>1, <3>2, HoursAddUp
    <3> QED
      BY <2>1, <3>3 DEF GroupSum, Count, TradeFigures
  <2>3. /\ f.query = "per_pair" => \A o \in {"total", "successful"} : BoundedBy(GroupSum(first, o), Count(vwRows, slice, o))
        /\ f.query = "per_venue" => \A o \in {"total", "successful"} : BoundedBy(first[o], Count(vwRows, slice, o))
    BY <1>3, <1>17, <1>19 DEF ReadingOK
  <2> QED
    BY <2>2, <2>3 DEF BoundedBy
<1>20. ASSUME f.query = "per_pair", q.query = "realized"
       PROVE  UpTo(GroupSum(first, "successful") + GroupSum(first, "reverted"), Limits.realized) <= later
  <2>1. later = UpTo(Count(vwRows, slice, "included"), Limits.realized)
    BY <1>20, QueriesAre DEF later, slice, QueryResult, Count
  <2>2. BoundedBy(GroupSum(first, "successful") + GroupSum(first, "reverted"), Count(vwRows, slice, "included"))
    BY <1>3, <1>17, <1>20 DEF ReadingOK, CallQueries
  <2> DEFINE landed == GroupSum(first, "successful") + GroupSum(first, "reverted")
  <2>3. Limits.realized \in Nat
    BY ViewsAssumption
  <2> HIDE DEF landed
  <2>4. UpTo(landed, Limits.realized) <= UpTo(Count(vwRows, slice, "included"), Limits.realized)
    BY <2>2, <2>3, UpToGrows DEF BoundedBy, landed
  <2> QED
    BY <2>1, <2>4 DEF landed
<1>15. ASSUME f.query = "opportunity"
       PROVE  /\ q.query = "pricing" => first \in {"detected", "absent"} \/ later # "none"
              /\ q.query = "risk" =>
                   \/ first \in {"detected", "absent"}
                   \/ first = "rejected" /\ later \in RefusalReasons
                   \/ first # "rejected" /\ later = (IF first = "simulation_approved" THEN first ELSE "approved")
              /\ q.query = "simulation" /\ first \in {"simulated", "simulation_failed"} => later = first
              /\ q.query = "attempt" /\ first \in {"submitted", "confirmed", "reverted", "dropped"} => later
  <2>1. StatusGrounded(vwRows, first)
    BY <1>3, <1>15 DEF ReadingOK
  <2>2. CASE first \in {"detected", "absent"}
    BY <2>2
  <2>3. CASE first \notin {"detected", "absent"}
    <3>1. LookUp(1) = vwRows[1]
      BY <1>1, <2>1, <2>3 DEF StatusGrounded, LookUp, whole
    <3>2. /\ q.query = "pricing" => later = vwRows[1].priced
          /\ q.query = "risk" => later = vwRows[1].risk
          /\ q.query = "simulation" => later = vwRows[1].simulation
          /\ q.query = "attempt" => later = vwRows[1].attempt
      BY <3>1 DEF later, QueryResult
    <3> QED
      BY <2>1, <2>3, <3>2 DEF StatusGrounded, Traded
  <2> QED
    BY <2>2, <2>3
<1>16. BorneOut(q, first, later)
  BY <1>7, <1>8, <1>9, <1>10, <1>11, <1>12, <1>13, <1>14, <1>15, <1>19, <1>20
  DEF BorneOut, GroupSum, CallQueries, f
<1> QED
  BY <1>16 DEF first, later

\* At the start there is nothing to see.
LEMMA ViewsInit == VwInit => ViewsInv
<1> SUFFICES ASSUME VwInit PROVE ViewsInv
  OBVIOUS
<1>1. RowsInv
  BY DEF VwInit, RowsInv
<1>2. CountersInv
  <2>1. RefusedOf(vwRows, vwStage) = {}
    BY DEF VwInit, RefusedOf
  <2> QED
    BY <2>1, FS_EmptySet DEF VwInit, CountersInv
<1>3. PageInv
  BY DEF VwInit, PageInv, SinceInv
<1> QED
  BY <1>1, <1>2, <1>3 DEF ViewsInv

\* A page that is followed no further.
LEMMA NoPageKeeps ==
    ASSUME PageInv, NoPage, vwClock' = vwClock
    PROVE  PageInv'
  BY DEF PageInv, NoPage, SinceInv, NoSince

\* The tables grow beside an open page.
LEMMA GrowthKeepsPage ==
    ASSUME PageInv, Grown(vwRows, vwRows'), UNCHANGED <<vwClock, vwPageVars, vwTicked>>
    PROVE  PageInv'
<1>1. /\ vwClock' = vwClock /\ vwPage' = vwPage /\ vwReading' = vwReading /\ vwSince' = vwSince /\ vwTicked' = vwTicked
      /\ Opened' = Opened /\ From' = From /\ ReadFrom' = ReadFrom /\ NoSince' = NoSince
  BY DEF vwPageVars, Opened, From, ReadFrom, NoSince
<1>2. vwReading # <<>> => ReadingOK(vwRows', vwPage[1].query, ReadFrom, vwReading[1])
  <2> SUFFICES ASSUME vwReading # <<>> PROVE ReadingOK(vwRows', vwPage[1].query, ReadFrom, vwReading[1])
    OBVIOUS
  <2>1. ReadingOK(vwRows, vwPage[1].query, ReadFrom, vwReading[1]) /\ vwPage # <<>>
    BY DEF PageInv
  <2>2. vwPage[1].query \in TimedQueries => ReadFrom \in Int
    <3>1. vwSince \in Int
      BY NoSinceIsInt DEF PageInv, SinceInv
    <3>2. vwPage[1].query \in WindowQueries => From \in Int
      BY <2>1, PageFacts
    <3> QED
      BY <3>1, <3>2 DEF TimedQueries, ReadFrom
  <2> QED
    BY <2>1, <2>2, ReadingGrows
<1>3. SinceInv'
  BY <1>1 DEF PageInv, SinceInv
<1> QED
  BY <1>1, <1>2, <1>3 DEF PageInv

\* The clock ticks once in a page at most.
LEMMA TickKeepsPage ==
    ASSUME PageInv, PassTime
    PROVE  PageInv'
<1>1. /\ vwClock \in Nat /\ vwClock' = vwClock + 1 /\ ~vwTicked /\ vwTicked' = (vwPage # <<>>)
      /\ vwRows' = vwRows /\ vwPage' = vwPage /\ vwReading' = vwReading /\ vwSince' = vwSince /\ NoSince' = NoSince
  BY DEF PageInv, PassTime, vwPageVars, vwTables, NoSince
<1>2. CASE vwPage = <<>>
  <2>1. SinceInv'
    BY <1>1, <1>2 DEF PageInv, SinceInv
  <2> QED
    BY <1>1, <1>2, <2>1 DEF PageInv
<1>3. CASE vwPage # <<>>
  <2>1. Opened' = Opened /\ From' = From /\ ReadFrom' = ReadFrom
    <3>1. Opened = vwClock - 0 /\ vwClock - 0 = vwClock
      BY <1>1 DEF Opened
    <3>2. Opened' = Opened
      <4>1. vwTicked'
        BY <1>1, <1>3
      <4>2. Opened' = vwClock' - 1
        BY <4>1 DEF Opened
      <4> QED
        BY <1>1, <3>1, <4>2
    <3> QED
      BY <1>1, <3>2 DEF From, ReadFrom
  <2>2. SinceInv'
    <3> SUFFICES ASSUME vwSince # NoSince
                 PROVE  /\ vwSince \in Int
                        /\ vwReading = <<>> =>
                             /\ vwPage[1].window \in Windows /\ vwSince >= From
                             /\ vwSince <= (vwClock + 1) - WindowLengths[vwPage[1].window]
                        /\ vwReading # <<>> =>
                             \E q \in vwPage[2] : q.window \in Windows /\ vwSince <= (vwClock + 1) - WindowLengths[q.window]
      BY <1>1, <2>1 DEF SinceInv
    <3>1. vwSince \in Int /\ (vwReading = <<>> => vwPage[1].window \in Windows /\ vwSince >= From)
      BY DEF PageInv, SinceInv
    <3>2. ASSUME vwReading # <<>>
          PROVE  \E q \in vwPage[2] : q.window \in Windows /\ vwSince <= (vwClock + 1) - WindowLengths[q.window]
      <4>1. PICK q \in vwPage[2] : q.window \in Windows /\ vwSince <= vwClock - WindowLengths[q.window]
        BY <3>2 DEF PageInv, SinceInv
      <4>2. WindowLengths[q.window] \in Nat
        BY <4>1, WindowsAscend
      <4>3. vwSince <= (vwClock + 1) - WindowLengths[q.window]
        BY <1>1, <3>1, <4>1, <4>2
      <4> QED
        BY <4>1, <4>3
    <3>3. ASSUME vwReading = <<>>
          PROVE  vwSince <= (vwClock + 1) - WindowLengths[vwPage[1].window]
      <4>1. vwPage[1].window \in Windows /\ vwSince <= vwClock - WindowLengths[vwPage[1].window]
        BY <3>3 DEF PageInv, SinceInv
      <4>2. WindowLengths[vwPage[1].window] \in Nat
        BY <4>1, WindowsAscend
      <4> QED
        BY <1>1, <3>1, <4>1, <4>2
    <3> QED
      BY <3>1, <3>2, <3>3
  <2> QED
    BY <1>1, <1>3, <2>1, <2>2 DEF PageInv
<1> QED
  BY <1>2, <1>3

\* A page is opened.
LEMMA OpenKeepsPage ==
    ASSUME ViewsInv, NEW page \in PageQueries, OpenPage(page)
    PROVE  PageInv'
<1>1. /\ vwPage = <<>> /\ vwReading = <<>> /\ vwSince = NoSince /\ vwClock \in Nat /\ ~vwTicked
      /\ vwClock' = vwClock /\ vwTicked' = vwTicked /\ vwRows' = vwRows /\ NoSince' = NoSince
  BY DEF ViewsInv, PageInv, OpenPage, vwTables, NoSince
<1> DEFINE Later(j) == {page[k] : k \in {k \in j + 1 .. Len(page) : <<page[j].query, page[k].query>> \in Comparable}}
<1>2. PICK j \in DOMAIN page :
        /\ Later(j) # {} /\ vwPage' = <<page[j], Later(j)>>
        /\ IF page[j].window = 0
           THEN vwReading' = <<QueryResult(page[j].query)>> /\ vwSince' = vwSince
           ELSE vwSince' = vwClock - WindowLengths[page[j].window] /\ vwReading' = vwReading
  BY DEF OpenPage
<1>3. \A q \in Later(j) : Follows(page[j], q)
  BY PagesFollow
<1> DEFINE f == page[j]
<1>4. vwPage'[1] = f /\ vwPage'[2] = Later(j) /\ vwPage' # <<>>
  BY <1>2
<1>5. /\ f.window \in {0} \cup Windows /\ (f.query \in WindowQueries => f.window \in Windows)
      /\ 0 \notin Windows /\ \A w \in Windows : WindowLengths[w] \in Nat
  <2>1. PICK q \in Later(j) : Follows(f, q)
    BY <1>2, <1>3
  <2> QED
    BY <2>1, WindowsAscend DEF Follows, Windows
<1>6. NoSince \in Int
  BY NoSinceIsInt
<1> HIDE DEF Later, f
<1>7. SinceInv' /\ (vwReading' # <<>> => f.window = 0)
  <2>1. CASE f.window = 0
    BY <1>1, <1>2, <2>1 DEF SinceInv, f
  <2>2. CASE f.window \in Windows
    <3>1. f.window # 0 /\ vwReading' = <<>> /\ vwSince' = vwClock - WindowLengths[f.window] /\ WindowLengths[f.window] \in Nat
      BY <1>1, <1>2, <1>5, <2>2 DEF f
    <3>2. From' = vwClock - WindowLengths[f.window]
      BY <1>1, <1>4 DEF From, Opened
    <3> QED
      BY <1>1, <1>4, <2>2, <3>1, <3>2 DEF SinceInv
  <2> QED
    BY <1>5, <2>1, <2>2
<1>8. vwReading' # <<>> => ReadingOK(vwRows', f.query, ReadFrom', vwReading'[1])
  <2> SUFFICES ASSUME vwReading' # <<>>
               PROVE  ReadingOK(vwRows', f.query, ReadFrom', vwReading'[1])
    OBVIOUS
  <2>1. f.window = 0 /\ vwSince' = vwSince /\ vwReading'[1] = QueryResult(f.query)
    BY <1>2, <1>7 DEF f
  <2>2. f.query \in TimedQueries => ReadFrom' = vwSince
    BY <1>4, <1>5, <2>1 DEF ReadFrom, TimedQueries
  <2>3. ReadingOK(vwRows, f.query, ReadFrom', QueryResult(f.query))
    BY <1>1, <1>6, <2>2, ReadingTrue DEF ViewsInv
  <2> QED
    BY <1>1, <2>1, <2>3
<1>9. vwPage'[2] # {} /\ \A q \in vwPage'[2] : Follows(vwPage'[1], q)
  BY <1>2, <1>3, <1>4 DEF f
<1>10. vwReading' # <<>> => vwPage'[1].window \notin Windows
  BY <1>4, <1>5, <1>7
<1>11. vwReading' # <<>> => ReadingOK(vwRows', vwPage'[1].query, ReadFrom', vwReading'[1])
  BY <1>4, <1>8
<1>12. vwClock' \in Nat /\ vwTicked' \in BOOLEAN /\ vwPage' # <<>>
  <2>1. vwTicked \in BOOLEAN
    BY DEF ViewsInv, PageInv
  <2> QED
    BY <1>1, <1>4, <2>1
<1>13. SinceInv'
  BY <1>7
<1>14. /\ vwPage' = <<>> => vwReading' = <<>> /\ vwSince' = NoSince' /\ ~vwTicked'
       /\ vwReading' # <<>> /\ vwPage'[1].query \in CallQueries /\ vwPage'[1].window \in Windows => vwSince' # NoSince'
  BY <1>10, <1>12
<1> QED
  BY <1>9, <1>11, <1>12, <1>13, <1>14 DEF PageInv

\* A since is computed.
LEMMA SinceKeepsPage ==
    ASSUME PageInv, ComputeSince
    PROVE  PageInv'
<1>1. /\ vwSince = NoSince /\ vwClock \in Nat /\ vwRows' = vwRows /\ vwClock' = vwClock /\ vwPage' = vwPage
      /\ vwReading' = vwReading /\ vwTicked' = vwTicked /\ NoSince' = NoSince
  BY DEF PageInv, ComputeSince, vwTables, NoSince
<1>2. PICK q \in Asked \ Ready : vwSince' = vwClock - WindowLengths[q.window]
  BY DEF ComputeSince
<1>3. vwPage # <<>> /\ q.window # 0 /\ (IF vwReading = <<>> THEN q = vwPage[1] ELSE q \in vwPage[2])
  BY <1>2 DEF Asked, Ready
<1>4. q.window \in Windows
  BY <1>3, PageFacts
<1>5. WindowLengths[q.window] \in Nat /\ vwSince' \in Int
  BY <1>1, <1>2, <1>4, WindowsAscend
<1>6. Opened' = Opened /\ From' = From /\ Opened \in Int /\ Opened <= vwClock
  BY <1>1, <1>3, PageFacts DEF Opened, From
<1>8. ASSUME vwReading # <<>>
      PROVE  ReadFrom' = ReadFrom /\ ~(vwPage[1].query \in CallQueries /\ vwPage[1].window \in Windows)
  <2>1. vwPage[1].window \in Windows
    BY <1>3, <1>4, <1>8, PageFacts
  <2>2. vwPage[1].query \notin CallQueries
    BY <1>1, <1>8, <2>1 DEF PageInv
  <2> QED
    BY <1>1, <1>6, <2>2 DEF ReadFrom
<1>7. SinceInv'
  <2>1. CASE vwReading = <<>>
    <3>1. q = vwPage[1] /\ From = Opened - WindowLengths[q.window]
      BY <1>3, <2>1 DEF From
    <3>2. vwSince' >= From' /\ vwSince' <= vwClock' - WindowLengths[q.window]
      BY <1>1, <1>2, <1>5, <1>6, <3>1
    <3>3. vwPage'[1] = q /\ vwReading' = <<>>
      BY <1>1, <2>1, <3>1
    <3> QED
      BY <1>4, <1>5, <3>2, <3>3 DEF SinceInv
  <2>2. CASE vwReading # <<>>
    <3>1. vwSince' <= vwClock - WindowLengths[q.window]
      BY <1>1, <1>2, <1>5
    <3> QED
      BY <1>1, <1>3, <1>4, <1>5, <2>2, <3>1 DEF SinceInv
  <2> QED
    BY <2>1, <2>2
<1> QED
  BY <1>1, <1>3, <1>7, <1>8 DEF PageInv

\* The page's first query is run.
LEMMA FirstKeepsPage ==
    ASSUME ViewsInv, RunFirst
    PROVE  PageInv'
<1> DEFINE f == vwPage[1]
<1>1. /\ vwReading = <<>> /\ NoSince' = NoSince /\ vwClock \in Nat /\ vwTicked \in BOOLEAN
      /\ vwSince' = IF f.query \in CallQueries THEN vwSince ELSE NoSince
      /\ vwRows' = vwRows /\ vwClock' = vwClock /\ vwPage' = vwPage /\ vwTicked' = vwTicked
  BY DEF ViewsInv, PageInv, RunFirst, vwTables, NoSince, CallQueries
<1>2. PICK q \in Ready : vwReading' = <<QueryResult(q.query)>>
  BY DEF RunFirst
<1>3. vwPage # <<>> /\ q = f /\ (f.window = 0 \/ vwSince # NoSince)
  BY <1>1, <1>2 DEF Ready, Asked
<1>4. From' = From /\ ReadFrom' = IF f.query \in CallQueries THEN vwSince ELSE From
  BY <1>1 DEF From, Opened, ReadFrom
<1>5. vwSince \in Int
  BY NoSinceIsInt DEF ViewsInv, PageInv, SinceInv
<1>6. f.query \in TimedQueries => ReadFrom' \in Int /\ ReadFrom' <= vwSince
  <2>1. CASE f.query \in CallQueries
    BY <1>4, <1>5, <2>1
  <2>2. CASE f.query \in WindowQueries
    <3>1. f.window \in Windows /\ From \in Int /\ f.window # 0
      BY <1>3, <2>2, PageFacts DEF ViewsInv
    <3>2. vwSince >= From
      BY <1>1, <1>3, <3>1 DEF ViewsInv, PageInv, SinceInv
    <3>3. ReadFrom' = From
      BY <1>4, <2>2 DEF WindowQueries, CallQueries
    <3> QED
      BY <1>5, <3>1, <3>2, <3>3
  <2> QED
    BY <2>1, <2>2 DEF TimedQueries
<1>7. ReadingOK(vwRows, f.query, ReadFrom', QueryResult(f.query))
  BY <1>5, <1>6, ReadingTrue DEF ViewsInv
<1>8. vwReading' # <<>> /\ vwReading'[1] = QueryResult(f.query)
  BY <1>2, <1>3
<1>9. SinceInv'
  <2> SUFFICES ASSUME vwSince' # NoSince
               PROVE  vwSince \in Int /\ \E u \in vwPage[2] : u.window \in Windows /\ vwSince <= vwClock - WindowLengths[u.window]
    BY <1>1, <1>8 DEF SinceInv
  <2>1. f.query \in CallQueries /\ vwSince # NoSince
    BY <1>1
  <2>2. f.window \in Windows /\ vwSince <= vwClock - WindowLengths[f.window]
    BY <1>1, <2>1 DEF ViewsInv, PageInv, SinceInv
  <2>3. PICK u \in vwPage[2] : Follows(f, u)
    BY <1>3 DEF ViewsInv, PageInv
  <2>4. f.window # 0 /\ f.query \notin WindowQueries
    BY <1>3, <2>1, <2>2, PageFacts DEF ViewsInv, CallQueries, WindowQueries
  <2>5. u.window = f.window
    BY <2>3, <2>4 DEF Follows, WindowQueries
  <2> QED
    BY <1>5, <2>2, <2>5
<1>10. f.query \in CallQueries /\ f.window \in Windows => vwSince' # NoSince
  BY <1>1, <1>3, PageFacts DEF ViewsInv
<1> QED
  BY <1>1, <1>3, <1>7, <1>8, <1>9, <1>10 DEF ViewsInv, PageInv

\* Every step keeps what is known of a page.
LEMMA ViewsKeep ==
    ASSUME ViewsInv, [VwNext]_vwVars
    PROVE  ViewsInv'
<1>1. RowsInv' /\ CountersInv' /\ (AbortBatch \/ Grown(vwRows, vwRows'))
  BY TablesKeep DEF ViewsInv, PageInv
<1> SUFFICES PageInv'
  BY <1>1 DEF ViewsInv
<1>2. CASE AbortBatch \/ RunLater
  BY <1>2, NoPageKeeps DEF AbortBatch, RunLater, ViewsInv
<1>3. CASE ~AbortBatch /\ UNCHANGED <<vwClock, vwPageVars, vwTicked>>
  BY <1>1, <1>3, GrowthKeepsPage DEF ViewsInv
<1>4. CASE UNCHANGED vwVars
  BY <1>1, <1>2, <1>3, <1>4 DEF vwVars
<1>5. CASE (\E pair \in ViewPairs : Detect(pair)) \/ WriteNext \/ CommitBatch \/ CountDetected \/ CountRejected
  BY <1>1, <1>2, <1>3, <1>5 DEF Detect, WriteNext, CommitBatch, CountDetected, CountRejected
<1>6. CASE PassTime
  BY <1>6, TickKeepsPage DEF ViewsInv
<1>7. CASE \E page \in PageQueries : OpenPage(page)
  BY <1>7, OpenKeepsPage
<1>8. CASE ComputeSince
  BY <1>8, SinceKeepsPage DEF ViewsInv
<1>9. CASE RunFirst
  BY <1>9, FirstKeepsPage
<1> QED
  BY <1>2, <1>4, <1>5, <1>6, <1>7, <1>8, <1>9 DEF VwNext

\* The figures an operator compares fit together: for any pairs, windows and
\* bounds, whatever the pipeline writes and the clock does between two queries.
THEOREM PagesAgreeCorrect == Spec => []PagesAgree
<1>1. Init => ViewsInv
  BY ViewsInit DEF Init
<1>2. ViewsInv /\ [Next]_componentVars => ViewsInv'
  BY ViewsKeep, CountingSteps
<1>3. ViewsInv => PagesAgree
  BY TablesInWords, LaterBearsOut DEF ViewsInv, PagesAgree
<1> QED
  BY <1>1, <1>2, <1>3, PTL DEF Spec
=============================================================================
