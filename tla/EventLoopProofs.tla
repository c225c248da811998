--------------------------- MODULE EventLoopProofs ---------------------------
(***************************************************************************)
(* Proofs about EventLoop for any venues, pairs, queue size and iteration  *)
(* limits.                                                                 *)
(*                                                                         *)
(* The invariant LoopInv adds two things to the types.  LateWork says from *)
(* where a thread that worked after stop was set cannot start again: the   *)
(* loop is past its gate, the consumer past its get.  ScanData says what   *)
(* the scanner loop carries at each stage, and that neither the quotes nor *)
(* the opportunities it carries need anything that has been disabled ever  *)
(* since before the fetch.                                                 *)
(***************************************************************************)
EXTENDS EventLoop, TLAPS

LateWork ==
    /\ late.fetches \in {0, 1} /\ late.items \in {0, 1}
    /\ ~stop => late.fetches = 0 /\ late.items = 0
    /\ late.fetches = 1 => loop # "gate"
    /\ late.items = 1 => consumer # "get"

ScanData ==
    /\ loop # "filter" => quotes = {} /\ unchecked = {}
    /\ loop # "enqueue" => opps = <<>>
    /\ \A q \in quotes : q.venue \notin heldOut /\ q.pair \notin heldOut
    /\ \A i \in 1..Len(opps) : UsedBy(opps[i]) \cap heldOut = {}

LoopInv == LoopTypeOK /\ LateWork /\ ScanData

-----------------------------------------------------------------------------
(* Sequences                                                               *)

\* The first element of a sequence that is not empty, and the rest of it.
LEMMA HeadTailFacts ==
    ASSUME NEW S, NEW s \in Seq(S), s # <<>>
    PROVE  /\ Head(s) \in S /\ Head(s) = s[1] /\ 1 \in 1..Len(s)
           /\ Tail(s) \in Seq(S) /\ Len(Tail(s)) = Len(s) - 1
           /\ \A i \in 1..Len(Tail(s)) : i + 1 \in 1..Len(s) /\ Tail(s)[i] = s[i + 1]
  OBVIOUS

\* A sequence with an element appended.
LEMMA AppendFacts ==
    ASSUME NEW S, NEW s \in Seq(S), NEW e \in S
    PROVE  /\ Append(s, e) \in Seq(S) /\ Len(Append(s, e)) = Len(s) + 1
           /\ Append(s, e)[Len(s) + 1] = e
           /\ \A i \in 1..Len(s) : Append(s, e)[i] = s[i]
  OBVIOUS

\* What scan_and_rank returns is a sequence of routes that the quotes allow.
LEMMA RankingFacts ==
    ASSUME NEW qs, NEW s \in Rankings(qs)
    PROVE  s \in Seq(Routes) /\ \A i \in 1..Len(s) : s[i] \in RoutesIn(qs)
<1>1. PICK n \in 0..Cardinality(RoutesIn(qs)) : s \in [1..n -> RoutesIn(qs)]
  BY DEF Rankings
<1>2. n \in Nat
  BY <1>1
<1>3. s \in Seq(RoutesIn(qs))
  BY <1>1, <1>2
<1>4. RoutesIn(qs) \subseteq Routes
  BY DEF RoutesIn
<1> QED
  BY <1>3, <1>4

-----------------------------------------------------------------------------
(* The invariant                                                           *)

\* The process starts with empty hands and stop not set.
LEMMA LoopInit == Init => LoopInv
<1> SUFFICES ASSUME Init PROVE LoopInv
  OBVIOUS
<1>1. scanCount \in 0..iterations /\ Len(queue) <= QueueSize
  BY EventLoopAssumption DEF Init
<1>2. {stop, paused} \subseteq BOOLEAN /\ late \in [fetches : Nat, items : Nat]
  BY DEF Init
<1>3. opps \in Seq(Routes) /\ queue \in Seq(Routes)
  BY DEF Init
<1>4. LoopTypeOK
  BY <1>1, <1>2, <1>3 DEF Init, LoopTypeOK, LoopStages, ConsumerStages
<1>5. LateWork /\ ScanData
  BY DEF Init, LateWork, ScanData
<1> QED
  BY <1>4, <1>5 DEF LoopInv

\* The scanner loop keeps the invariant.
LEMMA LoopKeepsInv == LoopInv /\ (LoopStep \/ LoopFault) => LoopInv'
<1> SUFFICES ASSUME LoopInv, LoopStep \/ LoopFault PROVE LoopInv'
  OBVIOUS
<1> USE DEF LoopInv, LoopStages
<1>1. CASE BeginIteration
  <2>1. scanCount' \in 0..iterations
    BY <1>1, EventLoopAssumption DEF BeginIteration, LoopTypeOK
  <2> QED
    BY <1>1, <2>1 DEF BeginIteration, LoopTypeOK, LateWork, ScanData, consumerVars, controlVars
<1>2. CASE LeaveLoop
  BY <1>2 DEF LeaveLoop, LoopTypeOK, LateWork, ScanData, consumerVars, controlVars
<1>3. CASE PassGate
  <2>1. CASE paused
    BY <1>3, <2>1 DEF PassGate, LoopTypeOK, LateWork, ScanData, consumerVars, controlVars
  <2>2. CASE ~paused
    <3>1. /\ loop = "gate" /\ loop' = "fetch" /\ heldOut' = disabled
          /\ late' = IF stop THEN [late EXCEPT !.fetches = @ + 1] ELSE late
          /\ UNCHANGED <<iterations, scanCount, unchecked, quotes, opps, queue, consumer, item,
                         stop, paused, disabled>>
      BY <1>3, <2>2 DEF PassGate, consumerVars, controlVars
    <3>2. late.fetches = 0
      BY <3>1 DEF LateWork
    <3>3. late' \in [fetches : Nat, items : Nat] /\ LateWork'
      BY <3>1, <3>2 DEF LateWork, LoopTypeOK
    <3>4. LoopTypeOK'
      BY <3>1, <3>3 DEF LoopTypeOK
    <3>5. ScanData'
      BY <3>1 DEF ScanData
    <3> QED
      BY <3>3, <3>4, <3>5
  <2> QED
    BY <2>1, <2>2
<1>4. CASE Fetch
  <2>1. ScanData'
    <3>1. PICK qs \in SUBSET Quotes :
             IF disabled = {} THEN quotes' = qs /\ unchecked' = {}
                              ELSE quotes' = {} /\ unchecked' = qs
      BY <1>4 DEF Fetch
    <3>2. quotes' = {} \/ heldOut' = {}
      BY <1>4, <3>1 DEF Fetch, LoopTypeOK
    <3> QED
      BY <1>4, <3>2 DEF Fetch, ScanData
  <2> QED
    BY <1>4, <2>1 DEF Fetch, LoopTypeOK, LateWork, consumerVars, controlVars
<1>5. ASSUME NEW q \in Quotes, FilterQuote(q)  PROVE LoopInv'
  <2>1. Enabled(q) => q.venue \notin heldOut /\ q.pair \notin heldOut
    BY DEF Enabled, LoopTypeOK
  <2> QED
    BY <1>5, <2>1 DEF FilterQuote, LoopTypeOK, LateWork, ScanData, consumerVars, controlVars
<1>6. CASE Scan
  <2>1. opps' \in Seq(Routes) /\ \A i \in 1..Len(opps') : opps'[i] \in RoutesIn(quotes)
    BY <1>6, RankingFacts DEF Scan
  <2>2. ASSUME NEW r \in RoutesIn(quotes)  PROVE UsedBy(r) \cap heldOut = {}
    <3> DEFINE bought == [venue |-> r.buy, pair |-> r.pair]
               sold == [venue |-> r.sell, pair |-> r.pair]
    <3>1. bought \in quotes /\ sold \in quotes
      BY DEF RoutesIn
    <3>2. r.buy \notin heldOut /\ r.pair \notin heldOut
      BY <3>1 DEF ScanData
    <3>3. r.sell \notin heldOut
      BY <3>1 DEF ScanData
    <3> QED
      BY <3>2, <3>3 DEF UsedBy
  <2>3. ScanData'
    BY <1>6, <2>1, <2>2 DEF Scan, ScanData
  <2> QED
    BY <1>6, <2>1, <2>3 DEF Scan, LoopTypeOK, LateWork, consumerVars, controlVars
<1>7. CASE Enqueue
  <2>1. opps \in Seq(Routes) /\ opps # <<>> /\ opps' = Tail(opps)
    BY <1>7 DEF Enqueue, LoopTypeOK
  <2>2. /\ Head(opps) \in Routes /\ opps' \in Seq(Routes)
        /\ \A i \in 1..Len(opps') : i + 1 \in 1..Len(opps) /\ opps'[i] = opps[i + 1]
    BY <2>1, HeadTailFacts
  <2>3. queue' \in Seq(Routes) /\ Len(queue') <= QueueSize
    <3>1. CASE Len(queue) < QueueSize
      <4>1. queue' = Append(queue, Head(opps))
        BY <1>7, <3>1 DEF Enqueue
      <4>2. queue' \in Seq(Routes) /\ Len(queue') = Len(queue) + 1 /\ Len(queue) \in Nat
        BY <2>2, <4>1, AppendFacts DEF LoopTypeOK
      <4> QED
        BY <3>1, <4>2, EventLoopAssumption
    <3>2. CASE ~(Len(queue) < QueueSize)
      BY <1>7, <3>2 DEF Enqueue, LoopTypeOK
    <3> QED
      BY <3>1, <3>2
  <2>4. ScanData'
    BY <1>7, <2>2 DEF Enqueue, ScanData
  <2> QED
    BY <1>7, <2>2, <2>3, <2>4 DEF Enqueue, LoopTypeOK, LateWork, consumerVars, controlVars
<1>8. CASE EndScan
  BY <1>8 DEF EndScan, LoopTypeOK, LateWork, ScanData, consumerVars, controlVars
<1>9. CASE EndWait
  BY <1>9 DEF EndWait, LoopTypeOK, LateWork, ScanData, consumerVars, controlVars
<1>10. CASE Finally
  BY <1>10 DEF Finally, LoopTypeOK, LateWork, ScanData, consumerVars, controlVars
<1>11. CASE Join
  BY <1>11 DEF Join, LoopTypeOK, LateWork, ScanData, consumerVars, controlVars
<1>12. CASE Exit
  BY <1>12 DEF Exit, LoopTypeOK, LateWork, ScanData, ConsumerStages, controlVars
<1>13. CASE FetchRaises
  BY <1>13 DEF FetchRaises, LoopTypeOK, LateWork, ScanData, consumerVars, controlVars
<1>14. CASE LoopRaises
  BY <1>14 DEF LoopRaises, LoopTypeOK, LateWork, ScanData, consumerVars, controlVars
<1> QED
  BY <1>1, <1>2, <1>3, <1>4, <1>5, <1>6, <1>7, <1>8, <1>9, <1>10, <1>11, <1>12, <1>13, <1>14
     DEF LoopStep, LoopFault

\* The consumer thread keeps the invariant.
LEMMA ConsumerKeepsInv == LoopInv /\ ConsumerStep => LoopInv'
<1> SUFFICES ASSUME LoopInv, ConsumerStep PROVE LoopInv'
  OBVIOUS
<1> USE DEF LoopInv, ConsumerStages, loopVars, controlVars
<1>1. CASE TestStop
  BY <1>1 DEF TestStop, LoopTypeOK, LateWork, ScanData
<1>2. CASE Take
  <2>1. /\ Head(queue) \in Routes /\ Tail(queue) \in Seq(Routes)
        /\ Len(Tail(queue)) = Len(queue) - 1 /\ Len(queue) \in Nat
    BY <1>2, HeadTailFacts DEF Take, LoopTypeOK
  <2>2. late.items = 0
    BY <1>2 DEF Take, LateWork
  <2>3. late' \in [fetches : Nat, items : Nat] /\ LateWork'
    BY <1>2, <2>2 DEF Take, LateWork, LoopTypeOK
  <2>4. LoopTypeOK'
    BY <1>2, <2>1, <2>3, EventLoopAssumption DEF Take, LoopTypeOK
  <2>5. ScanData'
    BY <1>2 DEF Take, ScanData
  <2> QED
    BY <2>3, <2>4, <2>5
<1>3. CASE GetTimesOut
  BY <1>3 DEF GetTimesOut, LoopTypeOK, LateWork, ScanData
<1>4. CASE EndProcess
  BY <1>4 DEF EndProcess, LoopTypeOK, LateWork, ScanData
<1> QED
  BY <1>1, <1>2, <1>3, <1>4 DEF ConsumerStep

\* The operator keeps the invariant.
LEMMA OperatorKeepsInv == LoopInv /\ Operator => LoopInv'
<1> SUFFICES ASSUME LoopInv, Operator PROVE LoopInv'
  OBVIOUS
<1> USE DEF LoopInv, loopVars, consumerVars
<1>1. CASE Signal
  BY <1>1 DEF Signal, LoopTypeOK, LateWork, ScanData, controlVars
<1>2. CASE TogglePause
  BY <1>2 DEF TogglePause, LoopTypeOK, LateWork, ScanData
<1>3. ASSUME NEW x \in Venues \cup Pairs, Disable(x)  PROVE LoopInv'
  BY <1>3 DEF Disable, LoopTypeOK, LateWork, ScanData
<1>4. ASSUME NEW x \in Venues \cup Pairs, Enable(x)  PROVE LoopInv'
  BY <1>4 DEF Enable, LoopTypeOK, LateWork, ScanData
<1> QED
  BY <1>1, <1>2, <1>3, <1>4 DEF Operator

-----------------------------------------------------------------------------
(* The theorems                                                            *)

\* In every behaviour of the event loop the inductive invariant holds.
THEOREM LoopInvCorrect == Spec => []LoopInv
<1>1. LoopInv /\ UNCHANGED vars => LoopInv'
  BY DEF LoopInv, LoopTypeOK, LateWork, ScanData, vars, loopVars, consumerVars, controlVars
<1> QED
  BY <1>1, LoopInit, LoopKeepsInv, ConsumerKeepsInv, OperatorKeepsInv, PTL DEF Spec, Next

\* Every variable holds a value of its type; the queue never exceeds its size.
THEOREM LoopTypeCorrect == Spec => []LoopTypeOK
  BY LoopInvCorrect, PTL DEF LoopInv

\* However the threads interleave with the one who sets stop, at most one more
\* fetch begins and at most one more opportunity is taken.
THEOREM StopBoundsWorkCorrect == Spec => []StopBoundsWork
<1>1. LoopInv => StopBoundsWork
  BY DEF LoopInv, LateWork, StopBoundsWork
<1> QED
  BY <1>1, LoopInvCorrect, PTL

\* No opportunity enters the queue that needs a venue or a pair disabled ever
\* since before its quotes were fetched.
THEOREM DisabledNeverQueuedCorrect == Spec => DisabledNeverQueued
<1> DEFINE Lawful ==
      \A i \in DOMAIN queue' :
         Len(queue') > Len(queue) /\ i = Len(queue') => UsedBy(queue'[i]) \cap heldOut = {}
<1>1. LoopInv /\ [Next]_vars => [Lawful]_vars
  <2> SUFFICES ASSUME LoopInv, Next, Len(queue') > Len(queue)
               PROVE  UsedBy(queue'[Len(queue')]) \cap heldOut = {}
    OBVIOUS
  <2>1. queue \in Seq(Routes) /\ opps \in Seq(Routes) /\ Len(queue) \in Nat
    BY DEF LoopInv, LoopTypeOK
  <2>2. queue' # queue /\ ~Take
    BY <2>1, HeadTailFacts DEF Take
  <2>3. Enqueue
    BY <2>2 DEF Next, LoopStep, LoopFault, ConsumerStep, Operator, BeginIteration, LeaveLoop,
           PassGate, Fetch, FilterQuote, Scan, EndScan, EndWait, Finally, Join, Exit, FetchRaises,
           LoopRaises, TestStop, GetTimesOut, EndProcess, Signal, TogglePause, Disable, Enable
  <2>4. queue' = Append(queue, opps[1]) /\ opps[1] \in Routes /\ 1 \in 1..Len(opps)
    BY <2>1, <2>2, <2>3, HeadTailFacts DEF Enqueue
  <2>5. queue'[Len(queue')] = opps[1]
    BY <2>1, <2>4, AppendFacts
  <2> QED
    BY <2>4, <2>5 DEF LoopInv, ScanData
<1> QED
  BY <1>1, LoopInvCorrect, PTL DEF Spec, DisabledNeverQueued
=============================================================================
