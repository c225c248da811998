------------------------------ MODULE EventLoop ------------------------------
(***************************************************************************)
(* The process of src/run_event_driven.py: the scanner loop in the main    *)
(* thread, the Consumer thread, the bounded queue between them, the        *)
(* operator's runtime controls (src/control_state.py, set by the endpoints *)
(* of src/api/app.py at any moment), and shutdown by a signal, by the      *)
(* iteration limit or by an exception.                                     *)
(*                                                                         *)
(* Quotes carry no prices: a fetch yields the quotes of any venues, and    *)
(* the scanner finds and ranks any opportunities the quotes allow.  What   *)
(* pipeline.process does is in CandidatePipeline; here it ends somehow.    *)
(***************************************************************************)
EXTENDS Naturals, Sequences, FiniteSets, Functions

CONSTANTS
    Venues, Pairs,      \* what the market quotes
    QueueSize,          \* Queue(maxsize=256)
    IterationLimits     \* values of --iterations to consider; 0 is no limit

ASSUME EventLoopAssumption ==
    /\ QueueSize \in Nat \ {0}
    /\ IterationLimits \subseteq Nat

VARIABLES
    loop,       \* where the scanner loop stands
    iterations, \* the iteration limit of this run
    scanCount,  \* iterations begun, if they are limited
    unchecked,  \* quotes fetched and not filtered yet
    quotes,     \* quotes that go into the scanner
    opps,       \* opportunities of this scan not put in the queue yet, best first
    queue,      \* opportunities waiting for the consumer
    consumer,   \* where the consumer thread stands
    item,       \* the opportunity it has taken, or Nothing
    stop,       \* the stop event
    paused,     \* ControlState.paused
    disabled,   \* ControlState.disabled_venues and disabled_pairs
    heldOut,    \* history: venues and pairs disabled ever since the last fetch began
    late        \* history: fetches begun and opportunities taken after stop was set

loopVars == <<loop, iterations, scanCount, unchecked, quotes, opps>>
consumerVars == <<consumer, item>>
controlVars == <<paused, disabled>>
vars == <<loopVars, queue, consumerVars, stop, controlVars, heldOut, late>>

Quotes == [venue : Venues, pair : Pairs]

Routes == {r \in [pair : Pairs, buy : Venues, sell : Venues] : r.buy # r.sell}

Nothing == [pair |-> "none"]

LoopStages ==
    {"top", "gate", "fetch", "filter", "enqueue", "wait", "finally", "join", "exit", "exited"}
ConsumerStages == {"test", "get", "process", "exited", "killed"}

\* The routes the scanner can find among the quotes qs.
RoutesIn(qs) ==
    {r \in Routes : {[venue |-> r.buy, pair |-> r.pair], [venue |-> r.sell, pair |-> r.pair]} \subseteq qs}

\* The lists scan_and_rank can return: some of those routes, in any order.
Rankings(qs) ==
    {s \in UNION {[1..n -> RoutesIn(qs)] : n \in 0..Cardinality(RoutesIn(qs))} : IsInjective(s)}

\* Mutant: pairs are not looked up.
EnabledVenue(q) == q.venue \notin disabled

Enabled(q) == q.venue \notin disabled /\ q.pair \notin disabled

UsedBy(route) == {route.pair, route.buy, route.sell}

Init ==
    /\ loop = "top"
    /\ iterations \in IterationLimits
    /\ scanCount = 0
    /\ unchecked = {} /\ quotes = {} /\ opps = <<>>
    /\ queue = <<>>
    /\ consumer = "test" /\ item = Nothing
    /\ stop = FALSE
    /\ paused = FALSE /\ disabled = {}
    /\ heldOut = {}
    /\ late = [fetches |-> 0, items |-> 0]

-----------------------------------------------------------------------------
(* The scanner loop                                                        *)

\* Mutant: no provision for "no limit".
BeginIterationLimited ==
    /\ loop = "top"
    /\ ~stop
    /\ scanCount < iterations
    /\ scanCount' = IF iterations = 0 THEN 0 ELSE scanCount + 1
    /\ loop' = "gate"
    /\ UNCHANGED <<iterations, unchecked, quotes, opps, queue, consumerVars, stop, controlVars,
                   heldOut, late>>

\* The loop condition holds: a new iteration, counted whether it scans or not.
BeginIteration ==
    /\ loop = "top"
    /\ ~stop
    /\ iterations = 0 \/ scanCount < iterations
    /\ scanCount' = IF iterations = 0 THEN 0 ELSE scanCount + 1
    /\ loop' = "gate"
    /\ UNCHANGED <<iterations, unchecked, quotes, opps, queue, consumerVars, stop, controlVars,
                   heldOut, late>>

LeaveLoop ==
    /\ loop = "top"
    /\ stop \/ (iterations # 0 /\ scanCount >= iterations)
    /\ loop' = "finally"
    /\ UNCHANGED <<iterations, scanCount, unchecked, quotes, opps, queue, consumerVars, stop,
                   controlVars, heldOut, late>>

\* The pause gate, read once per iteration.
PassGate ==
    /\ loop = "gate"
    /\ IF paused
         THEN loop' = "wait" /\ UNCHANGED <<heldOut, late>>
         ELSE /\ loop' = "fetch"
              /\ heldOut' = disabled
              /\ late' = IF stop THEN [late EXCEPT !.fetches = @ + 1] ELSE late
    /\ UNCHANGED <<iterations, scanCount, unchecked, quotes, opps, queue, consumerVars, stop,
                   controlVars>>

\* market.get_quotes() returns; without any disabled venue or pair all quotes
\* go to the scanner unchecked.
Fetch ==
    /\ loop = "fetch"
    /\ \E qs \in SUBSET Quotes :
          IF disabled = {} THEN quotes' = qs /\ unchecked' = {}
                           ELSE quotes' = {} /\ unchecked' = qs
    /\ loop' = "filter"
    /\ UNCHANGED <<iterations, scanCount, opps, queue, consumerVars, stop, controlVars, heldOut, late>>

\* market.get_quotes() raises: an alert, and on to the next iteration.
FetchRaises ==
    /\ loop = "fetch"
    /\ loop' = "wait"
    /\ UNCHANGED <<iterations, scanCount, unchecked, quotes, opps, queue, consumerVars, stop,
                   controlVars, heldOut, late>>

\* One quote is kept if its venue and its pair are enabled at this moment.
FilterQuote(q) ==
    /\ loop = "filter"
    /\ q \in unchecked
    /\ unchecked' = unchecked \ {q}
    /\ quotes' = IF Enabled(q) THEN quotes \cup {q} ELSE quotes
    /\ UNCHANGED <<loop, iterations, scanCount, opps, queue, consumerVars, stop, controlVars,
                   heldOut, late>>

Scan ==
    /\ loop = "filter"
    /\ unchecked = {}
    /\ opps' \in Rankings(quotes)
    /\ quotes' = {}
    /\ loop' = "enqueue"
    /\ UNCHANGED <<iterations, scanCount, unchecked, queue, consumerVars, stop, controlVars,
                   heldOut, late>>

\* Mutant: put() waits for room.
EnqueueBlocking ==
    /\ loop = "enqueue"
    /\ opps # <<>> /\ Len(queue) < QueueSize
    /\ queue' = Append(queue, Head(opps))
    /\ opps' = Tail(opps)
    /\ UNCHANGED <<loop, iterations, scanCount, unchecked, quotes, consumerVars, stop, controlVars,
                   heldOut, late>>

\* put_nowait of the next opportunity; a full queue drops it.
Enqueue ==
    /\ loop = "enqueue"
    /\ opps # <<>>
    /\ queue' = IF Len(queue) < QueueSize THEN Append(queue, Head(opps)) ELSE queue
    /\ opps' = Tail(opps)
    /\ UNCHANGED <<loop, iterations, scanCount, unchecked, quotes, consumerVars, stop, controlVars,
                   heldOut, late>>

\* The scan summary and the adaptive poll controller are updated.
EndScan ==
    /\ loop = "enqueue"
    /\ opps = <<>>
    /\ loop' = "wait"
    /\ UNCHANGED <<iterations, scanCount, unchecked, quotes, opps, queue, consumerVars, stop,
                   controlVars, heldOut, late>>

\* stop.wait() is over: by the stop event, which breaks the loop, or in time.
EndWait ==
    /\ loop = "wait"
    /\ loop' = IF stop THEN "finally" ELSE "top"
    /\ UNCHANGED <<iterations, scanCount, unchecked, quotes, opps, queue, consumerVars, stop,
                   controlVars, heldOut, late>>

\* An exception that the loop does not catch, from the scanner or the latency
\* file, ends it through the same finally block.
LoopRaises ==
    /\ loop \in {"filter", "enqueue"}
    /\ loop' = "finally"
    /\ unchecked' = {} /\ quotes' = {} /\ opps' = <<>>
    /\ UNCHANGED <<iterations, scanCount, queue, consumerVars, stop, controlVars, heldOut, late>>

Finally ==
    /\ loop = "finally"
    /\ stop' = TRUE
    /\ loop' = "join"
    /\ UNCHANGED <<iterations, scanCount, unchecked, quotes, opps, queue, consumerVars, controlVars,
                   heldOut, late>>

\* consumer.join() returns, or gives up after five seconds.
Join ==
    /\ loop = "join"
    /\ loop' = "exit"
    /\ UNCHANGED <<iterations, scanCount, unchecked, quotes, opps, queue, consumerVars, stop,
                   controlVars, heldOut, late>>

\* The main thread ends and with it the process; the consumer is a daemon.
Exit ==
    /\ loop = "exit"
    /\ loop' = "exited"
    /\ consumer' = IF consumer = "exited" THEN "exited" ELSE "killed"
    /\ item' = Nothing
    /\ UNCHANGED <<iterations, scanCount, unchecked, quotes, opps, queue, stop, controlVars,
                   heldOut, late>>

-----------------------------------------------------------------------------
(* The consumer                                                            *)

TestStop ==
    /\ consumer = "test"
    /\ consumer' = IF stop THEN "exited" ELSE "get"
    /\ UNCHANGED <<loopVars, queue, item, stop, controlVars, heldOut, late>>

\* Mutant: the consumer honours the pause too.
TakeUnpaused ==
    /\ consumer = "get"
    /\ queue # <<>> /\ ~paused
    /\ item' = Head(queue)
    /\ queue' = Tail(queue)
    /\ late' = IF stop THEN [late EXCEPT !.items = @ + 1] ELSE late
    /\ consumer' = "process"
    /\ UNCHANGED <<loopVars, stop, controlVars, heldOut>>

\* queue.get(timeout=0.5) returns an opportunity, whatever stop says by now.
Take ==
    /\ consumer = "get"
    /\ queue # <<>>
    /\ item' = Head(queue)
    /\ queue' = Tail(queue)
    /\ late' = IF stop THEN [late EXCEPT !.items = @ + 1] ELSE late
    /\ consumer' = "process"
    /\ UNCHANGED <<loopVars, stop, controlVars, heldOut>>

GetTimesOut ==
    /\ consumer = "get"
    /\ queue = <<>>
    /\ consumer' = "test"
    /\ UNCHANGED <<loopVars, queue, item, stop, controlVars, heldOut, late>>

\* Mutants: the stop event is not tested between two opportunities; an
\* opportunity that failed is put back.
EndProcessAndGet ==
    /\ consumer = "process"
    /\ consumer' = "get"
    /\ item' = Nothing
    /\ UNCHANGED <<loopVars, queue, stop, controlVars, heldOut, late>>
EndProcessRequeueing ==
    /\ consumer = "process"
    /\ consumer' = "test"
    /\ item' = Nothing
    /\ queue' \in {queue} \cup (IF Len(queue) < QueueSize THEN {Append(queue, item)} ELSE {})
    /\ UNCHANGED <<loopVars, stop, controlVars, heldOut, late>>

\* pipeline.process returns, and metrics and the latency file are told; or one
\* of them raises, which is logged. Either way that was it for this opportunity.
EndProcess ==
    /\ consumer = "process"
    /\ consumer' = "test"
    /\ item' = Nothing
    /\ UNCHANGED <<loopVars, queue, stop, controlVars, heldOut, late>>

-----------------------------------------------------------------------------
(* The operator                                                            *)

\* SIGTERM or SIGINT.
Signal ==
    /\ loop # "exited"
    /\ ~stop
    /\ stop' = TRUE
    /\ UNCHANGED <<loopVars, queue, consumerVars, controlVars, heldOut, late>>

\* /scanner/pause and /scanner/resume.
TogglePause ==
    /\ loop # "exited"
    /\ paused' = ~paused
    /\ UNCHANGED <<loopVars, queue, consumerVars, stop, disabled, heldOut, late>>

\* /venues/{venue}/disable and /pairs/{pair}/disable.
Disable(x) ==
    /\ loop # "exited"
    /\ disabled' = disabled \cup {x}
    /\ UNCHANGED <<loopVars, queue, consumerVars, stop, paused, heldOut, late>>

\* /venues/{venue}/enable and /pairs/{pair}/enable.
Enable(x) ==
    /\ loop # "exited"
    /\ disabled' = disabled \ {x}
    /\ heldOut' = heldOut \ {x}
    /\ UNCHANGED <<loopVars, queue, consumerVars, stop, paused, late>>

-----------------------------------------------------------------------------

LoopStep ==
    \/ BeginIteration \/ LeaveLoop \/ PassGate \/ Fetch
    \/ \E q \in Quotes : FilterQuote(q)
    \/ Scan \/ Enqueue \/ EndScan \/ EndWait \/ Finally \/ Join \/ Exit

LoopFault == FetchRaises \/ LoopRaises

ConsumerStep == TestStop \/ Take \/ GetTimesOut \/ EndProcess

Operator ==
    \/ Signal \/ TogglePause
    \/ \E x \in Venues \cup Pairs : Disable(x) \/ Enable(x)

Next == LoopStep \/ LoopFault \/ ConsumerStep \/ Operator

Spec == Init /\ [][Next]_vars

\* Both threads run: every wait and every call of theirs is bounded by a
\* timeout. Nothing is assumed of exceptions and of the operator.
FairSpec == Spec /\ WF_vars(LoopStep) /\ WF_vars(ConsumerStep)

-----------------------------------------------------------------------------
(* Properties                                                              *)

\* Every variable holds a value of its type; the queue never exceeds its size.
LoopTypeOK ==
    /\ loop \in LoopStages
    /\ iterations \in IterationLimits
    /\ scanCount \in 0..iterations
    /\ unchecked \subseteq Quotes /\ quotes \subseteq Quotes
    /\ opps \in Seq(Routes)
    /\ queue \in Seq(Routes) /\ Len(queue) <= QueueSize
    /\ consumer \in ConsumerStages
    /\ item \in Routes \cup {Nothing}
    /\ {stop, paused} \subseteq BOOLEAN
    /\ disabled \subseteq Venues \cup Pairs
    /\ heldOut \subseteq disabled
    /\ late \in [fetches : Nat, items : Nat]

\* Once stop is set, the process begins at most one more fetch and takes at most
\* one more opportunity, those that either thread had already decided on.
StopBoundsWork == late.fetches <= 1 /\ late.items <= 1

\* No opportunity enters the queue that needs a venue or a pair the operator
\* has kept disabled since before its quotes were fetched, on either side.
DisabledNeverQueued ==
    [][\A i \in DOMAIN queue' :
         Len(queue') > Len(queue) /\ i = Len(queue') => UsedBy(queue'[i]) \cap heldOut = {}]_vars

\* A signal, or any other way to set stop, ends both threads.
StopEnds == stop ~> (loop = "exited" /\ consumer \in {"exited", "killed"})

PauseTakesEffect ==
    <>[]paused => <>[](loop \notin {"fetch", "filter", "enqueue"} /\ consumer # "process")

DisableTakesEffect ==
    \A x \in Venues \cup Pairs :
        <>[](x \in disabled) => <>[](item # Nothing => x \notin UsedBy(item))

\* An operator who pauses the scanner and leaves it paused sees it come to
\* rest: no fetch, no scan and, the queue being worked off, no processing. One
\* who disables a venue for good sees the last opportunity on it processed.
ControlsTakeEffect == PauseTakesEffect /\ DisableTakesEffect

\* Resumed and not stopped, the loop goes on scanning for ever.
ScansResume == <>[](~paused /\ ~stop) => iterations # 0 \/ []<>(loop = "fetch")

\* What is in the queue is taken, unless the process is stopped first.
QueueServed == (queue # <<>>) ~> (consumer = "process" \/ stop)

\* The process does not exit with opportunities in its queue.
DrainedAtExit == loop = "exited" => queue = <<>>
=============================================================================
