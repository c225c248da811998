--------------------------- MODULE OperatorViews ---------------------------
(***************************************************************************)
(* What an operator sees: pages of several queries (src/api/app.py,        *)
(* src/dashboards/, src/observability/time_windows.py) over the rows of    *)
(* the pipeline (src/pipeline/lifecycle.py, src/persistence/repository.py) *)
(* and the counters of the consumer (src/observability/metrics.py).        *)
(*                                                                         *)
(* run_event_driven.py gives the API the repository the consumer writes    *)
(* to, hence one connection: a page reads the rows of the open batch, of a *)
(* candidate that may yet be rolled back, and the pipeline goes on between *)
(* two queries of a page.  Amounts are left out, but whether a candidate   *)
(* promises a profit; counts are kept.                                     *)
(*                                                                         *)
(* A query changes nothing, so that what two queries of a page show does   *)
(* not depend on the others: a behaviour follows two queries of each page. *)
(***************************************************************************)
EXTENDS Integers, Sequences, SequencesExt, FiniteSets, FiniteSetsExt

CONSTANTS
    ViewPairs,  \* the pairs candidates are of
    WindowLengths, \* WINDOWS, as lengths in ascending order; the last is the dashboard's day
    LossesPass, \* min_profit_base is 0: a candidate may pass the rules that promises no profit
    RefusalReasons, \* reason codes of a refusal; fewer than the 20 their query lists
    Limits,     \* LIMITs: rows of the list, of the pair options and of the known pairs
                \* (100, 20 of which are shown; 200; 500), of realized trades (50), hours (168)
    HourLength, \* an hour in ticks
    MaxRows,    \* bound: candidates
    MaxClock    \* bound: ticks; one tick is less than two windows differ by

ASSUME ViewsAssumption ==
    /\ WindowLengths \in Seq(Nat)
    /\ \A i \in DOMAIN WindowLengths : i > 1 => WindowLengths[i - 1] < WindowLengths[i]
    /\ Limits \in [list : Nat, options : Nat, known : Nat, realized : Nat, hours : Nat]
    /\ HourLength \in Nat \ {0}
    /\ LossesPass \in BOOLEAN
    /\ IsFiniteSet(RefusalReasons)
    /\ {"none", "approved", "simulation_approved"} \cap RefusalReasons = {}
    /\ IsFiniteSet(ViewPairs) /\ MaxRows \in Nat /\ MaxClock \in Nat

VARIABLES
    vwRows,     \* the rows as the shared connection shows them, in order of detection
    vwStage,    \* where the consumer is
    vwCounted,  \* opportunities_detected, opportunities_rejected
    vwClock,
    vwPage,     \* of the page being rendered: a query, and later ones comparable with it
    vwReading,  \* the answer the first one got
    vwSince,    \* the since computed for the next one
    vwTicked    \* history: the clock ticked during this page

vwTables == <<vwRows, vwStage, vwCounted>>
vwPageVars == <<vwPage, vwReading, vwSince>>
vwVars == <<vwTables, vwClock, vwPageVars, vwTicked>>

Statuses == {"detected", "rejected", "simulation_approved", "approved", "simulated", "simulation_failed",
             "submitted", "confirmed", "reverted", "dropped", "dry_run"}

NoSince == IF WindowLengths = <<>> THEN -1 ELSE -1 - Last(WindowLengths)    \* before any since

VwInit ==
    /\ vwRows = <<>>
    /\ vwStage = "idle"
    /\ vwCounted = [detected |-> 0, rejected |-> 0]
    /\ vwClock = 0
    /\ vwPage = <<>>
    /\ vwReading = <<>>
    /\ vwSince = NoSince
    /\ vwTicked = FALSE

\* No page is followed.
NoPage == vwPage' = <<>> /\ vwReading' = <<>> /\ vwSince' = NoSince /\ vwTicked' = FALSE

-----------------------------------------------------------------------------
(* The consumer                                                            *)

\* A row of opportunities with its rows in the other tables: the price by the sign
\* of its profit, the decision by its reason code where it refuses, the simulation
\* by outcome, the trade result as the set of its flags that are 1.
NewRow(pair) ==
    [at |-> vwClock, pair |-> pair, status |-> "detected", priced |-> "none", risk |-> "none",
     simulation |-> "none", attempt |-> FALSE, results |-> {}]

TradeResults == {{"included"}, {"included", "reverted"}, {"dropped"}, {}}

FinalStatus(result) ==
    IF "reverted" \in result THEN "reverted"
    ELSE IF "included" \in result THEN "confirmed"
    ELSE IF "dropped" \in result THEN "dropped" ELSE "submitted"

Price(row) == {[row EXCEPT !.priced = profit] : profit \in {"gain", "loss"}}

Decide(row) ==
    LET passes == IF row.priced = "loss" /\ ~LossesPass THEN {} ELSE {"approved", "simulation_approved"}
    IN  {[row EXCEPT !.risk = verdict] : verdict \in passes \cup RefusalReasons}

\* on_rejected keeps simulation_approved as a status, and makes any other refusal
\* "rejected".
Judgement(risk) == IF risk \in RefusalReasons THEN "rejected" ELSE risk

\* After the approval, or the simulation where there is a simulator.
SubmitOrNot(row) == {[row EXCEPT !.attempt = TRUE], [row EXCEPT !.status = "dry_run"]}

\* The statement _process_inner executes next, as the rows it may lead to.
NextRows(row) ==
    CASE row.priced = "none" -> Price(row)
      [] row.priced # "none" /\ row.risk = "none" -> Decide(row)
      [] row.risk # "none" /\ row.status = "detected" -> {[row EXCEPT !.status = Judgement(row.risk)]}
      [] row.status = "approved" /\ row.simulation = "none" /\ ~row.attempt ->
            {[row EXCEPT !.simulation = outcome] : outcome \in {"simulated", "simulation_failed"}} \cup SubmitOrNot(row)
      [] row.status = "approved" /\ row.simulation # "none" /\ ~row.attempt -> {[row EXCEPT !.status = row.simulation]}
      [] row.status = "simulated" /\ ~row.attempt -> SubmitOrNot(row)
      [] row.status \in {"approved", "simulated"} /\ row.attempt -> {[row EXCEPT !.status = "submitted"]}
      [] row.status = "submitted" /\ row.results = {} ->
            {[row EXCEPT !.results = {result}] : result \in TradeResults}
      [] row.status = "submitted" /\ row.results # {} ->
            {[row EXCEPT !.status = FinalStatus(result)] : result \in row.results} \ {row}
      [] OTHER -> {}

\* Without a verifier a submitted candidate is left at that.
Finished(row) ==
    \/ NextRows(row) = {}
    \/ row.status = "submitted" /\ row.results = {}

Detect(pair) ==
    /\ vwStage = "idle"
    /\ Len(vwRows) < MaxRows
    /\ vwRows = <<>> => pair = CHOOSE p \in ViewPairs : TRUE    \* pairs are interchangeable
    /\ vwStage' = "batch"
    /\ vwRows' = Append(vwRows, NewRow(pair))
    /\ UNCHANGED <<vwCounted, vwClock, vwPageVars, vwTicked>>

WriteNext ==
    /\ vwStage = "batch"
    /\ \E row \in NextRows(Last(vwRows)) : vwRows' = Append(Front(vwRows), row)
    /\ UNCHANGED <<vwStage, vwCounted, vwClock, vwPageVars, vwTicked>>

CommitBatch ==
    /\ vwStage = "batch"
    /\ Finished(Last(vwRows))
    /\ vwStage' = "committed"
    /\ UNCHANGED <<vwRows, vwCounted, vwClock, vwPageVars, vwTicked>>

\* A statement, the submitter or the verifier raises. A page may have counted the
\* candidate that is rolled back, and is followed no further.
AbortBatch ==
    /\ vwStage = "batch"
    /\ vwStage' = "idle"
    /\ vwRows' = Front(vwRows)
    /\ NoPage
    /\ UNCHANGED <<vwCounted, vwClock>>

\* The consumer counts what process returned, in two calls.
CountDetected ==
    /\ vwStage = "committed"
    /\ vwCounted' = [vwCounted EXCEPT !.detected = @ + 1]
    /\ vwStage' = IF Last(vwRows).status = "rejected" THEN "counted" ELSE "idle"
    /\ UNCHANGED <<vwRows, vwClock, vwPageVars, vwTicked>>

CountRejected ==
    /\ vwStage = "counted"
    /\ vwCounted' = [vwCounted EXCEPT !.rejected = @ + 1]
    /\ vwStage' = "idle"
    /\ UNCHANGED <<vwRows, vwClock, vwPageVars, vwTicked>>

\* A page takes less time than a tick, so at most one tick falls into it.
PassTime ==
    /\ vwClock < MaxClock
    /\ ~vwTicked
    /\ vwClock' = vwClock + 1
    /\ vwTicked' = (vwPage # <<>>)
    /\ UNCHANGED <<vwTables, vwPageVars>>

-----------------------------------------------------------------------------
(* The queries                                                             *)

Since(since) == {i \in DOMAIN vwRows : vwRows[i].at >= since}

\* get_opportunity_funnel, and the first query of get_windowed_stats.
FunnelOf(rows) == [s \in Statuses |-> Cardinality({i \in rows : vwRows[i].status = s})]

\* Mutant: a trade that landed counts as a success.
SuccessfulIfIncluded(result) == "included" \in result

Successful(result) == "included" \in result /\ "reverted" \notin result

\* get_pnl_summary, get_execution_stats, and the second query of a window.
TradesOf(rows) ==
    LET With(P(_)) == Cardinality({i \in rows : \E result \in vwRows[i].results : P(result)})
    IN [total |-> With(LAMBDA r : TRUE),
        successful |-> With(Successful),
        reverted |-> With(LAMBDA r : "reverted" \in r),
        dropped |-> With(LAMBDA r : "dropped" \in r)]

\* The third query of a window: the candidates that promised a profit.
PricedOf(rows) == Cardinality({i \in rows : vwRows[i].priced = "gain"})

OfPair(rows, pair) == {i \in rows : vwRows[i].pair = pair}

\* The four queries of get_pnl_analytics: trades per pair, per route (the routes
\* are left out, of their counts the sums are kept) and per hour, the newest hours
\* first up to a LIMIT, and the refusals per reason.
PerPairOf(rows) == [p \in ViewPairs |-> TradesOf(OfPair(rows, p))]

PerVenueOf(rows) == TradesOf(rows)

OfHour(rows, hour) == {i \in rows : vwRows[i].at \div HourLength = hour}

HoursTraded(rows) == {vwRows[i].at \div HourLength : i \in {i \in rows : vwRows[i].results # {}}}

HoursOf(rows) == {h \in HoursTraded(rows) : Cardinality({k \in HoursTraded(rows) : k > h}) < Limits.hours}

HourlyOf(rows) == [h \in HoursOf(rows) |-> TradesOf(OfHour(rows, h))]

ReasonsOf(rows) ==
    [r \in {"simulation_approved"} \cup RefusalReasons |-> Cardinality({i \in rows : vwRows[i].risk = r})]

PairSummaryOf(rows) == [p \in ViewPairs |-> FunnelOf(OfPair(rows, p))]

\* A query of rows with a LIMIT, and how many it shows.
UpTo(n, limit) == IF n < limit THEN n ELSE limit

\* get_recent_opportunities, with the limit of its caller.
Recent(limit) == UpTo(Len(vwRows), limit)

\* get_expected_vs_realized joins the trade results that were included.
ExpectedVsRealized(rows) ==
    UpTo(Cardinality({i \in rows : \E result \in vwRows[i].results : "included" \in result}), Limits.realized)

\* get_opportunity and the four look-ups by its id; none of them finds anything
\* when the row is gone.
Absent == [status |-> "absent", priced |-> "none", risk |-> "none", simulation |-> "none", attempt |-> FALSE]

LookUp(id) == IF id \in DOMAIN vwRows THEN vwRows[id] ELSE Absent

\* A query by name, over the rows since vwSince where it has a since.
QueryResult(query) ==
    CASE query = "funnel" -> FunnelOf(DOMAIN vwRows)
      [] query = "pnl" -> TradesOf(DOMAIN vwRows)
      [] query = "list" -> Recent(Limits.list)
      [] query = "options" -> Recent(Limits.options)
      [] query = "known" -> Recent(Limits.known)
      [] query = "metrics" -> vwCounted
      [] query = "window_total" -> SumFunction(FunnelOf(Since(vwSince)))
      [] query = "window_trades" -> TradesOf(Since(vwSince))
      [] query = "window_priced" -> PricedOf(Since(vwSince))
      [] query = "per_pair" -> PerPairOf(Since(vwSince))
      [] query = "per_venue" -> PerVenueOf(Since(vwSince))
      [] query = "hourly" -> HourlyOf(Since(vwSince))
      [] query = "reasons" -> ReasonsOf(Since(vwSince))
      [] query = "pairs" -> PairSummaryOf(Since(vwSince))
      [] query = "realized" -> ExpectedVsRealized(Since(vwSince))
      [] query = "opportunity" -> LookUp(1).status
      [] query = "pricing" -> LookUp(1).priced
      [] query = "risk" -> LookUp(1).risk
      [] query = "simulation" -> LookUp(1).simulation
      [] query = "attempt" -> LookUp(1).attempt

-----------------------------------------------------------------------------
(* The pages                                                               *)

At(w, query) == [window |-> w, query |-> query]
Whole(query) == At(0, query)        \* a query without a since
Day == Len(WindowLengths)

\* get_windowed_stats for each window in turn.
AllWindows ==
    LET queries == <<"window_total", "window_trades", "window_priced">>
    IN  [k \in 1 .. 3 * Day |-> At((k + 2) \div 3, queries[((k + 2) % 3) + 1])]

\* The queries of one get_pnl_analytics, all with the since its caller computed.
Analytics(w) == <<At(w, "per_pair"), At(w, "per_venue"), At(w, "hourly"), At(w, "reasons")>>

\* The queries of each page in the order of its handler: /dashboard, /ops,
\* /analytics and /opportunity/{id}; /windows and /opportunities/{id}/full ask
\* what the first and the last of them ask.
PageQueries ==
    {<<Whole("funnel"), Whole("pnl"), Whole("list"), Whole("metrics"), Whole("options")>> \o Analytics(Day)
        \o AllWindows \o <<At(Day, "pairs")>>,
     <<At(Day, "window_trades"), Whole("metrics"), Whole("known"), Whole("known")>>,
     Analytics(0) \o <<Whole("known"), Whole("realized")>>,
     <<Whole("opportunity"), Whole("pricing"), Whole("risk"), Whole("simulation"), Whole("attempt")>>}

\* The queries whose figures an operator holds against each other.
Comparable ==
    {<<"funnel", "pnl">>, <<"funnel", "list">>, <<"funnel", "options">>, <<"metrics", "options">>,
     <<"metrics", "known">>, <<"window_total", "pairs">>, <<"per_pair", "per_venue">>, <<"per_pair", "hourly">>,
     <<"per_venue", "hourly">>, <<"per_pair", "realized">>}
    \cup {<<q, q>> : q \in {"window_total", "window_trades", "window_priced"}}
    \cup {<<"opportunity", q>> : q \in {"pricing", "risk", "simulation", "attempt"}}

\* A page is followed from its first query on, or from the since computed for it.
OpenPage(page) ==
    /\ vwPage = <<>>
    /\ \E j \in DOMAIN page :
        LET first == page[j]
            Later == {page[k] : k \in {k \in j + 1 .. Len(page) : <<first.query, page[k].query>> \in Comparable}}
        IN /\ Later # {}
           /\ vwPage' = <<first, Later>>
           /\ IF first.window = 0
              THEN vwReading' = <<QueryResult(first.query)>> /\ UNCHANGED vwSince
              ELSE vwSince' = vwClock - WindowLengths[first.window] /\ UNCHANGED vwReading
    /\ UNCHANGED <<vwTables, vwClock, vwTicked>>

\* The queries that come next, and those among them that can be run: the since
\* of a window is computed before its queries.
Asked == IF vwPage = <<>> THEN {} ELSE IF vwReading = <<>> THEN {vwPage[1]} ELSE vwPage[2]
Ready == {q \in Asked : q.window = 0 \/ vwSince # NoSince}

\* _since: the clock's time less the window's length.
ComputeSince ==
    /\ vwSince = NoSince
    /\ \E q \in Asked \ Ready : vwSince' = vwClock - WindowLengths[q.window]
    /\ UNCHANGED <<vwTables, vwClock, vwPage, vwReading, vwTicked>>

\* The analytics go on with the since they have.
RunFirst ==
    /\ vwReading = <<>>
    /\ \E q \in Ready : vwReading' = <<QueryResult(q.query)>>
    /\ vwSince' = IF vwPage[1].query \in {"per_pair", "per_venue"} THEN vwSince ELSE NoSince
    /\ UNCHANGED <<vwTables, vwClock, vwPage, vwTicked>>

\* After a later query the page goes to the browser.
RunLater ==
    /\ vwReading # <<>>
    /\ Ready # {}
    /\ NoPage
    /\ UNCHANGED <<vwTables, vwClock>>

VwNext ==
    \/ \E pair \in ViewPairs : Detect(pair)
    \/ WriteNext \/ CommitBatch \/ AbortBatch \/ CountDetected \/ CountRejected
    \/ PassTime
    \/ \E page \in PageQueries : OpenPage(page)
    \/ ComputeSince \/ RunFirst \/ RunLater

-----------------------------------------------------------------------------

Total(funnel) == SumFunction(funnel)
Outcomes == {"successful", "reverted", "dropped"}

\* At any instant no trade counts twice, and between two candidates the status
\* column and the tables of decisions and trade results tell the same; the
\* counters never run ahead of the rows.
TablesAgree ==
    /\ vwCounted.detected <= Len(vwRows)
    /\ vwCounted.rejected <= FunnelOf(DOMAIN vwRows)["rejected"]
    /\ \A since \in {vwRows[i].at : i \in DOMAIN vwRows} :
        LET rows == Since(since)
            funnel == FunnelOf(rows)
            trades == TradesOf(rows)
            reasons == ReasonsOf(rows)
        IN /\ trades.successful + trades.reverted + trades.dropped <= trades.total
           /\ vwStage # "batch" =>
                /\ trades.successful = funnel["confirmed"]
                /\ trades.reverted = funnel["reverted"]
                /\ trades.dropped = funnel["dropped"]
                /\ reasons["simulation_approved"] = funnel["simulation_approved"]
                /\ SumFunction([r \in RefusalReasons |-> reasons[r]]) = funnel["rejected"]

\* What a page shows first is borne out by what it shows after that: a longer
\* window does not show less, totals hold what they are made of, a table shows
\* what was counted unless it is cut at its limit, and the rows behind an
\* opportunity's status are there when they are asked for.
BorneOut(q, first, later) ==
    LET Is(q1, q2) == vwPage[1].query = q1 /\ q.query = q2
        SameQuery(w) == Is(w, w)
        Sum(groups, o) == SumFunction([g \in DOMAIN groups |-> groups[g][o]])
        uncut == DOMAIN later = HoursTraded(Since(vwSince))
    IN /\ SameQuery("window_total") => first <= later
       /\ SameQuery("window_trades") => \A o \in Outcomes : first[o] <= later[o]
       /\ SameQuery("window_priced") => first <= later
       /\ Is("funnel", "pnl") =>
            /\ first["confirmed"] <= later.successful
            /\ first["reverted"] <= later.reverted
            /\ first["dropped"] <= later.dropped
       /\ Is("funnel", "list") => UpTo(Total(first), Limits.list) <= later
       /\ Is("funnel", "options") => UpTo(Total(first), Limits.options) <= later
       /\ Is("metrics", "options") => UpTo(first.detected, Limits.options) <= later
       /\ Is("metrics", "known") => UpTo(first.detected, Limits.known) <= later
       /\ Is("window_total", "pairs") /\ vwPage[1] = At(Day, "window_total") /\ ~vwTicked =>
            first <= SumFunction([p \in ViewPairs |-> Total(later[p])])
       /\ Is("per_pair", "per_venue") => \A o \in {"total", "successful"} : Sum(first, o) <= later[o]
       /\ Is("per_pair", "hourly") /\ uncut =>
            \A o \in {"total", "successful"} : Sum(first, o) <= Sum(later, o)
       /\ Is("per_venue", "hourly") /\ uncut =>
            \A o \in {"total", "successful"} : first[o] <= Sum(later, o)
       /\ Is("per_pair", "realized") =>
            UpTo(Sum(first, "successful") + Sum(first, "reverted"), Limits.realized) <= later
       /\ Is("opportunity", "pricing") => first \in {"detected", "absent"} \/ later # "none"
       /\ Is("opportunity", "risk") =>
            \/ first \in {"detected", "absent"}
            \/ first = "rejected" /\ later \in RefusalReasons
            \/ first # "rejected" /\ later = (IF first = "simulation_approved" THEN first ELSE "approved")
       /\ Is("opportunity", "simulation") /\ first \in {"simulated", "simulation_failed"} => later = first
       /\ Is("opportunity", "attempt") /\ first \in {"submitted", "confirmed", "reverted", "dropped"} => later

\* The figures an operator compares fit together, between the tables and on one
\* page, whatever the pipeline does meanwhile, unless a candidate was rolled
\* back that the page may have counted already.
PagesAgree ==
    /\ TablesAgree
    /\ vwReading # <<>> => \A q \in Ready : BorneOut(q, vwReading[1], QueryResult(q.query))
=============================================================================
