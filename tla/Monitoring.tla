------------------------------ MODULE Monitoring ------------------------------
(***************************************************************************)
(* The monitoring page (MonitoringPage.jsx) and the summary behind it      *)
(* (monitoring-service.mjs): four metric queries run in parallel, each can *)
(* fail, and the summary is made of those that did not; the page asks with *)
(* a timeout and keeps what it showed before while it asks again.          *)
(*                                                                         *)
(* A series has a scope and a list of points, some of them null.  Values   *)
(* of the processor and the memory are hundredths of a fraction, 80 for an *)
(* idle share of 0.8: the code takes an average up to 1 for a fraction.    *)
(***************************************************************************)
EXTENDS Integers, Sequences, FiniteSets, ApiErrors

LOCAL INSTANCE SequencesExt

CONSTANTS
    SeriesSets,     \* what a query may return: sequences of series
    Limit,          \* how many rows are kept, 3 in the code
    Null,           \* a point without a value, or an average of none
    MaxRefreshes    \* bound: loads of the page

Metrics == {"cpu", "memory", "latency", "visitors"}

VARIABLES
    query,      \* per metric: "idle", "pending", "failed", or the series
    page,       \* what the page holds
    refreshes   \* loads so far

monitoringVars == <<query, page, refreshes>>

Empty == [status |-> "none", value |-> [m \in Metrics |-> Null], rows |-> [m \in Metrics |-> <<>>]]

MonitoringInit ==
    /\ query = [m \in Metrics |-> [stage |-> "idle", series |-> <<>>]]
    /\ page = [loading |-> TRUE, data |-> Empty, error |-> ""]
    /\ refreshes = 0
-----------------------------------------------------------------------------
Numbers(points) == SelectSeq(points, LAMBDA p : p # Null)

Total(numbers) == FoldSeq(LAMBDA a, b : a + b, 0, numbers)

\* The mean of the numbers, Null if there are none; null is not zero.
Average(numbers) ==
    IF numbers = <<>> THEN Null ELSE Total(numbers) \div Len(numbers)

Percent(raw) == IF raw <= 100 THEN raw * 100 ELSE raw

\* What a row of metric m shows for a series, Null if it has no row: the busy
\* share of a host from the idle or usable one, the mean latency, the sessions.
Value(m, s) ==
    LET numbers == Numbers(s.points)
        mean == Average(numbers)
    IN  CASE m = "visitors" -> IF Total(numbers) > 0 THEN Total(numbers) ELSE Null
          [] m = "latency" -> mean
          [] OTHER -> IF mean = Null THEN Null ELSE 10000 - Percent(mean)

\* The series that have a row, by their places.
Rows(m, series) == {i \in DOMAIN series : Value(m, series[i]) # Null}

\* topCpuHosts, topMemoryHosts, topLatencyResources, topVisitorUsers: the
\* greatest values first, equal ones as the series came, at most Limit rows.
Top(m, series) ==
    LET value(i) == Value(m, series[i])
        ahead(i) == {j \in Rows(m, series) :
                        value(j) > value(i) \/ (value(j) = value(i) /\ j < i)}
        kept == {i \in Rows(m, series) : Cardinality(ahead(i)) < Limit}
        nth(k) == CHOOSE i \in kept : Cardinality(ahead(i)) = k - 1
    IN  [k \in 1..Cardinality(kept) |-> [scope |-> series[nth(k)].scope,
                                         value |-> value(nth(k))]]

AllSessions(series) == Total(FlattenSeq([i \in DOMAIN series |-> Numbers(series[i].points)]))

Available(m) == query[m].stage = "fulfilled"

\* The results: a query that failed counts as one without series.
Result(m) == IF Available(m) THEN query[m].series ELSE <<>>

\* Mutant: the sessions of a query that failed are none.
ZeroSessions(m) ==
    LET top == Top(m, Result(m))
    IN  IF m = "visitors" THEN AllSessions(Result(m))
        ELSE IF top = <<>> THEN Null ELSE top[1].value

\* The number on the card of m, Null for "-".
Headline(m) ==
    LET top == Top(m, Result(m))
    IN  IF m = "visitors" THEN IF Available(m) THEN AllSessions(Result(m)) ELSE Null
        ELSE IF top = <<>> THEN Null ELSE top[1].value

Summary ==
    [status |-> IF \A m \in Metrics : Available(m) THEN "success" ELSE "partial",
     value |-> [m \in Metrics |-> Headline(m)],
     rows |-> [m \in Metrics |-> Top(m, Result(m))]]
-----------------------------------------------------------------------------
\* loadSummary, on entering the page or from its button, which is disabled
\* while it loads: the request starts the four queries; those of a request the
\* page has given up answer to nobody.
LoadSummary ==
    /\ refreshes < MaxRefreshes
    /\ refreshes = 0 \/ ~page.loading
    /\ query' = [m \in Metrics |-> [stage |-> "pending", series |-> <<>>]]
    /\ page' = [page EXCEPT !.loading = TRUE, !.error = ""]
    /\ refreshes' = refreshes + 1

QuerySettles(m) ==
    /\ query[m].stage = "pending"
    /\ \/ query' = [query EXCEPT ![m].stage = "failed"]
       \/ \E s \in SeriesSets : query' = [query EXCEPT ![m] = [stage |-> "fulfilled", series |-> s]]
    /\ UNCHANGED <<page, refreshes>>

AllQueriesSettled == \A m \in Metrics : query[m].stage \in {"fulfilled", "failed"}

ShowSummaryError(error) ==
    /\ page' = [page EXCEPT !.loading = FALSE, !.error = error.code]
    /\ UNCHANGED <<query, refreshes>>

\* Every query is over (Promise.allSettled) and the page gets the summary, or
\* an error if all of them failed.
AnswerSummary ==
    /\ page.loading
    /\ AllQueriesSettled
    /\ IF \E m \in Metrics : Available(m)
       THEN /\ page' = [page EXCEPT !.loading = FALSE, !.data = Summary]
            /\ UNCHANGED <<query, refreshes>>
       ELSE ShowSummaryError(ApiError(SendApiError("monitoring_unavailable")))

\* The page gives up, or the network does; the queries go on for nobody.
SummaryFails ==
    /\ page.loading
    /\ refreshes > 0
    /\ \E error \in {TimedOut, NoNetwork, Unexpected} : ShowSummaryError(error)

MonitoringNext ==
    \/ LoadSummary
    \/ \E m \in Metrics : QuerySettles(m)
    \/ AnswerSummary
    \/ SummaryFails

MonitoringSpec == MonitoringInit /\ [][MonitoringNext]_monitoringVars
-----------------------------------------------------------------------------
\* What just arrived on the page.
Arrives == page.loading /\ ~page'.loading /\ page'.error = ""

\* A metric whose query failed is shown as "-", never as a number, and its
\* list is empty; a page that shows nothing but failures shows an error
\* instead (monitoring-service.mjs:205-214, 239).
FailedIsNotANumber ==
    [][Arrives =>
        /\ \E m \in Metrics : Available(m)
        /\ \A m \in Metrics : ~Available(m) =>
              page'.data.value[m] = Null /\ page'.data.rows[m] = <<>>]_monitoringVars
=============================================================================
