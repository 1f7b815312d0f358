------------------------------- MODULE Report -------------------------------
(***************************************************************************)
(* Period reports.  BuildDaily reduces the events of a day to a summary,   *)
(* Rollup combines the summaries of a period, Build does both from the     *)
(* events.  A caller may also keep summaries and roll those up, for any    *)
(* period and long after, while the log of events has grown.               *)
(*                                                                         *)
(* An event has a type, time, source ("provider/product") with a version,  *)
(* confidence, collection mode, session and model (Missing when empty), a  *)
(* flag (a tool that failed, a commit that was assisted) and attrs, which  *)
(* maps the numeric attributes it has to integers.  A model's name is the  *)
(* sequence of its parts.  Attributes are named as the metrics they add    *)
(* to.  A metric is <<view, of, name>>, view being "combined", "source" or *)
(* "model".                                                                *)
(***************************************************************************)
EXTENDS EventFiles, FiniteSetsExt, Functions

Seqs == INSTANCE SequencesExt

CONSTANTS
  Occurrences,  \* the events that may happen
  Prices,       \* the pricing table: for each model and token count, a price
  Boundaries,   \* the parts of model names that begin with "[", or "-" and a digit
  Periods,      \* the periods reports are asked for
  MaxEvents     \* bound on the length of the log

Days == {DayOf(e.time) : e \in Occurrences}

ASSUME OccurrencesAssumption ==
  \A e \in Occurrences :
    /\ e.time \in Nat \ {ZeroTime} /\ e.confidence \in Nat
    /\ \A n \in DOMAIN e.attrs : e.attrs[n] \in Int
ASSUME PeriodsAssumption == \A p \in Periods : p.start \in Nat /\ p.end \in Nat
ASSUME MaxEventsAssumption == MaxEvents \in Nat

VARIABLES
  log,          \* the stored events; Build takes them in any order
  cache,        \* the summaries a caller keeps: at most one of each day
  report        \* the latest report with what it was asked, or NoReport

vars == <<log, cache, report>>

-----------------------------------------------------------------------------
(* What one event adds (metricDeltas, add, addByModel).                    *)

CountedAs ==
  [prompt |-> "prompts", message |-> "messages", tool |-> "tool_calls",
   patch |-> "patches_applied", task |-> "tasks", commit |-> "commits"]

FlaggedAs == [tool |-> "tool_calls_failed", commit |-> "ai_assisted_commits"]

Tokens == {"input_tokens", "output_tokens", "cache_read_tokens", "cache_creation_tokens"}
TokenMetrics == Tokens \cup {"reasoning_tokens", "total_tokens"}

AmountsOf(type) ==
  CASE type \in {"message", "usage"} -> TokenMetrics
    [] type = "commit" -> {"insertions", "deletions", "files_changed"}
    [] type = "contribution" -> {"contributions"}
    [] OTHER -> {}

ASSUME PricesAssumption ==
  /\ IsFiniteSet(DOMAIN Prices)
  /\ \A p \in DOMAIN Prices : \A token \in Tokens : Prices[p][token] \in Int

\* A count that is missing or negative counts as none.
TokenCount(e, token) == IF token \in DOMAIN e.attrs /\ e.attrs[token] > 0 THEN e.attrs[token] ELSE 0

IsValidSuffix(suffix) == suffix = <<>> \/ suffix[1] \in Boundaries

\* The entry for a model, if there is one: the longest name it begins with.
LookupPricing(model) ==
  LET rest(p) == SubSeq(model, Len(p) + 1, Len(model))
      entries == {p \in DOMAIN Prices : Seqs!IsPrefix(p, model) /\ IsValidSuffix(rest(p))}
  IN {p \in entries : \A q \in entries : Len(q) <= Len(p)}

EstimateCost(p, e) == SumFunction([token \in Tokens |-> Prices[p][token] * TokenCount(e, token)])

Estimate(e) ==
  IF e.model = Missing THEN 0
  ELSE SumFunction([p \in LookupPricing(e.model) |-> EstimateCost(p, e)])

Nothing == <<>>
Just(name, value) == [n \in {name} |-> value]

\* A name that a map does not have counts as zero.
At(f, n) == IF n \in DOMAIN f THEN f[n] ELSE 0

\* Adds up the values of each name in f and g, or in all maps of fs.
f ++ g == [n \in DOMAIN f \cup DOMAIN g |-> At(f, n) + At(g, n)]

Totals(fs) ==
  [n \in UNION {DOMAIN fs[x] : x \in DOMAIN fs} |-> SumFunction([x \in DOMAIN fs |-> At(fs[x], n)])]

\* The cost it states, else an estimate, if there is one.
Cost(e) ==
  IF "cost_usd" \in DOMAIN e.attrs THEN Just("cost_usd", e.attrs["cost_usd"])
  ELSE IF Estimate(e) > 0 THEN [n \in {"cost_usd", "cost_usd_estimated"} |-> Estimate(e)]
  ELSE Nothing

\* Counts each event once, and what it carries; amounts may be negative.
MetricDeltas == [e \in Occurrences |->
  (IF e.type \in DOMAIN CountedAs THEN Just(CountedAs[e.type], 1) ELSE Nothing)
  ++ (IF e.flag /\ e.type \in DOMAIN FlaggedAs THEN Just(FlaggedAs[e.type], 1) ELSE Nothing)
  ++ [n \in AmountsOf(e.type) \cap DOMAIN e.attrs |-> e.attrs[n]]
  ++ Cost(e)]

ModelMetrics == TokenMetrics \cup {"messages", "cost_usd", "cost_usd_estimated"}

Views(e, name) ==
  {<<"combined", Missing, name>>, <<"source", e.source, name>>}
  \cup (IF e.model # Missing /\ name \in ModelMetrics THEN {<<"model", e.model, name>>} ELSE {})

Added == [e \in Occurrences |->
  [m \in UNION {Views(e, n) : n \in DOMAIN MetricDeltas[e]} |-> MetricDeltas[e][m[3]]]]

-----------------------------------------------------------------------------
(* One day.                                                                *)

IsSnapshot(e) == e.type = "snapshot"

\* session: the start or the end of one, or of a task.
IsSessionScoped(e) ==
  e.type \in {"session", "prompt", "message", "tool", "patch", "task", "usage"}

\* What a source contributed with the events at indices S: the first to show
\* up names its version.
Observed(events, S) ==
  [version |-> events[Min(S)].version,
   count |-> Cardinality(S),
   modes |-> {events[n].mode : n \in S},
   confidence |-> Min({events[n].confidence : n \in S})]

OnDay(events, day) == {n \in DOMAIN events : DayOf(events[n].time) = day}

\* Takes in the midnight that ends the day.
UpToMidnight(events, day) ==
  {n \in DOMAIN events : events[n].time >= day * DayTicks /\ events[n].time <= (day + 1) * DayTicks}

\* The events a summary of day is made of.
Summarized(events, day) == OnDay(events, day)

\* Leaves snapshots out of the coverage of their source.
BuildDailyWithoutSnapshots(events, day) ==
  LET all == Summarized(events, day)
      S == {n \in all : ~IsSnapshot(events[n])}
  IN [date |-> day * DayTicks,
      totals |-> Totals([n \in S |-> Added[events[n]]]),
      snapshots |-> Cardinality(all \ S),
      sessions |-> {<<events[n].source, events[n].session>> :
                      n \in {k \in S : events[k].session # Missing /\ IsSessionScoped(events[k])}},
      sources |-> [s \in {events[n].source : n \in S} |->
                     Observed(events, {n \in S : events[n].source = s})]]

BuildDaily(events, day) ==
  LET all == Summarized(events, day)
      S == {n \in all : ~IsSnapshot(events[n])}
  IN [date |-> day * DayTicks,
      totals |-> Totals([n \in S |-> Added[events[n]]]),
      snapshots |-> Cardinality(all \ S),
      sessions |-> {<<events[n].source, events[n].session>> :
                      n \in {k \in S : events[k].session # Missing /\ IsSessionScoped(events[k])}},
      sources |-> [s \in {events[n].source : n \in all} |->
                     Observed(events, {n \in all : events[n].source = s})]]

-----------------------------------------------------------------------------
(* Many days.                                                              *)

\* Merges what the days of ds at indices S say of a source; the confidence of
\* the last one stays.
MergeLast(ds, S, s) ==
  [version |-> ds[Min(S)].sources[s].version,
   count |-> SumFunction([i \in S |-> ds[i].sources[s].count]),
   modes |-> UNION {ds[i].sources[s].modes : i \in S},
   confidence |-> ds[Max(S)].sources[s].confidence]

Merge(ds, S, s) ==
  [version |-> ds[Min(S)].sources[s].version,
   count |-> SumFunction([i \in S |-> ds[i].sources[s].count]),
   modes |-> UNION {ds[i].sources[s].modes : i \in S},
   confidence |-> Min({ds[i].sources[s].confidence : i \in S})]

\* The sessions of the days at indices S are counted once, however many days
\* they span.
SessionCounts(ds, S) ==
  LET sessions == UNION {ds[i].sessions : i \in S}
  IN (IF sessions = {} THEN Nothing
      ELSE Just(<<"combined", Missing, "sessions">>, Cardinality({x[2] : x \in sessions})))
     ++ [m \in {<<"source", x[1], "sessions">> : x \in sessions} |->
            Cardinality({x \in sessions : x[1] = m[2]})]

\* Days the period touches, 0 for an open one.
ExpectedDays(p) ==
  IF p.start = ZeroTime \/ p.end = ZeroTime THEN 0
  ELSE Cardinality({d \in DayOf(p.start) .. DayOf(p.end) : d * DayTicks < p.end})

Coverage(days, p) ==
  IF ExpectedDays(p) = 0 THEN <<0, 0>>
  ELSE <<Min({days, ExpectedDays(p)}), ExpectedDays(p)>>

\* Tasks are not in combinedMetricKeys.
Reported(metrics) == {m \in metrics : ~(m[1] = "combined" /\ m[3] = "tasks")}

MergeAll(ds, S) ==
  [s \in UNION {DOMAIN ds[i].sources : i \in S} |-> Merge(ds, {i \in S : s \in DOMAIN ds[i].sources}, s)]

\* Summaries of days outside the period do not count.
Dated(ds, p) == {i \in DOMAIN ds : Contains(p, ds[i].date)}

Rollup(ds, p) ==
  LET S == Dated(ds, p)
      totals == Totals([i \in S |-> ds[i].totals]) ++ SessionCounts(ds, S)
      sources == MergeAll(ds, S)
      least == Min({sources[s].confidence : s \in DOMAIN sources})
  IN [values |-> [m \in Reported(DOMAIN totals) |-> totals[m]],
      confidence |-> [m \in Reported(DOMAIN totals) |->
                        IF m[1] = "source" THEN sources[m[2]].confidence ELSE least],
      sources |-> sources,
      coverage |-> Coverage(Cardinality(S), p),
      snapshots |-> SumFunction([i \in S |-> ds[i].snapshots])]

Within(events, p) == {n \in DOMAIN events : Contains(p, events[n].time)}

\* The events of the period on a day.
Bucket(events, p, day) ==
  Restrict(events, {n \in Within(events, p) : DayOf(events[n].time) = day})

\* The days with events, in the random order of the map.
Build(events, p, order) ==
  Rollup([i \in DOMAIN order |-> BuildDaily(Bucket(events, p, order[i]), order[i])], p)

DaysWithin(events, p) == {DayOf(events[n].time) : n \in Within(events, p)}

Orders(S) == Bijection(1 .. Cardinality(S), S)

-----------------------------------------------------------------------------
NoReport == [by |-> "none"]

CachedDays == DOMAIN cache

Init ==
  /\ log = <<>>
  /\ cache = Nothing
  /\ report = NoReport

\* Another event is stored; a report made before is not looked at any more.
Store(e) ==
  /\ Len(log) < MaxEvents
  /\ log' = Append(log, e)
  /\ report' = NoReport
  /\ UNCHANGED cache

\* The caller summarizes a day, from all the events there are, and keeps that.
Summarize(d) ==
  /\ cache' = [c \in CachedDays \cup {d} |-> IF c = d THEN BuildDaily(log, d) ELSE cache[c]]
  /\ report' = NoReport
  /\ UNCHANGED log

BuildReport(p) ==
  /\ \E order \in Orders(DaysWithin(log, p)) :
       report' = [by |-> "build", period |-> p, is |-> Build(log, p, order)]
  /\ UNCHANGED <<log, cache>>

\* Rolls up every summary there is, in any order.
RollUp(p) ==
  /\ \E order \in Orders(CachedDays) :
       report' = [by |-> "rollup", period |-> p,
                  is |-> Rollup([i \in DOMAIN order |-> cache[order[i]]], p)]
  /\ UNCHANGED <<log, cache>>

Next ==
  \/ \E e \in Occurrences : Store(e)
  \/ \E d \in Days : Summarize(d)
  \/ \E p \in Periods : BuildReport(p) \/ RollUp(p)

Spec == Init /\ [][Next]_vars

-----------------------------------------------------------------------------
Aligned(p) == p.start % DayTicks = 0 /\ p.end % DayTicks = 0

\* The events stored for the period of the report.
Asked == Within(log, report.period)

AskedDays == DaysWithin(log, report.period)

\* The cache has every day of the period that has events, as they are now.
UpToDate == \A d \in AskedDays : d \in CachedDays /\ cache[d] = BuildDaily(log, d)

Value(m) == At(report.is.values, m)

Amount(e, name) == At(MetricDeltas[e], name)

\* The sum of a metric over the events at indices S, snapshots aside.
Sum(S, name) ==
  SumFunction([n \in {k \in S : ~IsSnapshot(log[k])} |-> Amount(log[n], name)])

SessionsOf(S) ==
  {log[n].session : n \in {k \in S : log[k].session # Missing /\ IsSessionScoped(log[k])}}

Names == {"tasks"} \cup UNION {DOMAIN MetricDeltas[e] : e \in Occurrences}
Sources == {e.source : e \in Occurrences}
Models == {e.model : e \in Occurrences} \ {Missing}

TypeOK ==
  /\ log \in Seq(Occurrences) /\ Len(log) <= MaxEvents
  /\ CachedDays \subseteq Days
  /\ \A d \in CachedDays :
       /\ cache[d].date = d * DayTicks
       /\ \A m \in DOMAIN cache[d].totals : m[1] = "source" => m[2] \in DOMAIN cache[d].sources
       /\ \A x \in cache[d].sessions : x[1] \in DOMAIN cache[d].sources
       /\ cache[d].snapshots <=
            SumFunction([s \in DOMAIN cache[d].sources |-> cache[d].sources[s].count])
  /\ report # NoReport => report.is.coverage[1] <= report.is.coverage[2]

\* A report of whole days, made from the events or from summaries that are up to
\* date, says what the events of the period add up to: every event counts once, and a session
\* once, "a session spanning midnight must be deduplicated by ID at rollup time,
\* not double-counted per day"; summaries outside the period do not count.
ReportsAreExact ==
  (report # NoReport /\ Aligned(report.period) /\ (report.by = "rollup" => UpToDate)) =>
    LET from(s) == {n \in Asked : log[n].source = s}
        with(m) == {n \in Asked : log[n].model = m}
    IN /\ \A name \in Names \ {"tasks"} : Value(<<"combined", Missing, name>>) = Sum(Asked, name)
       /\ \A name \in Names, s \in Sources : Value(<<"source", s, name>>) = Sum(from(s), name)
       /\ \A name \in ModelMetrics, m \in Models : Value(<<"model", m, name>>) = Sum(with(m), name)
       /\ Value(<<"combined", Missing, "sessions">>) = Cardinality(SessionsOf(Asked))
       /\ \A s \in Sources : Value(<<"source", s, "sessions">>) = Cardinality(SessionsOf(from(s)))
       /\ \A s \in DOMAIN report.is.sources : report.is.sources[s].count = Cardinality(from(s))

Unversioned(sources) == [s \in DOMAIN sources |-> [sources[s] EXCEPT !.version = Missing]]

\* "The same path a caller replaying cached DailySummary artifacts would take":
\* summaries that are up to date, each of a day with events, give
\* the report Build gives, coverage and confidence included, whatever other days the
\* caller passes along and in whatever order. Only the version of a source may
\* differ.
ReplaysMatch ==
  (report # NoReport /\ report.by = "rollup" /\ Aligned(report.period) /\ UpToDate
    /\ \A d \in CachedDays : Contains(report.period, d * DayTicks) => d \in AskedDays) =>
    \A order \in Orders(AskedDays) :
      LET built == Build(log, report.period, order)
      IN [report.is EXCEPT !.sources = Unversioned(@)] = [built EXCEPT !.sources = Unversioned(@)]

-----------------------------------------------------------------------------
(* What the documentation says and the code does not do.                   *)

\* "Build reduces events into a DeveloperPeriodReport for one subject and period":
\* the events of the period count, wherever in a day it starts.
EventsInPeriodCount ==
  (report # NoReport /\ report.by = "build") =>
    SumFunction([s \in DOMAIN report.is.sources |-> report.is.sources[s].count]) = Cardinality(Asked)

=============================================================================
