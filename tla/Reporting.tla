------------------------------ MODULE Reporting ----------------------------
(***************************************************************************)
(* The latency gate (apps/api/observability/metrics.py), fed from the rows *)
(* calls leave (routers/dashboard.py, latency_metrics), beside the median  *)
(* the dashboard's header takes from Postgres (metrics) and the failure    *)
(* streak of the live call (domain/state.py).                              *)
(*                                                                         *)
(* Samples are a bag: a query returns its rows in any order. Milliseconds  *)
(* are whole; percentiles are in hundredths, so that ranks are exact.      *)
(***************************************************************************)
EXTENDS Integers, Sequences, FiniteSetsExt

CONSTANTS
  Latencies,         \* turns.latency_ms
  Cutoffs, Discards, \* of a barge_in event's payload
  MaxRows,           \* bound on rows, where one that is not a turn
  OtherWeight        \* counts as so many

ASSUME RepAssumption ==
  \A S \in {Latencies, Cutoffs, Discards} : S \subseteq Nat /\ IsFiniteSet(S)

VARIABLES
  turns,      \* latency -> number of turns
  bargeIns,   \* payload -> number of events
  tools,      \* the tool_invocations of a call, in order
  streak      \* its state.consecutive_tool_failures

repVars == <<turns, bargeIns, tools, streak>>

NoValue == -1        \* a key that is absent or not a number
Payloads == [cutoff_ms : Cutoffs \union {NoValue}, discarded_ms : Discards \union {NoValue}]
Statuses == {"ok", "not_found", "unavailable", "denied"}

RepInit ==
  /\ turns = [v \in Latencies |-> 0]
  /\ bargeIns = [p \in Payloads |-> 0]
  /\ tools = <<>>
  /\ streak = 0

----------------------------------------------------------------------------
(* metrics.py                                                                *)

Count(bag) == SumFunction(bag)
Observed(bag) == {v \in DOMAIN bag : bag[v] > 0}
UpTo(bag, v) == SumFunctionOnSet(bag, {w \in DOMAIN bag : w <= v})

\* sorted(samples)[i - 1]
Ordered(bag, i) == Min({v \in Observed(bag) : UpTo(bag, v) >= i})

\* Mutant: the rank is rounded down.
RankDown(pct, n) == IF (pct * n) \div 100 = 0 THEN 1 ELSE (pct * n) \div 100

\* math.ceil(p * n), at most n
Rank(pct, n) == (pct * n + 99) \div 100

\* NoValue is None: an empty sample has no percentile.
Percentile(bag, pct) ==
  IF Count(bag) = 0 THEN NoValue ELSE Ordered(bag, Rank(pct, Count(bag)))

Breach(observed, threshold) == observed /= NoValue /\ observed > threshold

FailureStatuses == {"unavailable", "denied"}

ToolStats(rows) ==
  [calls |-> Len(rows),
   failures |-> Cardinality({i \in DOMAIN rows : rows[i].status \in FailureStatuses}),
   retried |-> Cardinality({i \in DOMAIN rows : rows[i].attempt > 1})]

Thresholds == [voiceP50 |-> 800, voiceP95 |-> 1400, bargeIn |-> 200, truncation |-> 100]

\* _numbers: one key of the payloads, unusable values skipped.
NumbersOf(key) ==
  LET values == {p[key] : p \in Payloads} \ {NoValue}
  IN [v \in values |-> SumFunctionOnSet(bargeIns, {p \in Payloads : p[key] = v})]

\* compute: the thresholds that are breached.
Failures ==
  {f \in DOMAIN Thresholds :
     Breach(CASE f = "voiceP50" -> Percentile(turns, 50)
              [] f = "voiceP95" -> Percentile(turns, 95)
              [] f = "bargeIn" -> Percentile(NumbersOf("cutoff_ms"), 95)
              [] f = "truncation" -> Percentile(NumbersOf("discarded_ms"), 95),
            Thresholds[f])}

----------------------------------------------------------------------------
(* dashboard.py, metrics: percentile_cont(0.5), which lies halfway between   *)
(* the two middle rows, cut to an integer.                                   *)

HeaderMedian ==
  LET n == Count(turns)
  IN IF n = 0 THEN NoValue
     ELSE (Ordered(turns, (n + 1) \div 2) + Ordered(turns, n \div 2 + 1)) \div 2

----------------------------------------------------------------------------
(* The calls that leave the rows.                                            *)

Room(weight) ==
  Count(turns) + OtherWeight * (Count(bargeIns) + Len(tools)) + weight <= MaxRows

TurnStored ==
  /\ Room(1)
  /\ \E v \in Latencies : turns' = [turns EXCEPT ![v] = @ + 1]
  /\ UNCHANGED <<bargeIns, tools, streak>>

BargedIn ==
  /\ Room(OtherWeight)
  /\ \E p \in Payloads : bargeIns' = [bargeIns EXCEPT ![p] = @ + 1]
  /\ UNCHANGED <<turns, tools, streak>>

\* _run_function: one row of the invocation, then record_tool.
ToolRan ==
  /\ Room(OtherWeight)
  /\ \E status \in Statuses, attempt \in 1..2 :
       /\ tools' = Append(tools, [status |-> status, attempt |-> attempt])
       /\ streak' = IF status = "ok" THEN 0 ELSE streak + 1
  /\ UNCHANGED <<turns, bargeIns>>

RepNext == TurnStored \/ BargedIn \/ ToolRan

RepSpec == RepInit /\ [][RepNext]_repVars

----------------------------------------------------------------------------
(* Properties.                                                               *)

RepTypeOK ==
  /\ turns \in [Latencies -> Nat] /\ bargeIns \in [Payloads -> Nat]
  /\ tools \in Seq([status : Statuses, attempt : 1..2])
  /\ streak \in Nat

Above(bag, threshold) == Count(bag) - UpTo(bag, threshold)

\* The gate fails exactly if more than a twentieth of the samples (half of
\* them, for the median) are over their threshold: a single outlier among
\* twenty passes, no sample passes, and values of other types do not count
\* (percentile, _breach and _numbers together).
GateMeansShare ==
  /\ "voiceP50" \in Failures <=> 100 * Above(turns, 800) > 50 * Count(turns)
  /\ "voiceP95" \in Failures <=> 100 * Above(turns, 1400) > 5 * Count(turns)
  /\ \A f \in {<<"bargeIn", "cutoff_ms", 200>>, <<"truncation", "discarded_ms", 100>>} :
       LET measured == {p \in Payloads : p[f[2]] /= NoValue}
       IN f[1] \in Failures <=>
            100 * SumFunctionOnSet(bargeIns, {p \in measured : p[f[2]] > f[3]})
              > 5 * SumFunctionOnSet(bargeIns, measured)

\* The header's median is never below the gate's, and equals it for an odd
\* number of turns (percentile_cont in SQL, nearest rank in metrics.py).
HeaderNotBelowGate ==
  /\ HeaderMedian >= Percentile(turns, 50)
  /\ Count(turns) % 2 = 1 => HeaderMedian = Percentile(turns, 50)

\* Stated by metrics.py: every percentile is a value that was observed, and
\* the SQL of the dashboard agrees with it.
MedianObserved == HeaderMedian /= NoValue => HeaderMedian \in Observed(turns)

\* A streak that escalates a call shows as failures in the gate's report,
\* except for the results it counts that the report does not: not_found
\* (ToolOutcome.ok against FAILURE_STATUSES).
StreakShowsInReport ==
  streak <= ToolStats(tools).failures
              + Cardinality({i \in DOMAIN tools : tools[i].status = "not_found"})

\* The report against its meaning and against the other two places that count
\* the same rows (metrics.py, dashboard.py, state.py).
GateOK == RepTypeOK /\ GateMeansShare /\ HeaderNotBelowGate /\ StreakShowsInReport

============================================================================
