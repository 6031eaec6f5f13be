---------------------------- MODULE LegStatistics ----------------------------
(***************************************************************************)
(* The figures a leg is reported by: besu_benchmark.py compute_statistics, *)
(* compute_rpc_statistics and the percentile they use, and the latency by  *)
(* block time of agreement_common_e2e.py, which has a percentile of its    *)
(* own, like the threshold ablation.  Times are integers; percentiles are  *)
(* in hundredths of one, ratios stay pairs <<numerator, denominator>>.     *)
(* None is a figure that is left out.                                      *)
(***************************************************************************)
EXTENDS Integers, Sequences, Functions, FiniteSetsExt

None == -1

\* sorted: the k-th is the least of the values that are no less than k of them.
Sorted(values) ==
  [k \in 1 .. Cardinality(DOMAIN values) |->
     Min({v \in Range(values) : Cardinality({i \in DOMAIN values : values[i] <= v}) >= k})]

\* percentile, for p below 100: at 100 its upper index is past the end.
percentile(values, p) ==
  LET v == Sorted(values)
      n == Cardinality(DOMAIN values)
      k == (n - 1) * p
      f == k \div 100
      c == IF f + 1 < n THEN f + 1 ELSE n
  IN  IF n = 0 THEN 0
      ELSE IF n = 1 THEN 100 * v[1]
      ELSE 100 * v[f + 1] + (v[c + 1] - v[f + 1]) * (k % 100)

\* percentile of zkroam_threshold_ablation.py, whose upper index stays in the list.
ablationPercentile(values, p) ==
  LET v == Sorted(values)
      n == Cardinality(DOMAIN values)
      k == (n - 1) * p
      lo == k \div 100
      hi == IF lo + 1 < n THEN lo + 1 ELSE n - 1
  IN  IF n = 0 THEN None ELSE 100 * v[lo + 1] + (v[hi + 1] - v[lo + 1]) * (k - 100 * lo)

\* Mutant: the rank is cut, nothing is interpolated.
pctCut(values, p) ==
  100 * Sorted(values)[((Cardinality(DOMAIN values) - 1) * p) \div 100 + 1]

\* pct, in apply_block_time_latency: between the floor and the ceiling of the rank.
pct(values, p) ==
  LET v == Sorted(values)
      k == (Cardinality(DOMAIN values) - 1) * p
      lo == k \div 100
      hi == (k + 99) \div 100
  IN  100 * v[lo + 1] + (v[hi + 1] - v[lo + 1]) * (k - 100 * lo)

------------------------------------------------------------------------------
\* A transaction here: [status, submit, confirm, node, block], times None before they are set.
\* Those of a leg that a figure is about are told by their places.

With(ts, statuses) == {i \in DOMAIN ts : ts[i].status \in statuses}

\* Mutant: what reverted does not count as submitted.
AcceptingOnly == {"submitted", "confirmed", "timeout"}

Accepting == {"submitted", "confirmed", "reverted", "timeout"}

\* Confirmed, with both its times.
Timed(ts) == {i \in With(ts, {"confirmed"}) : ts[i].submit # None /\ ts[i].confirm # None}

pollLatency(t) == t.confirm - t.submit

Span(times) == Max(times) - Min(times)

compute_statistics(ts) ==
  LET submitted == Cardinality(With(ts, Accepting))
      confirmed == Timed(ts)
      lat == [i \in confirmed |-> pollLatency(ts[i])]
      sending == Span({ts[i].submit : i \in confirmed})
      confirming == Span({ts[i].confirm : i \in confirmed})
      Rate(n, duration) == IF duration > 0 THEN <<n, duration>> ELSE None
      counts == [prepared |-> Cardinality(DOMAIN ts),
                 submitted |-> submitted,
                 confirmed |-> Cardinality(confirmed),
                 reverted |-> Cardinality(With(ts, {"reverted"})),
                 timeout |-> Cardinality(With(ts, {"timeout"})),
                 failed_submission |-> Cardinality(With(ts, {"failed"}))]
  IN  [counts |-> counts,
       rates |-> IF confirmed = {} THEN <<>>
                 ELSE <<Rate(submitted, sending), Rate(Cardinality(confirmed), confirming)>>,
       latency |-> IF confirmed = {} THEN <<>>
                   ELSE [avg |-> <<FoldFunction(+, 0, lat), Cardinality(confirmed)>>,
                         p50 |-> percentile(lat, 50), p95 |-> percentile(lat, 95),
                         p99 |-> percentile(lat, 99), max |-> 100 * Max(Range(lat))]]

\* compute_rpc_statistics: what each node was sent, and what became of it.
compute_rpc_statistics(ts, nodes) ==
  LET At(node, statuses) == Cardinality({i \in With(ts, statuses) : ts[i].node = node})
  IN  [node \in nodes |->
         [submitted |-> At(node, {"submitted", "confirmed", "reverted", "timeout"}),
          confirmed |-> At(node, {"confirmed"}),
          failed |-> At(node, {"failed"}),
          timeout |-> At(node, {"timeout"})]]

------------------------------------------------------------------------------
\* apply_block_time_latency

AtMost(a, b) == IF a < b THEN a ELSE b
AtLeast(a, b) == IF a > b THEN a ELSE b

\* Mutant: the stamp of the block is believed.
latencyUnclamped(t, method) ==
  IF method = "block_time" /\ t.status = "confirmed" /\ t.block # None
    THEN t.block - t.submit
    ELSE pollLatency(t)

\* From the submission to the stamp of the block, within [0, poll latency]; the poll
\* latency where the block cannot be read, or its method is asked for.
latency(t, method) ==
  LET poll == pollLatency(t) IN
  IF method = "block_time" /\ t.status = "confirmed" /\ t.block # None
    THEN AtMost(poll, AtLeast(0, t.block - t.submit))
    ELSE poll

apply_block_time_latency(ts, method) ==
  LET vals == [i \in Timed(ts) |-> latency(ts[i], method)]
      n == Cardinality(Timed(ts))
  IN  IF n = 0 THEN [p50 |-> None, p99 |-> None, mean |-> None, n |-> 0]
      ELSE [p50 |-> pct(vals, 50), p99 |-> pct(vals, 99),
            mean |-> <<FoldFunction(+, 0, vals), n>>, n |-> n]
==============================================================================
