---------------------------- MODULE ScoreStatistics ----------------------------
(***************************************************************************)
(* What is computed from the scores of many cases: the aggregates of a run *)
(* (metrics/aggregation.py) and the comparison of two runs                 *)
(* (reporting/compare.py, reporting/stats.py). Scores are integers in the  *)
(* smallest unit the metrics are rounded to, everything derived from them  *)
(* is an exact ratio. A standard deviation is kept as its square.          *)
(***************************************************************************)
EXTENDS MetricValues, TLC

CONSTANTS
  Resamples,        \* rotations bootstrap_ci looks at (2000 in the code)
  PermutationBits,  \* 2^bits sign patterns are enumerated at most (12 in the code)
  Epsilon           \* differences up to this ratio are "unchanged" (1/10000)

ASSUME StatisticsAssumption ==
  /\ Resamples \in Nat \ {0} /\ PermutationBits \in Nat \ {0}
  /\ Epsilon \in Nat \X (Nat \ {0})
  /\ None \notin Int \X Int

Ratios == Int \X (Nat \ {0})

Total(s)  == FoldLeft(LAMBDA n, x : n + x, 0, s)

(* The same sequence, every element of which TLC computes only once.       *)
Evaluated(s) == s \o <<>>

(* The elements of a finite set as a sequence, in a strict order of them:  *)
(* a set of numbers; the positions of a list as sorted() arranges them,    *)
(* which keeps the order of equal elements.                                *)
Arranged(S, Before(_, _)) ==
  LET placed == {<<Cardinality({y \in S : Before(y, x)}) + 1, x>> : x \in S}
  IN Evaluated([k \in 1..Cardinality(S) |-> (CHOOSE p \in placed : p[1] = k)[2]])
Ascending(S) == Arranged(S, <)
Stable(s) ==
  Arranged(DOMAIN s, LAMBDA i, j : s[i] < s[j] \/ (s[i] = s[j] /\ i < j))
Sorted(s) == LET order == Stable(s) IN [k \in DOMAIN order |-> s[order[k]]]

mean(s)   == <<Total(s), Len(s)>>
Magnitude(n) == IF n < 0 THEN -n ELSE n
Absolute(r)  == <<Magnitude(r[1]), r[2]>>
Smaller(a, b) == IF AtMost(a, b) THEN a ELSE b
Larger(a, b)  == IF AtMost(a, b) THEN b ELSE a

-----------------------------------------------------------------------------
(* Aggregates of one metric.                                               *)

(* o: the values in ascending order.                                       *)
_compute_percentile(o, p) ==
  LET k == p * (Len(o) - 1)
      f == k \div 100
      r == k % 100
  IN IF r = 0 THEN <<o[f + 1], 1>>
     ELSE <<o[f + 1] * (100 - r) + o[f + 2] * r, 100>>

Squares(s) == Total([i \in DOMAIN s |-> s[i] * s[i]])
_compute_std(s) ==
  IF Len(s) < 2 THEN Zero
  ELSE <<Len(s) * Squares(s) - Total(s) * Total(s), Len(s) * (Len(s) - 1)>>

(* rows: the results of one metric, one per scored case.                   *)
Numeric(rows)  == {i \in DOMAIN rows : is_computed(rows[i])}
Failures(rows) == {i \in DOMAIN rows : rows[i].status = "FAILED"}
NumbersOf(rows) ==
  LET at == Ascending(Numeric(rows))
  IN [i \in DOMAIN at |-> rows[at[i]].value[1]]
Figures(values) ==
  LET o == Sorted(values)
      percentile(p) == _compute_percentile(o, p)
  IN [count |-> <<Len(values), 1>>, mean |-> mean(values), median |-> percentile(50),
      min |-> <<o[1], 1>>, max |-> <<o[Len(values)], 1>>, std |-> _compute_std(values),
      p50 |-> percentile(50), p75 |-> percentile(75), p90 |-> percentile(90),
      p95 |-> percentile(95), p99 |-> percentile(99)]
compute_aggregations(rows) ==
  LET values == NumbersOf(rows)
  IN [sample_count |-> Len(rows),
      available_count |-> Cardinality(Numeric(rows)),
      failed_count |-> Cardinality(Failures(rows)),
      status |-> IF values = <<>> THEN "UNAVAILABLE_MISSING_INPUT" ELSE "COMPUTED",
      of |-> IF values = <<>> THEN [count |-> Zero] ELSE Figures(values)]

-----------------------------------------------------------------------------
(* Statistics of the paired differences of two runs.                       *)
_quantile(s, thousandth) ==
  LET position == thousandth * (Len(s) - 1)
      lower    == position \div 1000
      r        == position % 1000
  IN IF r = 0 THEN <<s[lower + 1], 1>>
     ELSE <<s[lower + 1] * 1000 + (s[lower + 2] - s[lower + 1]) * r, 1000>>

(* The resamples are the rotations of the sample.                          *)
bootstrap_ci(d) ==
  IF d = <<>> THEN None
  ELSE LET n       == Len(d)
           samples == Sorted([offset \in 1..Resamples |->
                        Total([i \in 1..n |-> d[((i + offset - 2) % n) + 1]])])
           scaled(q) == Quotient(q, <<n, 1>>)
       IN <<scaled(_quantile(samples, 25)), scaled(_quantile(samples, 975))>>

(* The sum of the differences under a sign pattern.                        *)
Signed(d, positive) ==
  Total([i \in DOMAIN d |-> IF i \in positive THEN d[i] ELSE -d[i]])
Patterns(d) == SUBSET (1..Smaller(<<Len(d), 1>>, <<PermutationBits, 1>>)[1])

paired_permutation_pvalue(d) ==
  IF d = <<>> THEN None
  ELSE Counted({s \in Patterns(d) : Magnitude(Signed(d, s)) >= Magnitude(Total(d))},
               Cardinality(Patterns(d)))

(* The square of the effect size, with its sign.                           *)
cohens_dz(d) ==
  IF d = <<>> THEN None
  ELSE Quotient(Times(mean(d), Absolute(mean(d))), _compute_std(d))

Above(d) == Cardinality({i \in DOMAIN d : d[i] > 0})
Below(d) == Cardinality({i \in DOMAIN d : d[i] < 0})
rank_biserial(d) ==
  IF d = <<>> THEN None ELSE safe_divide(Above(d) - Below(d), Above(d) + Below(d))

cliffs_delta(left, right) ==
  IF left = <<>> \/ right = <<>> THEN None
  ELSE LET pairs == (DOMAIN left) \X (DOMAIN right)
       IN <<Cardinality({p \in pairs : left[p[1]] > right[p[2]]})
              - Cardinality({p \in pairs : left[p[1]] < right[p[2]]}),
            Len(left) * Len(right)>>

(* Corrections for the number of tests: the indices by ascending p-value,  *)
(* the corrected value of each rank, and a running maximum (minimum from   *)
(* the end) that keeps the order of the p-values.                          *)
Ranked(ps) ==
  Arranged(DOMAIN ps,
           LAMBDA i, j : ~AtMost(ps[j], ps[i]) \/ (Same(ps[i], ps[j]) /\ i < j))
RankOf(ps) == LET order == Ranked(ps) IN [i \in DOMAIN ps |-> CHOOSE k \in DOMAIN order : order[k] = i]

holm_bonferroni(ps) ==
  LET n     == Len(ps)
      order == Ranked(ps)
      step  == [k \in 1..n |-> Smaller(One, Times(<<n - k + 1, 1>>, ps[order[k]]))]
      running == [k \in 1..n |-> FoldLeft(Larger, Zero, SubSeq(step, 1, k))]
      rank  == RankOf(ps)
  IN [i \in 1..n |-> running[rank[i]]]

(* Mutant: no running minimum.                                             *)
UnorderedHochberg(ps) ==
  LET rank == RankOf(ps)
  IN [i \in DOMAIN ps |-> Smaller(One, Times(ps[i], <<Len(ps), rank[i]>>))]

benjamini_hochberg(ps) ==
  LET n     == Len(ps)
      order == Ranked(ps)
      step  == [k \in 1..n |-> Times(ps[order[k]], <<n, k>>)]
      running == [k \in 1..n |-> FoldLeft(Smaller, One, SubSeq(step, k, n))]
      rank  == RankOf(ps)
  IN [i \in 1..n |-> running[rank[i]]]

-----------------------------------------------------------------------------
(* Two runs: [identity, aggregates: metric -> aggregates,                  *)
(* results: case -> metric -> result].                                     *)
Direction(metric) ==
  IF metric \in {"error_rate", "latency_p50", "latency_p99"} THEN "lower_is_better"
  ELSE "higher_is_better"

_compare_metric(metric, a, b) ==
  IF a = None \/ b = None THEN "inconclusive"
  ELSE LET delta == Minus(b, a)
           gain  == IF Direction(metric) = "higher_is_better" THEN delta ELSE Minus(a, b)
       IN IF AtMost(Absolute(gain), Epsilon) THEN "unchanged"
          ELSE IF gain[1] > 0 THEN "improved" ELSE "regressed"

(* The cases both runs have a number for, in the order of their ids.       *)
_paired_values(a, b, metric) ==
  LET numeric(run) == {c \in DOMAIN run.results :
                         /\ metric \in DOMAIN run.results[c]
                         /\ is_computed(run.results[c][metric])}
      cases == Ascending(numeric(a) \cap numeric(b))
      values(run) == [i \in DOMAIN cases |-> run.results[cases[i]][metric].value[1]]
  IN [left |-> values(a), right |-> values(b)]

Differences(a, b, metric) ==
  LET pairs == _paired_values(a, b, metric)
  IN [i \in DOMAIN pairs.left |-> pairs.right[i] - pairs.left[i]]

(* One entry per metric and aggregation both runs have; every aggregation  *)
(* of a metric repeats the statistics of its paired values.                *)
Keys(run) == UNION {{<<m, n>> : n \in DOMAIN run.aggregates[m].of} : m \in DOMAIN run.aggregates}
Statistics(a, b) ==
  [m \in DOMAIN a.aggregates \cap DOMAIN b.aggregates |->
     LET d == Differences(a, b, m)
     IN [paired_count |-> Len(d), interval |-> bootstrap_ci(d),
         p_value |-> paired_permutation_pvalue(d), effect_size |-> cohens_dz(d),
         rank_biserial |-> rank_biserial(d)]]

_adjust_statistics(keys, statistics) ==
  LET tested == Ascending({i \in DOMAIN keys : statistics[keys[i][1]].p_value # None})
      ps     == Evaluated([i \in DOMAIN tested |-> statistics[keys[tested[i]][1]].p_value])
  IN [p |-> ps, holm |-> holm_bonferroni(ps), bh |-> benjamini_hochberg(ps)]

(* Another benchmark, architecture, prompt, embedding or corpus makes two  *)
(* runs incompatible; another version or mode only warns.                  *)
Identifying == {"benchmark", "architecture", "prompt", "embedding", "corpus"}
Compatible(a, b) == \A f \in Identifying : a.identity[f] = b.identity[f]
Warnings(a, b)   == {f \in DOMAIN a.identity : a.identity[f] # b.identity[f]}

Assessments(a, b) ==
  [k \in Keys(a) \cap Keys(b) |-> _compare_metric(k[1], a.aggregates[k[1]].of[k[2]],
                                                  b.aggregates[k[1]].of[k[2]])]

compare_runs(a, b) ==
  LET stats == Statistics(a, b)
      keys  == FoldSet(LAMBDA k, s : Append(s, k), <<>>, Keys(a) \cap Keys(b))
  IN [compatible |-> Compatible(a, b), warnings |-> Warnings(a, b),
      assessment |-> Assessments(a, b), statistics |-> stats,
      adjusted |-> _adjust_statistics(keys, stats)]
=============================================================================
