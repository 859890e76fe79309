---------------------------- MODULE MCMetricScoring ----------------------------
(* Two cases, two concurrent tasks, one scoring pass, and the score        *)
(* command; two finished runs to compare with, one of another version of   *)
(* the benchmark and one with another prompt.                              *)
EXTENDS MetricScoring

MCMetrics == {"value", "availability", "latency_p50"}
MCSelected == {"value", "availability", "latency_p50", "unknown"}
MCPassSelected == [p1 |-> {"value"}]

MCIdentity == [benchmark |-> "b", version |-> 1, mode |-> "none", architecture |-> None,
               prompt |-> None, embedding |-> None, corpus |-> None]

Finished(identity, values) ==
  LET scores == [c \in DOMAIN values |-> score_case(values[c], MCSelected, TRUE)]
  IN [identity |-> identity, aggregates |-> _aggregate(scores), results |-> scores]

MCBaselines ==
  {Finished([MCIdentity EXCEPT !.version = 2], <<0, None>>),
   Finished([MCIdentity EXCEPT !.prompt = "p2"], <<1, 1, Broken>>)}
MCEpsilon == <<1, 2>>

TaskSymmetry == Permutations(Tasks)
=============================================================================
