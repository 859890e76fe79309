----------------------------- MODULE TraceMetrics -----------------------------
(***************************************************************************)
(* metrics/performance.py and metrics/usage.py, with the latencies of      *)
(* metrics/stage_delta.py: what the trace and the usage that a target      *)
(* reports say. A span has an id, a name, a duration or None, a start, an  *)
(* end or None and whether it failed; an absent trace or usage is None.    *)
(***************************************************************************)
EXTENDS AnswerMetrics

(* _extract_timing_from_trace. Of spans with the same name the last one    *)
(* counts, and a span named "total" replaces the total.                    *)
Timed(spans, names) == {i \in DOMAIN spans : spans[i].name \in names /\ spans[i].duration # None}
StageTime(spans, name) == spans[Max(Timed(spans, {name}))].duration
StageNames(spans) == {spans[i].name : i \in {j \in DOMAIN spans : spans[j].duration # None}}
Intervals(spans) ==
  LET closed == SelectSeq(spans, LAMBDA s : s.end # None /\ s.end >= s.start)
  IN [i \in DOMAIN closed |-> <<closed[i].start, closed[i].end>>]

TraceTotal(spans) ==
  IF Intervals(spans) # <<>> THEN compute_span_union_length(Intervals(spans))
  ELSE MapThenSumSet(LAMBDA n : StageTime(spans, n), StageNames(spans))
total_ms(spans) ==
  IF spans = None THEN None
  ELSE IF Timed(spans, {"total"}) # {} THEN StageTime(spans, "total")
  ELSE IF TraceTotal(spans) > 0 THEN TraceTotal(spans) ELSE None

Milliseconds(ms) == IF ms = None THEN Missing ELSE Computed(<<ms, 1>>)

TotalLatency(spans) == Milliseconds(total_ms(spans))

(* The first of the names, in this order, that was timed.                  *)
FirstTimed(spans, names) ==
  LET timed == {i \in DOMAIN names : spans # None /\ Timed(spans, {names[i]}) # {}}
  IN Milliseconds(IF timed = {} THEN None ELSE StageTime(spans, names[Min(timed)]))
RetrievalLatency(spans) ==
  FirstTimed(spans, <<"retrieval", "retrieve", "candidate_retrieval">>)
GenerationLatency(spans) ==
  FirstTimed(spans, <<"generation", "generate", "answer", "llm">>)

_NamedSpanMetric(spans, name) ==
  IF spans = None THEN Missing
  ELSE Milliseconds(IF Timed(spans, {name}) = {} THEN None
                    ELSE MapThenSumSet(LAMBDA i : spans[i].duration, Timed(spans, {name})))
EmbeddingLatency(spans) == _NamedSpanMetric(spans, "embed")
E2ELatency(spans) ==
  IF total_ms(spans) = None THEN _NamedSpanMetric(spans, "query") ELSE TotalLatency(spans)

ComponentFailureRate(spans) ==
  Scored(spans # None /\ spans # <<>>,
         Counted({i \in DOMAIN spans : spans[i].failed}, Len(spans)))

(* The span a stage names, with its duration.                              *)
Linked(spans, link) == {i \in DOMAIN spans : spans[i].id = link}
LinkedTime(spans, link) ==
  IF spans = None \/ link = None \/ Linked(spans, link) = {} THEN Missing
  ELSE LET ms == spans[Min(Linked(spans, link))].duration
       IN Computed(IF ms = None THEN None ELSE <<ms, 1>>)

StageLatency(items, spans, link) == IF items = None THEN Missing ELSE LinkedTime(spans, link)
StageLatencyShare(items, spans, link) ==
  LET latency == StageLatency(items, spans, link)
  IN IF ~is_computed(latency) THEN latency
     ELSE IF total_ms(spans) \in {None, 0} THEN Missing
     ELSE Computed(<<latency.value[1], total_ms(spans)>>)
StageThroughput(items, spans, link) ==
  LET latency == StageLatency(items, spans, link)
  IN IF ~is_computed(latency) \/ latency.value[1] = 0 THEN latency
     ELSE Computed(<<Len(items), latency.value[1]>>)

(* stage_delta.py                                                          *)
StageLatencyDelta(before, after, spans, first, second) ==
  IF ~_pair(before, after) THEN Missing
  ELSE Change(LinkedTime(spans, first), LinkedTime(spans, second))

QualityGainPerMs(gold, before, after, spans, first, second) ==
  LET quality == RecallDelta(gold, before, after)
      latency == StageLatencyDelta(before, after, spans, first, second)
  IN IF quality.status = "FAILED" THEN Failed
     ELSE IF ~(is_computed(quality) /\ is_computed(latency)) THEN Missing
     ELSE IF AtMost(latency.value, Zero) THEN Missing
     ELSE Computed(Quotient(quality.value, latency.value))

-----------------------------------------------------------------------------
(* usage.py. The dump of a Usage always holds the "tokens" dictionary, so   *)
(* its "input", "output" and "total" entries are what is read, absent ones  *)
(* as 0; the fields of the same meaning beside it are not.                  *)

OrZero(n) == IF n = None THEN 0 ELSE n
Reported(usage, n) == IF usage = None \/ n = None THEN Missing ELSE Computed(<<n, 1>>)

InputTokens(usage)  == Scored(usage # None, <<OrZero(usage.tokens.input), 1>>)
OutputTokens(usage) == Scored(usage # None, <<OrZero(usage.tokens.output), 1>>)
TotalTokens(usage)  == Scored(usage # None, <<OrZero(usage.tokens.total), 1>>)

TotalCost(usage) == Scored(usage # None /\ usage.cost # None, <<usage.cost, 1>>)
CostPerToken(usage) ==
  Scored(usage # None /\ OrZero(usage.tokens.total) # 0,
         <<OrZero(usage.cost), usage.tokens.total>>)

_UsageFieldMetric(usage, field) ==
  IF usage = None THEN Missing ELSE Reported(usage, usage[field])
ContextTokens(usage) == _UsageFieldMetric(usage, "context_tokens")

(* "generated_tokens" and "completion_tokens" are no fields of a Usage.    *)
TokensPerSecond(usage, spans) == Missing

TokensPerCorrectAnswer(usage, answer, reference) ==
  Scored(usage # None /\ Given(answer, reference),
         IF Each(Casefolded, answer) # Each(Casefolded, reference) THEN None
         ELSE <<IF usage.total_tokens # None THEN usage.total_tokens
                ELSE OrZero(usage.tokens.total), 1>>)

RelevantEvidencePerContextToken(usage, gold, items) ==
  IF usage = None \/ ~Available(gold, items) THEN Missing
  ELSE IF usage.context_tokens = None THEN Missing
  ELSE IF MatchingRaises(gold, items) THEN Failed
  ELSE Computed(Counted(match_gold_evidence(gold, items), usage.context_tokens))
=============================================================================
