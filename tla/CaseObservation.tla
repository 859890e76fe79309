---------------------------- MODULE CaseObservation ----------------------------
(***************************************************************************)
(* The observation of one case and what every metric of the catalogue says *)
(* of it. The target builds its response piece by piece (a retrieved item, *)
(* a word of the answer, a citation, a span of the trace, ...) and         *)
(* ObservationNormalizer keeps each piece as it is, so the states are the  *)
(* observations a case can have and a step is one more piece: the metrics  *)
(* of an observation are related to each other, and to those of a shorter  *)
(* observation.                                                            *)
(***************************************************************************)
EXTENDS TraceMetrics

CONSTANTS
  Cases,          \* benchmark cases: [gold, reference, answerable]
  Items,          \* what the retriever can return: [id, source]
  Citations,      \* [source, span]
  Claims,         \* [span, linked]
  TraceSpans,     \* [id, name, duration, start, end, failed]
  Usages,         \* [tokens, cost, context_tokens, total_tokens]
  BeforeSpan, AfterSpan,   \* ids of the spans the two stages are linked to
  MaxReported,    \* bound on the pieces of an observation when another is added
  MaxRetrieved    \* the same when the piece is one of a retrieval stage

ASSUME ObservationAssumption ==
  MaxReported \in Nat /\ MaxRetrieved \in Nat /\ IsFiniteSet(Items)

VARIABLES
  case,        \* the benchmark case
  before,      \* items of the candidate retrieval stage, None when not reported
  after,       \* items of the final context stage, None when not reported
  answer,      \* words of the answer, None for a retrieve response
  citations,   \* Answer.citations
  claims,      \* observation.claims
  labels,      \* observation.assessments: whether each label is supportive
  decision,    \* observation.decision
  spans,       \* observation.trace
  usage        \* observation.usage

retrievalVars == <<before, after>>
answerVars    == <<answer, citations>>
claimVars     == <<claims, labels>>
traceVars     == <<spans, usage>>
vars == <<case, retrievalVars, answerVars, claimVars, decision, traceVars>>

Size(s) == IF s = None THEN 0 ELSE Len(s) + 1
Pieces == Size(before) + Size(after) + Size(answer) + Len(citations)
              + Size(claims) + Len(labels) + Size(spans)
              + (IF decision = None THEN 0 ELSE 1) + (IF usage = None THEN 0 ELSE 1)

Room == Pieces < MaxReported
Depth == Pieces < MaxRetrieved

Init ==
  /\ case \in Cases
  /\ before = None /\ after = None
  /\ answer = None /\ citations = <<>>
  /\ claims = None /\ labels = <<>>
  /\ decision = None
  /\ spans = None /\ usage = None

(* A retrieval stage is reported, at first with no item.                   *)
ReportCandidates ==
  /\ Depth /\ before = None
  /\ before' = <<>>
  /\ UNCHANGED <<case, after, answerVars, claimVars, decision, traceVars>>

Retrieve(item) ==
  /\ Depth /\ before # None /\ after = None
  /\ item.id \notin Ids(before)
  /\ before' = Append(before, item)
  /\ UNCHANGED <<case, after, answerVars, claimVars, decision, traceVars>>

ReportFinalContext ==
  /\ Depth /\ before # None /\ after = None
  /\ after' = <<>>
  /\ UNCHANGED <<case, before, answerVars, claimVars, decision, traceVars>>

(* Reranking and filtering keep items of the stage before, in any order.   *)
Keep(item) ==
  /\ Depth /\ after # None
  /\ item \in ToSet(before) \ ToSet(after)
  /\ after' = Append(after, item)
  /\ UNCHANGED <<case, before, answerVars, claimVars, decision, traceVars>>

ReportAnswer ==
  /\ Room /\ answer = None
  /\ answer' = <<>>
  /\ UNCHANGED <<case, retrievalVars, citations, claimVars, decision, traceVars>>

Write(word) ==
  /\ Room /\ answer # None /\ citations = <<>>
  /\ answer' = Append(answer, word)
  /\ UNCHANGED <<case, retrievalVars, citations, claimVars, decision, traceVars>>

Cite(citation) ==
  /\ Room /\ answer # None
  /\ citation.span # None => citation.span[2] <= text_length(answer)
  /\ citations' = Append(citations, citation)
  /\ UNCHANGED <<case, retrievalVars, answer, claimVars, decision, traceVars>>

ReportClaims ==
  /\ Room /\ answer # None /\ claims = None
  /\ claims' = <<>>
  /\ UNCHANGED <<case, retrievalVars, answerVars, labels, decision, traceVars>>

State(claim) ==
  /\ Room /\ claims # None
  /\ claims' = Append(claims, claim)
  /\ UNCHANGED <<case, retrievalVars, answerVars, labels, decision, traceVars>>

Assess(supported) ==
  /\ Room /\ claims # None /\ Len(labels) < Len(claims)
  /\ labels' = Append(labels, supported)
  /\ UNCHANGED <<case, retrievalVars, answerVars, claims, decision, traceVars>>

Decide(action) ==
  /\ Room /\ decision = None
  /\ decision' = action
  /\ UNCHANGED <<case, retrievalVars, answerVars, claimVars, traceVars>>

ReportTrace ==
  /\ Room /\ spans = None
  /\ spans' = <<>>
  /\ UNCHANGED <<case, retrievalVars, answerVars, claimVars, decision, usage>>

Trace(span) ==
  /\ Room /\ spans # None
  /\ span.id \notin {spans[i].id : i \in DOMAIN spans}
  /\ spans' = Append(spans, span)
  /\ UNCHANGED <<case, retrievalVars, answerVars, claimVars, decision, usage>>

ReportUsage(u) ==
  /\ Room /\ usage = None
  /\ usage' = u
  /\ UNCHANGED <<case, retrievalVars, answerVars, claimVars, decision, spans>>

Next ==
  \/ ReportCandidates \/ ReportFinalContext \/ ReportAnswer \/ ReportClaims \/ ReportTrace
  \/ \E item \in Items : Retrieve(item) \/ Keep(item)
  \/ \E word \in Words : Write(word)
  \/ \E citation \in Citations : Cite(citation)
  \/ \E claim \in Claims : State(claim)
  \/ \E supported \in BOOLEAN : Assess(supported)
  \/ \E action \in Actions : Decide(action)
  \/ \E span \in TraceSpans : Trace(span)
  \/ \E u \in Usages : ReportUsage(u)

Spec == Init /\ [][Next]_vars

-----------------------------------------------------------------------------
gold      == case.gold
reference == case.reference
context   == IF after = None THEN before ELSE after

Positive(r) == is_computed(r) /\ r.value[1] > 0
Equals(r, v) == is_computed(r) /\ Same(r.value, v)
NoMoreThan(r, s) == is_computed(r) /\ is_computed(s) => AtMost(r.value, s.value)

RetrievalShares ==
  {HitAtK(gold, before), PrecisionAtK(gold, before), RecallAtK(gold, before),
   MRR(gold, before), NDCGAtK(gold, before), RPrecision(gold, before),
   F1AtK(gold, before), DocumentRecall(gold, before), PageRecall(gold, before)}
StageShares ==
  {GoldRetention(gold, before, after), ItemRetentionRate(before, after),
   SourceRetentionRate(before, after), TopKChurn(before, after),
   AdvancedRetention(before, after), AdvancedChurn(before, after)}
CitationShares ==
  {ResolutionRate(answer, citations), CitationResolution(answer, citations, before),
   AttributionRate(answer, citations), BrokenRate(answer, citations, before),
   DocumentAttributionAccuracy(answer, citations, before),
   PageAttributionAccuracy(answer, citations, before),
   EvidenceUtilization(answer, citations, context),
   ClaimCoverage(answer, claims, citations), UncitedClaimRate(answer, claims, citations),
   ClaimSupportRate(claims, labels), UnsupportedClaimRate(claims, labels)}
AnswerShares ==
  {ExactMatch(answer, reference), NormalizedExactMatch(answer, reference),
   TokenPrecision(answer, reference), TokenRecall(answer, reference),
   TokenF1(answer, reference), SemanticCorrectness(answer, reference),
   FactualPrecision(answer, reference), FactualRecall(answer, reference),
   FactualF1(answer, reference)}

(* The metrics that are no shares: ranks, differences, times, counts, costs. *)
Figures ==
  {MAPAtK(gold, before), FirstRelevantRank(gold, before),
   RecallDelta(gold, before, after), PrecisionDelta(gold, before, after),
   NDCGDelta(gold, before, after), MRRDelta(gold, before, after),
   MAPDelta(gold, before, after), NoiseRejection(gold, before, after),
   RankGain(gold, before, after), RankRegression(gold, before, after),
   BrokenCitations(answer, citations, before),
   MeanCitationsPerClaim(answer, claims, citations),
   TotalLatency(spans), RetrievalLatency(spans), GenerationLatency(spans),
   EmbeddingLatency(spans), E2ELatency(spans), ComponentFailureRate(spans),
   StageLatency(before, spans, BeforeSpan), StageLatencyShare(before, spans, BeforeSpan),
   StageThroughput(before, spans, BeforeSpan),
   StageLatencyDelta(before, after, spans, BeforeSpan, AfterSpan),
   QualityGainPerMs(gold, before, after, spans, BeforeSpan, AfterSpan),
   InputTokens(usage), OutputTokens(usage), TotalTokens(usage), TotalCost(usage),
   CostPerToken(usage), ContextTokens(usage), TokensPerSecond(usage, spans),
   TokensPerCorrectAnswer(usage, answer, reference),
   RelevantEvidencePerContextToken(usage, gold, before)}

(* Every rate the metrics report lies between 0 and 1, whatever the target *)
(* reports: no division by an empty stage, a citation that is counted      *)
(* twice, a span that is merged wrongly, a relevant item outside the ideal *)
(* ranking. (MAP@K is not in the list: several items of one gold document  *)
(* raise it above 1, as the README says.)                                  *)
RatesAreNormalised ==
  \A r \in RetrievalShares \cup StageShares \cup CitationShares \cup AnswerShares :
    is_computed(r) => AtMost(Zero, r.value) /\ AtMost(r.value, One)

(* The retrieval metrics agree on whether the top K hold something         *)
(* relevant, and recall of the evidence is complete exactly when recall of *)
(* the documents is: item relevance and evidence matching are two separate *)
(* pieces of code that must see the same items.                            *)
RelevanceAgrees ==
  Available(gold, before) =>
    LET hit  == Positive(HitAtK(gold, before))
        rank == FirstRelevantRank(gold, before)
    IN /\ \A m \in {PrecisionAtK(gold, before), RecallAtK(gold, before),
                    F1AtK(gold, before), MAPAtK(gold, before), NDCGAtK(gold, before),
                    DocumentRecall(gold, before)} : is_computed(m) => (Positive(m) <=> hit)
       /\ is_computed(rank) <=> hit
       /\ hit => Equals(MRR(gold, before), Quotient(One, rank.value))
       /\ ~hit /\ Positive(MRR(gold, before)) =>
            K * MRR(gold, before).value[1] < MRR(gold, before).value[2]
       /\ Equals(RecallAtK(gold, before), One) =>
            DocumentRecall(gold, before).status = "FAILED"
              \/ Equals(DocumentRecall(gold, before), One)
       /\ Equals(DocumentRecall(gold, before), One) => Equals(RecallAtK(gold, before), One)
       /\ Equals(PageRecall(gold, before), One) => Equals(DocumentRecall(gold, before), One)

(* A further item at the end of the ranking lowers no metric that looks    *)
(* for the gold evidence, and an item past the cut-off changes none of the *)
(* @K metrics. (NDCG@K is not in the list: its ideal ranking counts        *)
(* relevant items past the cut-off.)                                       *)
RetrievingNeverLowers ==
  [][\A item \in Items : Retrieve(item) =>
       /\ NoMoreThan(HitAtK(gold, before), HitAtK(gold, before'))
       /\ NoMoreThan(RecallAtK(gold, before), RecallAtK(gold, before'))
       /\ NoMoreThan(MRR(gold, before), MRR(gold, before'))
       /\ NoMoreThan(DocumentRecall(gold, before), DocumentRecall(gold, before'))
       /\ NoMoreThan(PageRecall(gold, before), PageRecall(gold, before'))
       /\ Len(before) >= K =>
            <<PrecisionAtK(gold, before), RecallAtK(gold, before), F1AtK(gold, before),
              MAPAtK(gold, before), FirstRelevantRank(gold, before)>>
            = <<PrecisionAtK(gold, before'), RecallAtK(gold, before'), F1AtK(gold, before'),
                MAPAtK(gold, before'), FirstRelevantRank(gold, before')>>]_vars

(* What the comparison of two stages says follows from what each stage     *)
(* says alone, and the two modules that compute retention and churn agree. *)
StagesAgree ==
  _pair(before, after) =>
    LET gain == RankGain(gold, before, after)
    IN /\ is_computed(gain) =>
            /\ Same(Plus(gain.value, RankRegression(gold, before, after).value), Zero)
            /\ Positive(gain) <=> Positive(MRRDelta(gold, before, after))
       /\ Len(after) <= K /\ GoldRetention(gold, before, after).status = "COMPUTED" =>
            Same(GoldRetention(gold, before, after).value, RecallAtK(gold, after).value)
       /\ before # <<>> => Same(ItemRetentionRate(before, after).value,
                                AdvancedRetention(before, after).value)
       /\ Len(before) <= K =>
            /\ Same(TopKChurn(before, after).value, AdvancedChurn(before, after).value)
            /\ Ids(before) = Ids(after) =>
                 \A d \in {RecallDelta(gold, before, after), PrecisionDelta(gold, before, after)} :
                   is_computed(d) => Same(d.value, Zero)
       /\ Positive(RecallDelta(gold, before, after)) => Len(before) > K

(* The merged length of the cited spans is the number of characters that   *)
(* some citation covers, in whatever order and however they overlap, and   *)
(* the three metrics that divide it agree.                                 *)
SpanUnionIsExact ==
  LET points == UNION {{n \in 0..text_length(answer) : s[1] <= n /\ n < s[2]} :
                         s \in ToSet(get_answer_span_union(citations))}
  IN answer # None =>
       /\ Covered(citations) = Cardinality(points)
       /\ answer # <<>> => NoMoreThan(AttributionRate(answer, citations),
                                      ResolutionRate(answer, citations))
       /\ is_computed(CitationResolution(answer, citations, before)) =>
            CitationResolution(answer, citations, before) = ResolutionRate(answer, citations)

(* Citations are counted once, on one side: broken or attributed to a page *)
(* the target retrieved. The right page implies the right document, and an *)
(* item is used exactly when some citation is attributed to it.            *)
CitationsAgree ==
  /\ citations # <<>> /\ is_computed(BrokenRate(answer, citations, before)) =>
       Same(Plus(BrokenRate(answer, citations, before).value,
                 PageAttributionAccuracy(answer, citations, before).value), One)
  /\ NoMoreThan(PageAttributionAccuracy(answer, citations, before),
                DocumentAttributionAccuracy(answer, citations, before))
  /\ Positive(PageAttributionAccuracy(answer, citations, before)) <=>
       Positive(EvidenceUtilization(answer, citations, before))
  /\ is_computed(MeanCitationsPerClaim(answer, claims, citations)) /\ claims # <<>> =>
       (Positive(MeanCitationsPerClaim(answer, claims, citations)) <=> citations # <<>>)

(* One more citation never uncovers a claim or a character of the answer.  *)
CitingNeverUncovers ==
  [][\A c \in Citations : Cite(c) =>
       /\ NoMoreThan(ClaimCoverage(answer, claims, citations),
                     ClaimCoverage(answer, claims, citations'))
       /\ NoMoreThan(ResolutionRate(answer, citations), ResolutionRate(answer, citations'))
       /\ NoMoreThan(UncitedClaimRate(answer, claims, citations'),
                     UncitedClaimRate(answer, claims, citations))]_vars

(* The comparisons of an answer with its reference are ordered from the    *)
(* strictest to the loosest, and F1 lies between precision and recall.     *)
AnswersAgree ==
  Given(answer, reference) =>
    LET p == TokenPrecision(answer, reference)
        r == TokenRecall(answer, reference)
        f == TokenF1(answer, reference)
        correct == Each(Casefolded, answer) = Each(Casefolded, reference)
    IN /\ Equals(ExactMatch(answer, reference), One) => correct
       /\ correct => Equals(NormalizedExactMatch(answer, reference), One)
       /\ Equals(NormalizedExactMatch(answer, reference), One) /\ answer # <<>> =>
            Equals(f, One) /\ Equals(SemanticCorrectness(answer, reference), One)
       /\ is_computed(p) /\ is_computed(r) =>
            \/ AtMost(p.value, f.value) /\ AtMost(f.value, r.value)
            \/ AtMost(r.value, f.value) /\ AtMost(f.value, p.value)
       /\ answer # <<>> =>
            NoMoreThan(SemanticCorrectness(answer, reference), FactualPrecision(answer, reference))
       /\ Positive(f) <=> Positive(FactualF1(answer, reference))

(* The decision metrics never contradict each other: at most one action is *)
(* counted, a decision is never both accurate and false, and an abstention *)
(* that precision and recall praise is one that accuracy counts as wrong   *)
(* (an unanswerable case expects a rejection).                             *)
DecisionsAgree ==
  LET a == case.answerable
      ones(S) == Cardinality({n \in DOMAIN S : Equals(S[n], One)})
  IN /\ ones(<<AcceptRate(decision), RejectRate(decision), AbstentionRate(decision)>>)
          = IF decision \in {None, "unknown"} THEN 0 ELSE 1
     /\ ones(<<AnswerabilityAccuracy(decision, a), FalseAnswerRate(decision, a),
               FalseAbstentionRate(decision, a)>>) <= 1
     /\ Equals(AbstentionRecall(decision, a), One) <=> Equals(AbstentionPrecision(decision, a), One)
     /\ Equals(AbstentionRecall(decision, a), One) =>
          Equals(AnswerabilityAccuracy(decision, a), Zero)

Measured(s) == s.end # None /\ s.duration = s.end - s.start

(* On a trace whose durations are those of its intervals, and where no     *)
(* span is called "total", the total lies between the longest span and the *)
(* sum of the spans, and a stage takes no more than the whole.             *)
TimingsAgree ==
  spans # None /\ spans # <<>> /\ (\A s \in ToSet(spans) : Measured(s) /\ s.name # "total") =>
    LET total == TotalLatency(spans)
        sum   == FoldLeft(LAMBDA n, s : n + s.duration, 0, spans)
    IN /\ is_computed(total) <=> sum > 0
       /\ is_computed(total) =>
            /\ total.value[1] <= sum
            /\ \A s \in ToSet(spans) : s.duration <= total.value[1]
            /\ \A m \in {RetrievalLatency(spans), GenerationLatency(spans)} :
                 is_computed(m) => AtMost(m.value, total.value)
            /\ E2ELatency(spans) = total
       /\ LET share == StageLatencyShare(before, spans, BeforeSpan)
          IN is_computed(share) => AtMost(share.value, One)

(* Only a second stage that takes longer than the first has a gain per      *)
(* millisecond; cost, tokens and cost per token are consistent; tokens per  *)
(* correct answer are reported for an answer that matches the reference.    *)
CostsAgree ==
  /\ LET gain == QualityGainPerMs(gold, before, after, spans, BeforeSpan, AfterSpan)
     IN is_computed(gain) =>
          Positive(StageLatencyDelta(before, after, spans, BeforeSpan, AfterSpan))
  /\ is_computed(TotalCost(usage)) /\ is_computed(CostPerToken(usage)) =>
       Same(Times(CostPerToken(usage).value, TotalTokens(usage).value), TotalCost(usage).value)
  /\ is_computed(TokensPerCorrectAnswer(usage, answer, reference)) =>
       Equals(NormalizedExactMatch(answer, reference), One)
  /\ Positive(RelevantEvidencePerContextToken(usage, gold, before)) =>
       Relevant(before, gold) # {}

(* Every metric returns a result the engine can store: a status, and a     *)
(* value that is a proper fraction or nothing.                             *)
TypeOK ==
  /\ case \in Cases /\ decision \in Actions \cup {None}
  /\ \A r \in RetrievalShares \cup StageShares \cup CitationShares \cup AnswerShares
                 \cup Figures :
       /\ r.status \in Statuses
       /\ r.value # None => r.status = "COMPUTED" /\ r.value[2] > 0

(* What the engine may store and the reports may plot: results are well    *)
(* formed, rates are rates, and spans are counted once.                    *)
ResultsAreSound == TypeOK /\ RatesAreNormalised /\ SpanUnionIsExact

(* Metrics that look at the same observation through different code do not *)
(* contradict each other, family by family.                                *)
MetricsAgree ==
  /\ RelevanceAgrees
  /\ StagesAgree
  /\ CitationsAgree
  /\ AnswersAgree
  /\ DecisionsAgree
  /\ TimingsAgree
  /\ CostsAgree

(* A target that retrieves or cites more is not worse off for it.          *)
MoreIsNotWorse == RetrievingNeverLowers /\ CitingNeverUncovers

=============================================================================
