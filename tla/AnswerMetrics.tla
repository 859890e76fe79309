---------------------------- MODULE AnswerMetrics ----------------------------
(***************************************************************************)
(* metrics/answer.py, citations.py, decision.py and the answer part of     *)
(* advanced.py. An answer is a sequence of words or None; a citation has a *)
(* source (or None) and the span of the answer it stands behind (or None). *)
(***************************************************************************)
EXTENDS RetrievalMetrics, TLC

CONSTANTS
  Words,       \* words with their case and punctuation
  Width,       \* characters of a word
  Casefolded,  \* what str.casefold makes of a word
  Normal       \* what remains without case and punctuation: the token

ASSUME WordsAssumption ==
  /\ Width \in [Words -> Nat \ {0}]
  /\ Casefolded \in [Words -> Words]
  /\ Normal \in [Words -> Words]
  /\ \A w \in Words : Normal[Casefolded[w]] = Normal[w]

Each(f, text) == [i \in DOMAIN text |-> f[text[i]]]
text_length(text) ==
  IF text = <<>> THEN 0 ELSE Len(text) - 1 + FoldLeft(LAMBDA n, w : n + Width[w], 0, text)

normalize_text_with_punctuation(text) == Each(Normal, text)
tokenize(text) == Each(Normal, text)
count_tokens(tokens) ==
  [w \in ToSet(tokens) |-> Cardinality({i \in DOMAIN tokens : tokens[i] = w})]
token_overlap(pred, ref) ==
  MapThenSumSet(LAMBDA w : Min({count_tokens(pred)[w], count_tokens(ref)[w]}),
                ToSet(pred) \cap ToSet(ref))

Given(answer, reference) == None \notin {answer, reference}

ExactMatch(answer, reference) ==
  Scored(Given(answer, reference), Indicator(answer = reference))
NormalizedExactMatch(answer, reference) ==
  Scored(Given(answer, reference),
         Indicator(normalize_text_with_punctuation(answer)
                     = normalize_text_with_punctuation(reference)))
TokenPrecision(answer, reference) ==
  Scored(Given(answer, reference) /\ answer # <<>>,
         <<token_overlap(tokenize(answer), tokenize(reference)), Len(answer)>>)
TokenRecall(answer, reference) ==
  Scored(Given(answer, reference) /\ reference # <<>>,
         <<token_overlap(tokenize(answer), tokenize(reference)), Len(reference)>>)
TokenF1(answer, reference) ==
  Scored(Given(answer, reference),
         safe_divide(2 * token_overlap(tokenize(answer), tokenize(reference)),
                     Len(answer) + Len(reference)))

(* advanced.py: the values of answer metrics on sets of tokens, for a judge *)
(* that gives no score of its own.                                         *)
_tokens(text) == ToSet(tokenize(text))
Per(S, T) == <<Cardinality(S), Max({Cardinality(T), 1})>>
_overlap(a, b) ==
  IF _tokens(a) \cup _tokens(b) = {} THEN One
  ELSE Counted(_tokens(a) \cap _tokens(b), Cardinality(_tokens(a) \cup _tokens(b)))
SemanticCorrectness(answer, reference) ==
  Scored(Given(answer, reference), _overlap(answer, reference))
FactualPrecision(answer, reference) ==
  Scored(Given(answer, reference),
         Per(_tokens(answer) \cap _tokens(reference), _tokens(answer)))
FactualRecall(answer, reference) ==
  Scored(Given(answer, reference),
         Per(_tokens(answer) \cap _tokens(reference), _tokens(reference)))
FactualF1(answer, reference) ==
  Scored(Given(answer, reference),
         Harmonic(FactualPrecision(answer, reference).value,
                  FactualRecall(answer, reference).value))

-----------------------------------------------------------------------------
(* citations.py                                                            *)

get_answer_span_union(citations) ==
  LET spans == [i \in DOMAIN citations |-> citations[i].span]
  IN SelectSeq(spans, LAMBDA s : s # None)

(* Sorted by start; a span that starts within the last one extends it.     *)
(* Mutant: the end of the merged span is that of the last one.             *)
MergedByLast(spans) ==
  FoldLeft(LAMBDA m, s : IF m # <<>> /\ s[1] <= Last(m)[2]
                         THEN Append(Front(m), <<Last(m)[1], s[2]>>)
                         ELSE Append(m, s),
           <<>>, SortSeq(spans, LAMBDA a, b : a[1] < b[1]))

Merged(spans) ==
  FoldLeft(LAMBDA m, s :
             IF m # <<>> /\ s[1] <= Last(m)[2]
             THEN Append(Front(m), <<Last(m)[1], Max({Last(m)[2], s[2]})>>)
             ELSE Append(m, s),
           <<>>, SortSeq(spans, LAMBDA a, b : a[1] < b[1]))
TotalLength(spans) == FoldLeft(LAMBDA n, s : n + s[2] - s[1], 0, spans)
compute_span_union_length(spans) == TotalLength(Merged(spans))

Covered(citations) == compute_span_union_length(get_answer_span_union(citations))

ResolutionRate(answer, citations) ==
  Scored(answer # None, safe_divide(Covered(citations), text_length(answer)))
CitationResolution(answer, citations, items) ==
  Scored(answer # None /\ items # None,
         IF text_length(answer) = 0 THEN Zero
         ELSE safe_divide(Covered(citations), text_length(answer)))
AttributionRate(answer, citations) ==
  Scored(answer # None,
         IF answer = <<>> THEN Zero
         ELSE <<(Covered(citations) * Len(answer)) \div text_length(answer), Len(answer)>>)

_citation_source(c) ==
  IF c.source = None THEN <<None, None>> ELSE <<c.source.doc, c.source.page>>

Sources(citations) == {_citation_source(c) : c \in ToSet(citations)}
Attributed(citations, accepted) ==
  Counted({i \in DOMAIN citations : _citation_source(citations[i]) \in accepted}, Len(citations))
AgainstRetrieval(answer, items, v) ==
  IF answer = None \/ items = None THEN Missing
  ELSE IF SourceRaises(items) THEN Failed ELSE Computed(v)

BrokenRate(answer, citations, items) ==
  AgainstRetrieval(answer, items, Attributed(citations, Sources(citations) \ Pages(items)))
DocumentAttributionAccuracy(answer, citations, items) ==
  AgainstRetrieval(answer, items,
    Attributed(citations, {s \in Sources(citations) : s[1] \in Documents(items)}))

PageAttributionAccuracy(answer, citations, items) ==
  AgainstRetrieval(answer, items, Attributed(citations, Pages(items)))

(* The final context, when the target reports one, else the candidates.    *)
EvidenceUtilization(answer, citations, items) ==
  AgainstRetrieval(answer, items,
    LET cited == {_citation_source(c) : c \in ToSet(citations)}
    IN Counted({i \in DOMAIN items :
                  <<items[i].source.doc, items[i].source.page>> \in cited}, Len(items)))

(* citation.get("document_id"): a dumped Citation nests its document under  *)
(* "source", so the field is absent and no page or span is ever compared.   *)
CitedDocument(c) == None
BrokenCitations(answer, citations, items) ==
  IF answer = None \/ items = None \/ citations = <<>> THEN Missing
  ELSE IF SourceRaises(items) THEN Failed
  ELSE Computed(Counted({i \in DOMAIN citations :
                           CitedDocument(citations[i]) \notin Documents(items) \ {None}},
                        Len(citations)))

(* A claim is a span of the answer, or None and then linked to citations   *)
(* by id or not.                                                           *)
ClaimCovered(claim, citations) ==
  IF claim.span = None THEN claim.linked
  ELSE \E s \in ToSet(get_answer_span_union(citations)) : spans_overlap(claim.span, s)
ClaimCoverage(answer, claims, citations) ==
  Scored(answer # None /\ claims # None,
         Counted({i \in DOMAIN claims : ClaimCovered(claims[i], citations)}, Len(claims)))
UncitedClaimRate(answer, claims, citations) ==
  Complement(ClaimCoverage(answer, claims, citations))
MeanCitationsPerClaim(answer, claims, citations) ==
  Scored(answer # None /\ claims # None, safe_divide(Len(citations), Len(claims)))

(* faithfulness.* and hallucination.* without a judge: the labels of the   *)
(* target's own assessments, all unsupported when there are none.          *)
ClaimSupportRate(claims, labels) ==
  Scored(claims # None, Counted({i \in DOMAIN labels : labels[i]}, Len(labels)))
UnsupportedClaimRate(claims, labels) == Complement(ClaimSupportRate(claims, labels))

-----------------------------------------------------------------------------
(* decision.py                                                             *)

Actions        == {"accept", "reject", "abstain", "unknown"}
Answerabilities == {"ANSWERABLE", "UNANSWERABLE", "AMBIGUOUS", "UNKNOWN"}

_ActionRate(decision, action) == Scored(decision # None, Indicator(decision = action))
AcceptRate(decision)     == _ActionRate(decision, "accept")
RejectRate(decision)     == _ActionRate(decision, "reject")
AbstentionRate(decision) == _ActionRate(decision, "abstain")

Decided(decision, answerable) == None \notin {decision, answerable}

AnswerabilityAccuracy(decision, answerable) ==
  Scored(Decided(decision, answerable) /\ answerable \in {"ANSWERABLE", "UNANSWERABLE"},
         Indicator(<<decision, answerable>> \in {<<"accept", "ANSWERABLE">>,
                                                 <<"reject", "UNANSWERABLE">>}))
FalseAnswerRate(decision, answerable) ==
  Scored(Decided(decision, answerable),
         Indicator(decision = "accept" /\ answerable = "UNANSWERABLE"))
FalseAbstentionRate(decision, answerable) ==
  Scored(Decided(decision, answerable),
         Indicator(decision = "abstain" /\ answerable = "ANSWERABLE"))
AbstentionPrecision(decision, answerable) ==
  Scored(Decided(decision, answerable) /\ decision = "abstain",
         Indicator(answerable = "UNANSWERABLE"))
AbstentionRecall(decision, answerable) ==
  Scored(Decided(decision, answerable) /\ answerable = "UNANSWERABLE",
         Indicator(decision = "abstain"))
=============================================================================
