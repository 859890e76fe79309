--------------------------- MODULE RetrievalMetrics ---------------------------
(***************************************************************************)
(* metrics/retrieval.py, metrics/stage_delta.py and the matching of        *)
(* metrics/helpers.py: what each retrieval metric says of the gold         *)
(* evidence of a case and a ranking of retrieved items. A stage that the   *)
(* target did not report is None. Ids of documents are non-empty.          *)
(***************************************************************************)
EXTENDS MetricValues

CONSTANTS
  K,          \* the cut-off the metrics are registered with
  Discount    \* 1 / log2(rank + 1), scaled to a decreasing integer function

ASSUME DiscountAssumption ==
  /\ K \in Nat \ {0}
  /\ \A i \in DOMAIN Discount, j \in DOMAIN Discount :
       i < j => Discount[i] > Discount[j] /\ Discount[j] > 0

top_k(items) == SubSeq(items, 1, IF Len(items) < K THEN Len(items) ELSE K)

_is_item_relevant(item, gold) ==
  item.source # None /\ \E g \in ToSet(gold) : g.doc = item.source.doc

Relevant(items, gold) == {i \in DOMAIN items : _is_item_relevant(items[i], gold)}

spans_overlap(a, b) ==
  (IF a[1] > b[1] THEN a[1] ELSE b[1]) < (IF a[2] < b[2] THEN a[2] ELSE b[2])

(* match_gold_evidence for one evidence: the ranks that match it exactly,  *)
(* by page and by document only.                                           *)
InDocument(g, items) ==
  {i \in DOMAIN items : items[i].source # None /\ items[i].source.doc = g.doc}
OnPage(g, items) ==
  {i \in InDocument(g, items) : g.page # None /\ items[i].source.page = g.page}
Overlapping(g, items) ==
  {i \in InDocument(g, items) : /\ g.span # None
                                /\ items[i].source.span # None
                                /\ spans_overlap(g.span, items[i].source.span)}
SpanMatch(g, items) ==
  IF Overlapping(g, items) # {} THEN <<"span", Min(Overlapping(g, items))>>
  ELSE IF OnPage(g, items) # {} THEN <<"page", Max(OnPage(g, items))>>
  ELSE IF InDocument(g, items) # {} THEN <<"document", Min(InDocument(g, items))>>
  ELSE <<>>

match_gold_evidence(gold, items) ==
  {j \in DOMAIN gold : SpanMatch(gold[j], items) # <<>>}

(* item.get("source", {}) of an item without a source is None, and the     *)
(* matching raises on it unless a span was matched at an earlier rank.     *)
MatchingRaises(gold, items) ==
  \E g \in ToSet(gold), i \in DOMAIN items :
    items[i].source = None /\ \A j \in Overlapping(g, items) : i < j
SourceRaises(items) == \E i \in DOMAIN items : items[i].source = None

Available(gold, items) == gold # <<>> /\ items # None
Guarded(gold, items, raises, v) ==
  IF ~Available(gold, items) THEN Missing ELSE IF raises THEN Failed ELSE Computed(v)

HitAtK(gold, items) ==
  Scored(Available(gold, items), Indicator(Relevant(top_k(items), gold) # {}))

PrecisionAtK(gold, items) ==
  Scored(Available(gold, items), Counted(Relevant(top_k(items), gold), K))

RecallAtK(gold, items) ==
  Guarded(gold, items, MatchingRaises(gold, top_k(items)),
          Counted(match_gold_evidence(gold, top_k(items)), Len(gold)))

(* Mutant: the loop over the ranks does not stop at the first relevant one. *)
LastRelevant(gold, items) == Max(Relevant(items, gold))

FirstRelevant(gold, items) == Min(Relevant(items, gold))

MRR(gold, items) ==
  Scored(Available(gold, items),
         IF Relevant(items, gold) = {} THEN Zero ELSE <<1, FirstRelevant(gold, items)>>)

MAPAtK(gold, items) ==
  LET found  == Relevant(top_k(items), gold)
      at(i)  == Counted({j \in found : j <= i}, i)
      best   == IF Len(gold) < K THEN Len(gold) ELSE K
  IN Scored(Available(gold, items),
            Times(FoldSet(LAMBDA i, s : Plus(at(i), s), Zero, found), <<1, best>>))

Gain(ranks) == MapThenSumSet(LAMBDA i : Discount[i], ranks)

NDCGAtK(gold, items) ==
  LET found == Cardinality(Relevant(items, gold))
      ideal == 1..(IF found < K THEN found ELSE K)
  IN Scored(Available(gold, items),
            safe_divide(Gain(Relevant(top_k(items), gold)), Gain(ideal)))

RPrecision(gold, items) ==
  LET cutoff == IF Len(gold) < Len(items) THEN Len(gold) ELSE Len(items)
  IN Scored(Available(gold, items),
            Counted({i \in Relevant(items, gold) : i <= cutoff}, cutoff))

F1AtK(gold, items) ==
  Guarded(gold, items, MatchingRaises(gold, top_k(items)),
          Harmonic(Counted(Relevant(top_k(items), gold), K),
                   Counted(match_gold_evidence(gold, top_k(items)), Len(gold))))

FirstRelevantRank(gold, items) ==
  Scored(Available(gold, items),
         IF Relevant(top_k(items), gold) = {} THEN None
         ELSE <<FirstRelevant(gold, items), 1>>)

Documents(items) == {items[i].source.doc : i \in DOMAIN items}
Pages(items)     == {<<items[i].source.doc, items[i].source.page>> : i \in DOMAIN items}
GoldDocuments(gold) == {g.doc : g \in ToSet(gold)}
GoldPages(gold)     == {<<g.doc, g.page>> : g \in ToSet(gold)}

(* Mutant: the cut-off is forgotten.                                       *)
DocumentRecallOfAll(gold, items) ==
  Guarded(gold, items, SourceRaises(items),
          Counted(Documents(items) \cap GoldDocuments(gold),
                  Cardinality(GoldDocuments(gold))))

DocumentRecall(gold, items) ==
  Guarded(gold, items, SourceRaises(top_k(items)),
          Counted(Documents(top_k(items)) \cap GoldDocuments(gold),
                  Cardinality(GoldDocuments(gold))))

PageRecall(gold, items) ==
  Guarded(gold, items, SourceRaises(top_k(items)),
          Counted(Pages(top_k(items)) \cap GoldPages(gold), Cardinality(GoldPages(gold))))

-----------------------------------------------------------------------------
(* stage_delta.py: the same ranking before and after a stage.              *)

_pair(before, after) == before # None /\ after # None

Delta(paired, first, second) == IF paired THEN Change(first, second) ELSE Missing

RecallDelta(gold, before, after) ==
  Delta(_pair(before, after), RecallAtK(gold, before), RecallAtK(gold, after))
PrecisionDelta(gold, before, after) ==
  Delta(_pair(before, after), PrecisionAtK(gold, before), PrecisionAtK(gold, after))
NDCGDelta(gold, before, after) ==
  Delta(_pair(before, after), NDCGAtK(gold, before), NDCGAtK(gold, after))
MRRDelta(gold, before, after) ==
  Delta(_pair(before, after), MRR(gold, before), MRR(gold, after))
MAPDelta(gold, before, after) ==
  Delta(_pair(before, after), MAPAtK(gold, before), MAPAtK(gold, after))

GoldRetention(gold, before, after) ==
  IF ~_pair(before, after) \/ gold = <<>> THEN Missing
  ELSE IF MatchingRaises(gold, before) \/ MatchingRaises(gold, after) THEN Failed
  ELSE Computed(Counted(match_gold_evidence(gold, before)
                          \cap match_gold_evidence(gold, after), Len(gold)))

(* Calls self._items, which only _SetDelta defines.                        *)
NoiseRejection(gold, before, after) ==
  IF ~_pair(before, after) \/ gold = <<>> THEN Missing ELSE Failed

Ids(items) == {items[i].id : i \in DOMAIN items}
SourceIds(items) ==
  {IF items[i].source = None THEN None ELSE items[i].source.doc : i \in DOMAIN items}

ItemRetentionRate(before, after) ==
  Scored(_pair(before, after),
         Counted(Ids(before) \cap Ids(after), Cardinality(Ids(before))))

TopKChurn(before, after) ==
  LET b == Ids(top_k(before))
      a == Ids(top_k(after))
  IN Scored(_pair(before, after), Minus(One, Counted(a \cap b, Cardinality(a \cup b))))

SourceRetentionRate(before, after) ==
  Scored(_pair(before, after),
         Counted(SourceIds(before) \cap SourceIds(after), Cardinality(SourceIds(before))))

_rank_delta(gold, before, after) ==
  Scored(_pair(before, after) /\ gold # <<>>,
         IF {} \in {Relevant(before, gold), Relevant(after, gold)} THEN None
         ELSE <<FirstRelevant(gold, before) - FirstRelevant(gold, after), 1>>)

RankGain(gold, before, after) == _rank_delta(gold, before, after)
RankRegression(gold, before, after) ==
  LET gain == _rank_delta(gold, before, after)
  IN IF is_computed(gain) THEN Computed(Minus(Zero, gain.value)) ELSE gain

(* advanced.py computes retention and churn of a linked pair again; its    *)
(* stages are linked by their parents, and churn is not cut off.           *)
AdvancedRetention(before, after) ==
  Scored(_pair(before, after),
         <<Cardinality(Ids(before) \cap Ids(after)), Max({Cardinality(Ids(before)), 1})>>)
AdvancedChurn(before, after) ==
  Scored(_pair(before, after),
         Minus(One, <<Cardinality(Ids(before) \cap Ids(after)),
                      Max({Cardinality(Ids(before) \cup Ids(after)), 1})>>))
=============================================================================
