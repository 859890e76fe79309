--------------------------- MODULE MCCaseObservation ---------------------------
(* Two documents of two pages, an item without a source, four cases (with  *)
(* one piece of evidence, two in one document, one in each, and none), a   *)
(* vocabulary in which words differ by case and by punctuation only.       *)
EXTENDS CaseObservation

At(doc, page, span) == [doc |-> doc, page |-> page, span |-> span]

MCCases ==
  {[gold |-> <<At("d1", 1, <<0, 2>>)>>, reference |-> <<"Yes", "b">>, answerable |-> "ANSWERABLE"],
   [gold |-> <<At("d1", 1, None), At("d1", 2, <<0, 2>>)>>, reference |-> <<"yes">>,
    answerable |-> "AMBIGUOUS"],
   [gold |-> <<At("d1", None, None), At("d2", 1, <<1, 3>>)>>, reference |-> <<>>,
    answerable |-> None],
   [gold |-> <<>>, reference |-> None, answerable |-> "UNANSWERABLE"]}

MCItems ==
  {[id |-> "i1", source |-> At("d1", 1, <<0, 1>>)],
   [id |-> "i2", source |-> At("d1", 2, None)],
   [id |-> "i3", source |-> At("d2", 1, <<2, 4>>)],
   [id |-> "i4", source |-> None]}

MCCitations ==
  {[source |-> At("d1", 1, None), span |-> <<0, 2>>],
   [source |-> At("d1", 2, None), span |-> <<1, 3>>],
   [source |-> At("d2", 1, None), span |-> <<0, 4>>],
   [source |-> None, span |-> None]}

MCClaims ==
  {[span |-> <<0, 1>>, linked |-> FALSE], [span |-> <<2, 4>>, linked |-> TRUE],
   [span |-> None, linked |-> FALSE]}

MCTraceSpans ==
  {[id |-> 1, name |-> "retrieval", duration |-> 2, start |-> 0, end |-> 2, failed |-> FALSE],
   [id |-> 2, name |-> "generation", duration |-> 3, start |-> 1, end |-> 4, failed |-> TRUE],
   [id |-> 3, name |-> "retrieval", duration |-> 1, start |-> 6, end |-> 7, failed |-> FALSE],
   [id |-> 4, name |-> "query", duration |-> 5, start |-> 0, end |-> None, failed |-> FALSE],
   [id |-> 2, name |-> "answer", duration |-> 1, start |-> 2, end |-> 3, failed |-> FALSE],
   [id |-> 5, name |-> "embed", duration |-> None, start |-> 3, end |-> 5, failed |-> FALSE],
   [id |-> 6, name |-> "total", duration |-> 1, start |-> 0, end |-> 1, failed |-> FALSE]}

Tokens(i, o, t) == [input |-> i, output |-> o, total |-> t]
MCUsages ==
  {[tokens |-> Tokens(2, 1, 3), cost |-> 2, context_tokens |-> 2, total_tokens |-> None],
   [tokens |-> Tokens(None, None, 3), cost |-> None, context_tokens |-> None, total_tokens |-> 4],
   [tokens |-> Tokens(None, None, None), cost |-> 1, context_tokens |-> 0, total_tokens |-> None]}

MCWords == {"Yes", "yes", "yes!", "b"}
MCWidth == [w \in MCWords |-> IF w = "b" THEN 1 ELSE IF w = "yes!" THEN 4 ELSE 3]
MCCasefolded == [w \in MCWords |-> IF w = "Yes" THEN "yes" ELSE w]
MCNormal == [w \in MCWords |-> IF w = "b" THEN "b" ELSE "yes"]
MCDiscount == <<12, 8, 6, 5>>
=============================================================================
