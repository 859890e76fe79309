----------------------------- MODULE MCTestDesign -----------------------------
(* TestDesign on a small instance: one metric needs what the benchmark has *)
(* and what the target offers, the other one a judge.                      *)
EXTENDS TestDesign, TLC

CONSTANTS k1, k2, c1, recall, judged

SomeNeeds == (recall :> {"retrieval", "gold"}) @@ (judged :> {"judge"})
SomeCaseOffers == c1 :> {"gold"}
SomeConfigOffers == (k1 :> {"retrieval"}) @@ (k2 :> {})
SomeObservables == {{}, {"retrieval"}}

=============================================================================
