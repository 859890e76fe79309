-------------------------- MODULE MCTargetCatalogue --------------------------
(* TargetCatalogue on small instances. *)
EXTENDS TargetCatalogue, TLC

CONSTANT b1

SomeDocuments == [body : {b1}, secret : {"none", "plain", "reference"}]

(* Sessions are interchangeable: no CHOOSE ranges over them. *)
SessionSymmetry == Permutations(Sessions)

=============================================================================
