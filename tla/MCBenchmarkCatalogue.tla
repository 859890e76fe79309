------------------------- MODULE MCBenchmarkCatalogue -------------------------
(* BenchmarkCatalogue on small instances. *)
EXTENDS BenchmarkCatalogue, TLC

CONSTANTS c1, h1

(* A chunk document, and imports that carry both kinds of corpus. *)
ChunkDocument == {{h1}}
SomeImports ==
  {[mode |-> m, cases |-> {c1}, documents |-> ChunkDocument, chunks |-> {h1}]
     : m \in {"DOCUMENTS", "EXTERNAL"}} \cup {Empty("CHUNKS")}

(* Requests are interchangeable: no CHOOSE ranges over them. *)
RequestSymmetry == Permutations(Requests)

=============================================================================
