-------------------------- MODULE BenchmarkCatalogue --------------------------
(***************************************************************************)
(* services/benchmark_service.py over db/benchmark_repository.py: the      *)
(* cases, documents and chunks of benchmarks, edited by concurrent         *)
(* requests, the content hash each edit refreshes, and what start_run and  *)
(* execute_run of services/test_service.py rely on it for.                 *)
(*                                                                         *)
(* A request reads the content, computes what it leaves behind and its     *)
(* hash, and commits; others commit in between. The hash is injective, so  *)
(* it is the content that was hashed. A document is the set of chunks that *)
(* it holds as JSON, {} for a document that is not made of chunks.         *)
(***************************************************************************)
EXTENDS Naturals, FiniteSets

CONSTANTS
  Benchmarks,   \* benchmark ids
  Cases,        \* case ids, primary keys across all benchmarks
  Chunks,       \* chunk ids, likewise
  Uploads,      \* documents that are uploaded, as sets of chunks
  Imports,      \* contents that a benchmark is created with
  Requests,     \* requests that may be in progress at once
  Runs,         \* run ids
  MaxEdits      \* bound: edits begun

Modes   == {"DOCUMENTS", "CHUNKS", "EXTERNAL"}
Content == [mode : Modes, cases : SUBSET Cases,
            documents : SUBSET SUBSET Chunks, chunks : SUBSET Chunks]

ASSUME UploadsAssumption == Uploads \subseteq SUBSET Chunks
ASSUME EditsAssumption == MaxEdits \in Nat
ASSUME ImportsAssumption == Imports \subseteq Content
ASSUME IdsAssumption == Benchmarks # {} /\ Runs # {}

Empty(mode) == [mode |-> mode, cases |-> {}, documents |-> {}, chunks |-> {}]

VARIABLES
  life,      \* whether the benchmark's row exists
  content,   \* the committed rows of a benchmark
  hash,      \* the content its content_hash was computed from
  request,   \* the open transaction of each request
  run,       \* the runs, with their snapshot and their case executions
  overlapped,  \* benchmarks that requests edited at the same time
  converted,   \* benchmarks converted since their hash was computed
  edits        \* number of edits begun

vars == <<life, content, hash, request, run, overlapped, converted,
          edits>>

(* view is the content as the transaction read it, next what it intends.   *)
Request == [pc : {"idle", "editing", "starting"}, benchmark : Benchmarks,
            view : Content, next : Content, rehash : BOOLEAN, run : Runs]
Run == [state : {"none", "pending", "executing", "failed"},
        benchmark : Benchmarks, hash : Content, cases : SUBSET Cases]

NoRequest == [pc |-> "idle", benchmark |-> CHOOSE b \in Benchmarks : TRUE,
              view |-> Empty("DOCUMENTS"), next |-> Empty("DOCUMENTS"),
              rehash |-> FALSE, run |-> CHOOSE r \in Runs : TRUE]
NoRun == [state |-> "none", benchmark |-> CHOOSE b \in Benchmarks : TRUE,
          hash |-> Empty("DOCUMENTS"), cases |-> {}]

TypeOK ==
  /\ life \in [Benchmarks -> {"unknown", "registered", "deleted"}]
  /\ content \in [Benchmarks -> Content]
  /\ hash \in [Benchmarks -> Content]
  /\ request \in [Requests -> Request]
  /\ run \in [Runs -> Run]
  /\ overlapped \subseteq Benchmarks
  /\ converted \subseteq Benchmarks
  /\ edits \in Nat

Init ==
  /\ life = [b \in Benchmarks |-> "unknown"]
  /\ content = [b \in Benchmarks |-> Empty("DOCUMENTS")]
  /\ hash = [b \in Benchmarks |-> Empty("DOCUMENTS")]
  /\ request = [q \in Requests |-> NoRequest]
  /\ run = [r \in Runs |-> NoRun]
  /\ overlapped = {} /\ converted = {}
  /\ edits = 0

Registered(b) == life[b] = "registered"
UsedCases == UNION {run[r].cases : r \in {r \in Runs : run[r].state # "none"}}
TakenCases == UNION {content[b].cases : b \in Benchmarks}
TakenChunks == UNION {content[b].chunks : b \in Benchmarks}

-----------------------------------------------------------------------------
(* What an edit makes of the content it has read.                          *)

WithCases(c, new) == [c EXCEPT !.cases = @ \cup new]
WithoutCase(c, old) == [c EXCEPT !.cases = @ \ {old}]
WithDocument(c, new) == [c EXCEPT !.documents = @ \cup {new}]
WithoutDocument(c, old) == [c EXCEPT !.documents = @ \ {old}]
WithChunks(c, new) == [c EXCEPT !.chunks = @ \cup new]
WithoutChunk(c, old) == [c EXCEPT !.chunks = @ \ {old}]

(* _chunks_to_documents: one JSON document takes the place of the chunks.  *)
AsDocuments(c) ==
  [c EXCEPT !.mode = "DOCUMENTS", !.chunks = {},
            !.documents = IF c.chunks = {} THEN @ ELSE @ \cup {c.chunks}]

(* _documents_to_chunks: every document must hold chunks, none of them     *)
(* twice, and none that exists already.                                    *)
Convertible(c) ==
  /\ {} \notin c.documents
  /\ \A d, e \in c.documents : d # e => d \cap e = {}
  /\ (UNION c.documents) \cap TakenChunks = {}

AsChunks(c) ==
  [c EXCEPT !.mode = "CHUNKS", !.documents = {},
            !.chunks = @ \cup UNION c.documents]

Begin(q, b, next, rehash) ==
  /\ request[q].pc = "idle"
  /\ Registered(b)
  /\ edits < MaxEdits
  /\ edits' = edits + 1
  /\ request' = [request EXCEPT ![q] =
       [@ EXCEPT !.pc = "editing", !.benchmark = b, !.view = content[b],
                 !.next = next, !.rehash = rehash]]
  /\ UNCHANGED <<life, content, hash, run, overlapped, converted>>

EditCases(q, b) ==
  \/ \E new \in SUBSET Cases \ {{}} :
       /\ new \cap TakenCases = {}
       /\ Begin(q, b, WithCases(content[b], new), TRUE)
  \/ \E old \in content[b].cases :
       Begin(q, b, WithoutCase(content[b], old), TRUE)

(* Additions require the mode; removals do not ask for it.                 *)
EditDocuments(q, b) ==
  \/ \E new \in Uploads :
       /\ content[b].mode = "DOCUMENTS"
       /\ new \notin content[b].documents
       /\ Begin(q, b, WithDocument(content[b], new), TRUE)
  \/ \E old \in content[b].documents :
       Begin(q, b, WithoutDocument(content[b], old), TRUE)

EditChunks(q, b) ==
  \/ \E new \in SUBSET Chunks \ {{}} :
       /\ content[b].mode = "CHUNKS"
       /\ new \cap TakenChunks = {}
       /\ Begin(q, b, WithChunks(content[b], new), TRUE)
  \/ \E old \in content[b].chunks :
       Begin(q, b, WithoutChunk(content[b], old), TRUE)

(* set_corpus_mode does not refresh the content hash.                      *)
ChangeMode(q, b) ==
  \/ /\ content[b].mode = "CHUNKS"
     /\ Begin(q, b, AsDocuments(content[b]), FALSE)
  \/ /\ content[b].mode = "DOCUMENTS"
     /\ Convertible(content[b])
     /\ Begin(q, b, AsChunks(content[b]), FALSE)

-----------------------------------------------------------------------------
(* Commits. Rows are inserted and deleted one by one, so the outcome is    *)
(* what is committed by then with this request's changes applied.          *)

Applied(now, view, next) ==
  [mode      |-> IF next.mode # view.mode THEN next.mode ELSE now.mode,
   cases     |-> (now.cases \ (view.cases \ next.cases))
                   \cup (next.cases \ view.cases),
   documents |-> (now.documents \ (view.documents \ next.documents))
                   \cup (next.documents \ view.documents),
   chunks    |-> (now.chunks \ (view.chunks \ next.chunks))
                   \cup (next.chunks \ view.chunks)]

Unrestricted(view, next) ==
  /\ (next.cases \ view.cases) \cap TakenCases = {}
  /\ (next.chunks \ view.chunks) \cap TakenChunks = {}

(* Primary keys of cases and chunks; case executions restrict deletion.    *)
Accepted(view, next) ==
  /\ (next.cases \ view.cases) \cap TakenCases = {}
  /\ (next.chunks \ view.chunks) \cap TakenChunks = {}
  /\ (view.cases \ next.cases) \cap UsedCases = {}

NeverRefreshed(q) == hash[request[q].benchmark]

(* _refresh_content_hash hashes the content as this transaction sees it.   *)
HashAfter(q) ==
  IF request[q].rehash THEN request[q].next ELSE hash[request[q].benchmark]

CommitEdit(q) ==
  LET b == request[q].benchmark
      view == request[q].view
      next == request[q].next
  IN /\ request[q].pc = "editing"
     /\ Registered(b)
     /\ Accepted(view, next)
     /\ content' = [content EXCEPT ![b] = Applied(@, view, next)]
     /\ hash' = [hash EXCEPT ![b] = HashAfter(q)]
     /\ overlapped' = IF content[b] = view THEN overlapped
                      ELSE overlapped \cup {b}
     /\ converted' = IF request[q].rehash THEN converted \ {b}
                     ELSE converted \cup {b}
     /\ request' = [request EXCEPT ![q] = NoRequest]
     /\ UNCHANGED <<life, run, edits>>

(* create, create_benchmark_from_files and register: all in one            *)
(* transaction; each mode has its own kind of corpus.                      *)
FromFiles(mode, cases, documents, chunks) ==
  [mode |-> mode, cases |-> cases,
   documents |-> IF mode = "DOCUMENTS" THEN documents ELSE {},
   chunks |-> IF mode = "CHUNKS" THEN chunks ELSE {}]

Create(b, new) ==
  /\ life[b] = "unknown"
  /\ new.cases \cap TakenCases = {}
  /\ new.chunks \cap TakenChunks = {}
  /\ life' = [life EXCEPT ![b] = "registered"]
  /\ content' = [content EXCEPT ![b] = new]
  /\ hash' = [hash EXCEPT ![b] = new]
  /\ UNCHANGED <<request, run, overlapped, converted, edits>>

(* The rows go with the benchmark, unless a run executes one of the cases. *)
Delete(b) ==
  /\ Registered(b)
  /\ content[b].cases \cap UsedCases = {}
  /\ life' = [life EXCEPT ![b] = "deleted"]
  /\ content' = [content EXCEPT ![b] = Empty("DOCUMENTS")]
  /\ hash' = [hash EXCEPT ![b] = Empty("DOCUMENTS")]
  /\ UNCHANGED <<request, run, overlapped, converted, edits>>

Rollback(q) ==
  /\ request[q].pc # "idle"
  /\ request' = [request EXCEPT ![q] = NoRequest]
  /\ UNCHANGED <<life, content, hash, run, overlapped, converted, edits>>

-----------------------------------------------------------------------------
(* Runs.                                                                   *)

(* start_run validates first; the manifest it read then is what its        *)
(* snapshot says of the benchmark.                                         *)
BeginStart(q, b, r) ==
  /\ request[q].pc = "idle"
  /\ Registered(b) /\ content[b].cases # {}
  /\ run[r].state = "none"
  /\ \A o \in Requests : request[o].pc = "starting" => request[o].run # r
  /\ request' = [request EXCEPT ![q] =
       [@ EXCEPT !.pc = "starting", !.benchmark = b, !.view = hash[b],
                 !.run = r]]
  /\ UNCHANGED <<life, content, hash, run, overlapped, converted, edits>>

(* The cases are listed later than that.                                   *)
CommitStart(q) ==
  LET b == request[q].benchmark IN
  /\ request[q].pc = "starting"
  /\ Registered(b)
  /\ run' = [run EXCEPT ![request[q].run] =
       [state |-> "pending", benchmark |-> b, hash |-> request[q].view,
        cases |-> content[b].cases]]
  /\ request' = [request EXCEPT ![q] = NoRequest]
  /\ UNCHANGED <<life, content, hash, overlapped, converted, edits>>

StillThere(r) == Registered(run[r].benchmark)

(* execute_run compares the hash with the one of the snapshot.             *)
SameBenchmark(r) ==
  /\ Registered(run[r].benchmark)
  /\ hash[run[r].benchmark] = run[r].hash

Execute(r) ==
  /\ run[r].state \in {"pending", "failed"}
  /\ SameBenchmark(r)
  /\ run' = [run EXCEPT ![r].state = "executing"]
  /\ UNCHANGED <<life, content, hash, request, overlapped, converted, edits>>

RefuseExecution(r) ==
  /\ run[r].state = "pending"
  /\ ~SameBenchmark(r)
  /\ run' = [run EXCEPT ![r].state = "failed"]
  /\ UNCHANGED <<life, content, hash, request, overlapped, converted, edits>>

Next ==
  \/ \E b \in Benchmarks :
       \/ \E i \in Imports :
            Create(b, FromFiles(i.mode, i.cases, i.documents, i.chunks))
       \/ Delete(b)
       \/ \E q \in Requests :
            \/ EditCases(q, b)
            \/ EditDocuments(q, b)
            \/ EditChunks(q, b)
            \/ ChangeMode(q, b)
            \/ \E r \in Runs : BeginStart(q, b, r)
  \/ \E q \in Requests : CommitEdit(q) \/ CommitStart(q) \/ Rollback(q)
  \/ \E r \in Runs : Execute(r) \/ RefuseExecution(r)

Spec == Init /\ [][Next]_vars

-----------------------------------------------------------------------------
(* Unless two requests overlapped, or the corpus was converted by the last *)
(* edit, the content hash identifies the content (_refresh_content_hash).  *)
HashFollowsSerialEdits ==
  \A b \in Benchmarks : b \notin overlapped \cup converted => hash[b] = content[b]

(* Requests that do not overlap keep one representation of the corpus:     *)
(* documents in DOCUMENTS mode, chunks in CHUNKS mode, neither in EXTERNAL *)
(* mode; a conversion by itself does not break that.                       *)
OneRepresentation(c) ==
  /\ c.mode # "DOCUMENTS" => c.documents = {}
  /\ c.mode # "CHUNKS" => c.chunks = {}
ModeMatchesCorpus ==
  \A b \in Benchmarks : b \notin overlapped => OneRepresentation(content[b])

(* A case that a run executes is never deleted, neither by itself nor with *)
(* its benchmark, whatever the order of the two commits.                   *)
RunCasesExist ==
  \A r \in Runs : run[r].state # "none" =>
    run[r].cases \subseteq content[run[r].benchmark].cases

(* A run that passes the check of execute_run executes only cases that the *)
(* content hash of its snapshot covers, although the two were read at      *)
(* different moments: an edit in between is refused by the check, and one  *)
(* that would restore the hash by the case executions themselves.          *)
ExecutedCasesAreHashed ==
  \A r \in Runs :
    run[r].state = "executing" /\ run[r].benchmark \notin overlapped =>
      run[r].cases \subseteq run[r].hash.cases

(* What requests that do not overlap can rely on.                          *)
SerialEditsAreSound == HashFollowsSerialEdits /\ ModeMatchesCorpus

=============================================================================
