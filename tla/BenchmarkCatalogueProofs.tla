----------------------- MODULE BenchmarkCatalogueProofs -----------------------
(***************************************************************************)
(* For any number of requests, benchmarks and runs: the content hash       *)
(* follows edits that do not overlap, the corpus keeps one representation, *)
(* and no run executes a case that is gone or that its snapshot's hash     *)
(* does not cover. A conversion leaves the cases alone, which is why a run *)
(* of a converted benchmark is still safe although its hash is stale.      *)
(***************************************************************************)
EXTENDS BenchmarkCatalogue, TLAPS

(* What an open edit has computed from the content it read.                *)
Prepared(x) ==
  x.pc = "editing" =>
    /\ OneRepresentation(x.view) => OneRepresentation(x.next)
    /\ ~x.rehash => x.next.cases = x.view.cases

CasesAreHashed ==
  \A b \in Benchmarks : b \notin overlapped => hash[b].cases = content[b].cases

Unborn == \A b \in Benchmarks : life[b] = "unknown" => content[b].cases = {}

BenchmarkInv ==
  /\ TypeOK
  /\ HashFollowsSerialEdits
  /\ ModeMatchesCorpus
  /\ RunCasesExist
  /\ ExecutedCasesAreHashed
  /\ \A q \in Requests : Prepared(request[q])
  /\ CasesAreHashed
  /\ Unborn

-----------------------------------------------------------------------------
(* Contents *)

LEMMA EmptyContent ==
  /\ Empty("DOCUMENTS") \in Content
  /\ Empty("DOCUMENTS").cases = {}
  /\ OneRepresentation(Empty("DOCUMENTS"))
BY DEF Empty, Content, Modes, OneRepresentation

LEMMA NothingYet ==
  /\ NoRequest \in Request /\ NoRequest.pc = "idle"
  /\ NoRun \in Run /\ NoRun.state = "none"
<1>1. (CHOOSE b \in Benchmarks : TRUE) \in Benchmarks /\ (CHOOSE r \in Runs : TRUE) \in Runs
  BY IdsAssumption
<1> QED
  BY <1>1, EmptyContent DEF NoRequest, NoRun, Request, Run

LEMMA ContentEdits ==
  ASSUME NEW c \in Content
  PROVE  /\ \A new \in SUBSET Cases :
              /\ WithCases(c, new) \in Content
              /\ OneRepresentation(c) => OneRepresentation(WithCases(c, new))
         /\ \A old : /\ WithoutCase(c, old) \in Content
                     /\ OneRepresentation(c) => OneRepresentation(WithoutCase(c, old))
         /\ \A new \in SUBSET Chunks :
              /\ WithDocument(c, new) \in Content
              /\ WithChunks(c, new) \in Content
              /\ OneRepresentation(c) /\ c.mode = "DOCUMENTS" =>
                   OneRepresentation(WithDocument(c, new))
              /\ OneRepresentation(c) /\ c.mode = "CHUNKS" =>
                   OneRepresentation(WithChunks(c, new))
         /\ \A old : /\ WithoutDocument(c, old) \in Content
                     /\ OneRepresentation(c) => OneRepresentation(WithoutDocument(c, old))
                     /\ WithoutChunk(c, old) \in Content
                     /\ OneRepresentation(c) => OneRepresentation(WithoutChunk(c, old))
<1>1. c = [mode |-> c.mode, cases |-> c.cases, documents |-> c.documents, chunks |-> c.chunks]
      /\ c.mode \in Modes /\ c.cases \subseteq Cases
      /\ c.documents \subseteq SUBSET Chunks /\ c.chunks \subseteq Chunks
  BY DEF Content
<1>2. ASSUME NEW new \in SUBSET Cases
      PROVE  /\ WithCases(c, new) \in Content
             /\ OneRepresentation(c) => OneRepresentation(WithCases(c, new))
  BY <1>1 DEF WithCases, Content, OneRepresentation
<1>3. ASSUME NEW old
      PROVE  /\ WithoutCase(c, old) \in Content
             /\ OneRepresentation(c) => OneRepresentation(WithoutCase(c, old))
  BY <1>1 DEF WithoutCase, Content, OneRepresentation
<1>4. ASSUME NEW new \in SUBSET Chunks
      PROVE  /\ WithDocument(c, new) \in Content
             /\ OneRepresentation(c) /\ c.mode = "DOCUMENTS" =>
                  OneRepresentation(WithDocument(c, new))
  BY <1>1 DEF WithDocument, Content, OneRepresentation
<1>5. ASSUME NEW new \in SUBSET Chunks
      PROVE  /\ WithChunks(c, new) \in Content
             /\ OneRepresentation(c) /\ c.mode = "CHUNKS" =>
                  OneRepresentation(WithChunks(c, new))
  BY <1>1 DEF WithChunks, Content, OneRepresentation
<1>6. ASSUME NEW old
      PROVE  /\ WithoutDocument(c, old) \in Content
             /\ OneRepresentation(c) => OneRepresentation(WithoutDocument(c, old))
  BY <1>1 DEF WithoutDocument, Content, OneRepresentation
<1>7. ASSUME NEW old
      PROVE  /\ WithoutChunk(c, old) \in Content
             /\ OneRepresentation(c) => OneRepresentation(WithoutChunk(c, old))
  BY <1>1 DEF WithoutChunk, Content, OneRepresentation
<1> QED
  BY <1>2, <1>3, <1>4, <1>5, <1>6, <1>7

LEMMA Conversions ==
  ASSUME NEW c \in Content
  PROVE  /\ AsDocuments(c) \in Content /\ AsDocuments(c).cases = c.cases
         /\ OneRepresentation(AsDocuments(c))
         /\ AsChunks(c) \in Content /\ AsChunks(c).cases = c.cases
         /\ OneRepresentation(AsChunks(c))
<1>1. c.mode \in Modes /\ c.cases \subseteq Cases
      /\ c.documents \subseteq SUBSET Chunks /\ c.chunks \subseteq Chunks
  BY DEF Content
<1>2. AsDocuments(c) \in Content /\ AsDocuments(c).cases = c.cases
      /\ OneRepresentation(AsDocuments(c))
  BY <1>1 DEF AsDocuments, Content, Modes, OneRepresentation
<1>3. AsChunks(c) \in Content /\ AsChunks(c).cases = c.cases
      /\ OneRepresentation(AsChunks(c))
  BY <1>1 DEF AsChunks, Content, Modes, OneRepresentation
<1> QED
  BY <1>2, <1>3

(* Applied to the content it was computed from, an edit leaves what it     *)
(* intended.                                                               *)
LEMMA AppliedSerially ==
  ASSUME NEW now \in Content, NEW view \in Content, NEW next \in Content
  PROVE  /\ Applied(now, view, next) \in Content
         /\ now = view => Applied(now, view, next) = next
         /\ Applied(now, view, next).cases =
              (now.cases \ (view.cases \ next.cases)) \cup (next.cases \ view.cases)
<1>1. Applied(now, view, next) \in Content
  BY DEF Applied, Content
<1>2. ASSUME now = view PROVE Applied(now, view, next) = next
  <2>1. next = [mode |-> next.mode, cases |-> next.cases,
                documents |-> next.documents, chunks |-> next.chunks]
    BY DEF Content
  <2>2. \A V, N : (V \ (V \ N)) \cup (N \ V) = N
    OBVIOUS
  <2> QED
    BY <1>2, <2>1, <2>2 DEF Applied
<1>3. Applied(now, view, next).cases =
        (now.cases \ (view.cases \ next.cases)) \cup (next.cases \ view.cases)
  BY DEF Applied
<1> QED
  BY <1>1, <1>2, <1>3

-----------------------------------------------------------------------------
(* Requests *)

LEMMA RequestMove ==
  ASSUME BenchmarkInv, NEW q \in Requests, NEW x \in Request, Prepared(x),
         request' = [request EXCEPT ![q] = x], edits' \in Nat,
         UNCHANGED <<life, content, hash, run, overlapped, converted>>
  PROVE  BenchmarkInv'
<1> USE DEF BenchmarkInv
<1>1. TypeOK'
  BY DEF TypeOK
<1>2. HashFollowsSerialEdits' /\ ModeMatchesCorpus' /\ RunCasesExist'
      /\ ExecutedCasesAreHashed' /\ CasesAreHashed' /\ Unborn'
  BY DEF HashFollowsSerialEdits, ModeMatchesCorpus, RunCasesExist,
         ExecutedCasesAreHashed, CasesAreHashed, Unborn
<1>3. \A o \in Requests : Prepared(request'[o])
  BY DEF TypeOK
<1> QED
  BY <1>1, <1>2, <1>3 DEF Prepared

LEMMA BeginInv ==
  ASSUME BenchmarkInv, NEW q \in Requests, NEW b \in Benchmarks,
         NEW next \in Content, NEW rehash \in BOOLEAN, Begin(q, b, next, rehash),
         OneRepresentation(content[b]) => OneRepresentation(next),
         ~rehash => next.cases = content[b].cases
  PROVE  BenchmarkInv'
<1>1. request[q] \in Request /\ content[b] \in Content /\ edits \in Nat
  BY DEF BenchmarkInv, TypeOK
<1>2. PICK x : x = [request[q] EXCEPT !.pc = "editing", !.benchmark = b,
                      !.view = content[b], !.next = next, !.rehash = rehash]
  OBVIOUS
<1>3. x \in Request /\ x.view = content[b] /\ x.next = next /\ x.rehash = rehash
  BY <1>1, <1>2 DEF Request
<1>4. request' = [request EXCEPT ![q] = x]
  BY <1>1, <1>2 DEF Begin, BenchmarkInv, TypeOK, Request
<1>5. Prepared(x)
  BY <1>3 DEF Prepared
<1>6. edits' \in Nat /\ UNCHANGED <<life, content, hash, run, overlapped, converted>>
  BY <1>1 DEF Begin
<1> QED
  BY <1>3, <1>4, <1>5, <1>6, RequestMove

LEMMA EditInv ==
  ASSUME BenchmarkInv, NEW q \in Requests, NEW b \in Benchmarks,
         \/ EditCases(q, b)
         \/ EditDocuments(q, b)
         \/ EditChunks(q, b)
         \/ ChangeMode(q, b)
  PROVE  BenchmarkInv'
<1>1. content[b] \in Content
  BY DEF BenchmarkInv, TypeOK
<1>2. CASE EditCases(q, b)
  BY <1>1, <1>2, ContentEdits, BeginInv DEF EditCases
<1>3. CASE EditDocuments(q, b)
  BY <1>1, <1>3, ContentEdits, BeginInv, UploadsAssumption DEF EditDocuments
<1>4. CASE EditChunks(q, b)
  BY <1>1, <1>4, ContentEdits, BeginInv DEF EditChunks
<1>5. CASE ChangeMode(q, b)
  BY <1>1, <1>5, Conversions, BeginInv DEF ChangeMode
<1> QED
  BY <1>2, <1>3, <1>4, <1>5

LEMMA RollbackInv ==
  ASSUME BenchmarkInv, NEW q \in Requests, Rollback(q)
  PROVE  BenchmarkInv'
<1>1. Prepared(NoRequest) /\ edits \in Nat
  BY NothingYet DEF Prepared, BenchmarkInv, TypeOK
<1> QED
  BY <1>1, NothingYet, RequestMove DEF Rollback

LEMMA BeginStartInv ==
  ASSUME BenchmarkInv, NEW q \in Requests, NEW b \in Benchmarks, NEW r \in Runs,
         BeginStart(q, b, r)
  PROVE  BenchmarkInv'
<1>1. request[q] \in Request /\ hash[b] \in Content /\ edits \in Nat
  BY DEF BenchmarkInv, TypeOK
<1>2. PICK x : x = [request[q] EXCEPT !.pc = "starting", !.benchmark = b,
                      !.view = hash[b], !.run = r]
  OBVIOUS
<1>3. x \in Request /\ x.pc = "starting"
  BY <1>1, <1>2 DEF Request
<1>4. request' = [request EXCEPT ![q] = x]
  BY <1>1, <1>2 DEF BeginStart, BenchmarkInv, TypeOK, Request
<1> QED
  BY <1>1, <1>3, <1>4, RequestMove DEF BeginStart, Prepared

LEMMA CommitEditInv ==
  ASSUME BenchmarkInv, NEW q \in Requests, CommitEdit(q)
  PROVE  BenchmarkInv'
<1> USE DEF BenchmarkInv
<1>1. PICK x : x = request[q]
  OBVIOUS
<1>2. x \in Request /\ Prepared(x) /\ x.pc = "editing"
  BY <1>1 DEF TypeOK, CommitEdit
<1>3. PICK b \in Benchmarks : b = x.benchmark
  BY <1>2 DEF Request
<1>4. x.view \in Content /\ x.next \in Content /\ x.rehash \in BOOLEAN
      /\ content[b] \in Content /\ hash[b] \in Content
  BY <1>2 DEF Request, TypeOK
<1>5. PICK new : new = Applied(content[b], x.view, x.next)
  OBVIOUS
<1>6. /\ new \in Content
      /\ content[b] = x.view => new = x.next
      /\ new.cases = (content[b].cases \ (x.view.cases \ x.next.cases))
                       \cup (x.next.cases \ x.view.cases)
  BY <1>4, <1>5, AppliedSerially
<1>7. PICK h : h = IF x.rehash THEN x.next ELSE hash[b]
  OBVIOUS
<1>8. h \in Content
  BY <1>4, <1>7
<1>9. /\ life[b] = "registered" /\ Accepted(x.view, x.next)
      /\ content' = [content EXCEPT ![b] = new]
      /\ hash' = [hash EXCEPT ![b] = h]
      /\ overlapped' = IF content[b] = x.view THEN overlapped ELSE overlapped \cup {b}
      /\ converted' = IF x.rehash THEN converted \ {b} ELSE converted \cup {b}
      /\ request' = [request EXCEPT ![q] = NoRequest]
      /\ UNCHANGED <<life, run, edits>>
  BY <1>1, <1>3, <1>5, <1>7 DEF CommitEdit, HashAfter, Registered
<1>10. TypeOK'
  BY <1>6, <1>8, <1>9, NothingYet DEF TypeOK
<1>11. /\ content'[b] = new /\ hash'[b] = h
       /\ \A c \in Benchmarks \ {b} :
            /\ content'[c] = content[c] /\ hash'[c] = hash[c]
            /\ c \in overlapped' <=> c \in overlapped
            /\ c \in converted' <=> c \in converted
       /\ b \notin overlapped' => b \notin overlapped /\ content[b] = x.view
       /\ b \in converted' <=> ~x.rehash
  BY <1>3, <1>9 DEF TypeOK
<1>12. HashFollowsSerialEdits'
  <2> SUFFICES ASSUME NEW c \in Benchmarks, c \notin overlapped', c \notin converted'
               PROVE  hash'[c] = content'[c]
    BY DEF HashFollowsSerialEdits
  <2>1. CASE c = b
    BY <1>6, <1>7, <1>11, <2>1
  <2>2. CASE c # b
    BY <1>11, <2>2 DEF HashFollowsSerialEdits
  <2> QED
    BY <2>1, <2>2
<1>13. ModeMatchesCorpus'
  <2> SUFFICES ASSUME NEW c \in Benchmarks, c \notin overlapped'
               PROVE  OneRepresentation(content'[c])
    BY DEF ModeMatchesCorpus
  <2>1. CASE c = b
    BY <1>2, <1>6, <1>11, <2>1 DEF ModeMatchesCorpus, Prepared
  <2>2. CASE c # b
    BY <1>11, <2>2 DEF ModeMatchesCorpus
  <2> QED
    BY <2>1, <2>2
<1>14. (x.view.cases \ x.next.cases) \cap UsedCases = {}
  BY <1>9 DEF Accepted
<1>15. RunCasesExist'
  <2> SUFFICES ASSUME NEW r \in Runs, run[r].state # "none"
               PROVE  run[r].cases \subseteq content'[run[r].benchmark].cases
    BY <1>9 DEF RunCasesExist
  <2>1. run[r].cases \subseteq UsedCases
    BY DEF UsedCases
  <2>2. run[r].cases \subseteq content[run[r].benchmark].cases /\ run[r].benchmark \in Benchmarks
    BY DEF RunCasesExist, TypeOK, Run
  <2>3. CASE run[r].benchmark = b
    BY <1>6, <1>11, <1>14, <2>1, <2>2, <2>3
  <2>4. CASE run[r].benchmark # b
    BY <1>11, <2>2, <2>4
  <2> QED
    BY <2>3, <2>4
<1>16. ExecutedCasesAreHashed'
  <2>1. overlapped \subseteq overlapped'
    BY <1>9
  <2> QED
    BY <1>9, <2>1 DEF ExecutedCasesAreHashed
<1>17. \A o \in Requests : Prepared(request'[o])
  BY <1>9, NothingYet DEF Prepared, TypeOK
<1>18. CasesAreHashed'
  <2> SUFFICES ASSUME NEW c \in Benchmarks, c \notin overlapped'
               PROVE  hash'[c].cases = content'[c].cases
    BY DEF CasesAreHashed
  <2>1. CASE c = b
    <3>1. content[b] = x.view /\ b \notin overlapped /\ new = x.next
      BY <1>6, <1>11, <2>1
    <3>2. CASE x.rehash
      BY <1>7, <1>11, <2>1, <3>1, <3>2
    <3>3. CASE ~x.rehash
      BY <1>2, <1>7, <1>11, <2>1, <3>1, <3>3 DEF Prepared, CasesAreHashed
    <3> QED
      BY <3>2, <3>3
  <2>2. CASE c # b
    BY <1>11, <2>2 DEF CasesAreHashed
  <2> QED
    BY <2>1, <2>2
<1>19. Unborn'
  BY <1>9, <1>11 DEF Unborn
<1> QED
  BY <1>10, <1>12, <1>13, <1>15, <1>16, <1>17, <1>18, <1>19 DEF Prepared

-----------------------------------------------------------------------------
(* Benchmarks *)

(* One benchmark gets a content that is hashed, and no run loses a case.   *)
LEMMA WholeInv ==
  ASSUME BenchmarkInv, NEW b \in Benchmarks, NEW new \in Content,
         OneRepresentation(new),
         \A r \in Runs : run[r].state # "none" /\ run[r].benchmark = b =>
           run[r].cases \subseteq new.cases,
         life' \in [Benchmarks -> {"unknown", "registered", "deleted"}],
         life'[b] # "unknown",
         \A c \in Benchmarks \ {b} : life'[c] = life[c],
         content' = [content EXCEPT ![b] = new],
         hash' = [hash EXCEPT ![b] = new],
         UNCHANGED <<request, run, overlapped, converted, edits>>
  PROVE  BenchmarkInv'
<1> USE DEF BenchmarkInv
<1>1. TypeOK'
  BY DEF TypeOK
<1>2. /\ content'[b] = new /\ hash'[b] = new
      /\ \A c \in Benchmarks \ {b} : content'[c] = content[c] /\ hash'[c] = hash[c]
  BY DEF TypeOK
<1>3. HashFollowsSerialEdits' /\ ModeMatchesCorpus' /\ CasesAreHashed' /\ Unborn'
  BY <1>2 DEF HashFollowsSerialEdits, ModeMatchesCorpus, CasesAreHashed, Unborn
<1>4. RunCasesExist'
  BY <1>2 DEF RunCasesExist, TypeOK, Run
<1>5. ExecutedCasesAreHashed' /\ \A q \in Requests : Prepared(request'[q])
  BY DEF ExecutedCasesAreHashed
<1> QED
  BY <1>1, <1>3, <1>4, <1>5 DEF Prepared

LEMMA CreateInv ==
  ASSUME BenchmarkInv, NEW b \in Benchmarks, NEW i \in Imports,
         Create(b, FromFiles(i.mode, i.cases, i.documents, i.chunks))
  PROVE  BenchmarkInv'
<1>1. PICK new : new = FromFiles(i.mode, i.cases, i.documents, i.chunks)
  OBVIOUS
<1>2. i \in Content
  BY ImportsAssumption
<1>3. new \in Content /\ OneRepresentation(new)
  BY <1>1, <1>2 DEF FromFiles, Content, OneRepresentation
<1>4. Create(b, new)
  BY <1>1
<1>5. \A r \in Runs : run[r].state # "none" /\ run[r].benchmark = b => run[r].cases = {}
  BY <1>4 DEF Create, BenchmarkInv, RunCasesExist, Unborn
<1>6. /\ life' \in [Benchmarks -> {"unknown", "registered", "deleted"}]
      /\ life'[b] # "unknown" /\ \A c \in Benchmarks \ {b} : life'[c] = life[c]
  BY <1>4 DEF Create, BenchmarkInv, TypeOK
<1> QED
  BY <1>3, <1>4, <1>5, <1>6, WholeInv DEF Create

LEMMA DeleteInv ==
  ASSUME BenchmarkInv, NEW b \in Benchmarks, Delete(b)
  PROVE  BenchmarkInv'
<1>1. PICK new : new = Empty("DOCUMENTS")
  OBVIOUS
<1>2. new \in Content /\ OneRepresentation(new) /\ new.cases = {}
  BY <1>1, EmptyContent
<1>3. ASSUME NEW r \in Runs, run[r].state # "none", run[r].benchmark = b
      PROVE  run[r].cases = {}
  <2>1. run[r].cases \subseteq UsedCases
    BY <1>3 DEF UsedCases
  <2>2. run[r].cases \subseteq content[b].cases
    BY <1>3 DEF BenchmarkInv, RunCasesExist
  <2> QED
    BY <2>1, <2>2 DEF Delete
<1>4. /\ life' \in [Benchmarks -> {"unknown", "registered", "deleted"}]
      /\ life'[b] # "unknown" /\ \A c \in Benchmarks \ {b} : life'[c] = life[c]
  BY DEF Delete, BenchmarkInv, TypeOK
<1>5. content' = [content EXCEPT ![b] = new] /\ hash' = [hash EXCEPT ![b] = new]
      /\ UNCHANGED <<request, run, overlapped, converted, edits>>
  BY <1>1 DEF Delete
<1> QED
  BY <1>2, <1>3, <1>4, <1>5, WholeInv

-----------------------------------------------------------------------------
(* Runs *)

(* One run changes, to one whose cases exist and are hashed.               *)
LEMMA RunMove ==
  ASSUME BenchmarkInv, NEW r \in Runs, NEW new \in Run, run' = [run EXCEPT ![r] = new],
         request' \in [Requests -> Request], \A q \in Requests : Prepared(request'[q]),
         new.state # "none" => new.cases \subseteq content[new.benchmark].cases,
         new.state = "executing" /\ new.benchmark \notin overlapped =>
           new.cases \subseteq new.hash.cases,
         UNCHANGED <<life, content, hash, overlapped, converted, edits>>
  PROVE  BenchmarkInv'
<1> USE DEF BenchmarkInv
<1>1. TypeOK'
  BY DEF TypeOK
<1>2. HashFollowsSerialEdits' /\ ModeMatchesCorpus' /\ CasesAreHashed' /\ Unborn'
  BY DEF HashFollowsSerialEdits, ModeMatchesCorpus, CasesAreHashed, Unborn
<1>3. run'[r] = new /\ \A o \in Runs \ {r} : run'[o] = run[o]
  BY DEF TypeOK
<1>4. RunCasesExist' /\ ExecutedCasesAreHashed'
  BY <1>3 DEF RunCasesExist, ExecutedCasesAreHashed
<1> QED
  BY <1>1, <1>2, <1>4 DEF Prepared

LEMMA CommitStartInv ==
  ASSUME BenchmarkInv, NEW q \in Requests, CommitStart(q)
  PROVE  BenchmarkInv'
<1>1. PICK x : x = request[q]
  OBVIOUS
<1>2. x \in Request /\ x.benchmark \in Benchmarks /\ x.view \in Content /\ x.run \in Runs
  BY <1>1 DEF BenchmarkInv, TypeOK, Request
<1>3. content[x.benchmark] \in Content
  BY <1>2 DEF BenchmarkInv, TypeOK
<1>4. PICK new : new = [state |-> "pending", benchmark |-> x.benchmark, hash |-> x.view,
                        cases |-> content[x.benchmark].cases]
  OBVIOUS
<1>5. /\ new \in Run /\ new.state = "pending" /\ new.benchmark = x.benchmark
      /\ new.cases = content[x.benchmark].cases
  BY <1>2, <1>3, <1>4 DEF Run, Content
<1>6. /\ run' = [run EXCEPT ![x.run] = new]
      /\ request' = [request EXCEPT ![q] = NoRequest]
      /\ UNCHANGED <<life, content, hash, overlapped, converted, edits>>
  BY <1>1, <1>4 DEF CommitStart
<1>7. /\ request' \in [Requests -> Request]
      /\ \A o \in Requests : Prepared(request'[o])
  BY <1>6, NothingYet DEF Prepared, BenchmarkInv, TypeOK
<1> QED
  BY <1>2, <1>5, <1>6, <1>7, RunMove

(* A run that passes the check of its hash executes hashed cases only.     *)
LEMMA ExecuteInv ==
  ASSUME BenchmarkInv, NEW r \in Runs, Execute(r) \/ RefuseExecution(r)
  PROVE  BenchmarkInv'
<1>1. PICK x : x = run[r]
  OBVIOUS
<1>2. x \in Run /\ x.benchmark \in Benchmarks /\ x.state # "none"
      /\ x.cases \subseteq content[x.benchmark].cases
  BY <1>1 DEF BenchmarkInv, TypeOK, Run, RunCasesExist, Execute, RefuseExecution
<1>3. PICK state \in {"executing", "failed"} :
        /\ run' = [run EXCEPT ![r] = [x EXCEPT !.state = state]]
        /\ state = "executing" => SameBenchmark(r)
  <2>1. run' = [run EXCEPT ![r].state = "executing"] =>
          run' = [run EXCEPT ![r] = [x EXCEPT !.state = "executing"]]
    BY <1>1 DEF BenchmarkInv, TypeOK, Run
  <2>2. run' = [run EXCEPT ![r].state = "failed"] =>
          run' = [run EXCEPT ![r] = [x EXCEPT !.state = "failed"]]
    BY <1>1 DEF BenchmarkInv, TypeOK, Run
  <2> QED
    BY <2>1, <2>2 DEF Execute, RefuseExecution
<1>4. PICK new : new = [x EXCEPT !.state = state]
  OBVIOUS
<1>5. /\ new \in Run /\ new.state = state /\ new.benchmark = x.benchmark
      /\ new.cases = x.cases /\ new.hash = x.hash
  BY <1>2, <1>4 DEF Run
<1>6. /\ run' = [run EXCEPT ![r] = new]
      /\ UNCHANGED <<life, content, hash, request, overlapped, converted, edits>>
  BY <1>3, <1>4 DEF Execute, RefuseExecution
<1>7. state = "executing" /\ new.benchmark \notin overlapped => new.cases \subseteq new.hash.cases
  BY <1>1, <1>2, <1>3, <1>5 DEF SameBenchmark, BenchmarkInv, CasesAreHashed
<1>8. request' \in [Requests -> Request] /\ \A q \in Requests : Prepared(request'[q])
  BY <1>6 DEF BenchmarkInv, TypeOK
<1> QED
  BY <1>2, <1>5, <1>6, <1>7, <1>8, RunMove

-----------------------------------------------------------------------------
(* The invariant *)

LEMMA InitInv == Init => BenchmarkInv
<1> SUFFICES ASSUME Init PROVE BenchmarkInv
  OBVIOUS
<1>1. TypeOK
  BY EmptyContent, NothingYet DEF Init, TypeOK
<1>2. HashFollowsSerialEdits /\ ModeMatchesCorpus /\ CasesAreHashed /\ Unborn
  BY EmptyContent DEF Init, HashFollowsSerialEdits, ModeMatchesCorpus, CasesAreHashed, Unborn
<1>3. RunCasesExist /\ ExecutedCasesAreHashed /\ \A q \in Requests : Prepared(request[q])
  BY NothingYet DEF Init, RunCasesExist, ExecutedCasesAreHashed, Prepared
<1> QED
  BY <1>1, <1>2, <1>3 DEF BenchmarkInv

LEMMA StutterInv ==
  ASSUME BenchmarkInv, UNCHANGED vars
  PROVE  BenchmarkInv'
<1> USE DEF BenchmarkInv, vars
<1>1. TypeOK'
  BY DEF TypeOK
<1>2. HashFollowsSerialEdits' /\ ModeMatchesCorpus' /\ CasesAreHashed' /\ Unborn'
  BY DEF HashFollowsSerialEdits, ModeMatchesCorpus, CasesAreHashed, Unborn
<1>3. RunCasesExist' /\ ExecutedCasesAreHashed' /\ \A q \in Requests : Prepared(request[q])'
  BY DEF RunCasesExist, ExecutedCasesAreHashed, Prepared
<1> QED
  BY <1>1, <1>2, <1>3

LEMMA NextInv == BenchmarkInv /\ [Next]_vars => BenchmarkInv'
<1> SUFFICES ASSUME BenchmarkInv, [Next]_vars PROVE BenchmarkInv'
  OBVIOUS
<1>1. ASSUME NEW b \in Benchmarks,
             \/ \E i \in Imports :
                  Create(b, FromFiles(i.mode, i.cases, i.documents, i.chunks))
             \/ Delete(b)
      PROVE  BenchmarkInv'
  BY <1>1, CreateInv, DeleteInv
<1>2. ASSUME NEW b \in Benchmarks, NEW q \in Requests,
             \/ EditCases(q, b)
             \/ EditDocuments(q, b)
             \/ EditChunks(q, b)
             \/ ChangeMode(q, b)
             \/ \E r \in Runs : BeginStart(q, b, r)
      PROVE  BenchmarkInv'
  BY <1>2, EditInv, BeginStartInv
<1>3. ASSUME NEW q \in Requests, CommitEdit(q) \/ CommitStart(q) \/ Rollback(q)
      PROVE  BenchmarkInv'
  BY <1>3, CommitEditInv, CommitStartInv, RollbackInv
<1>4. ASSUME NEW r \in Runs, Execute(r) \/ RefuseExecution(r)
      PROVE  BenchmarkInv'
  BY <1>4, ExecuteInv
<1>5. CASE UNCHANGED vars
  BY <1>5, StutterInv
<1> QED
  BY <1>1, <1>2, <1>3, <1>4, <1>5 DEF Next

(* Contents, hashes, requests and runs keep their types.                   *)
THEOREM BenchmarkTypes == Spec => []TypeOK
<1>1. BenchmarkInv => TypeOK
  BY DEF BenchmarkInv
<1> QED
  BY InitInv, NextInv, <1>1, PTL DEF Spec

(* Edits that do not overlap keep the hash and the representation right    *)
(* (_refresh_content_hash, set_corpus_mode).                               *)
THEOREM SerialEditsStaySound == Spec => []SerialEditsAreSound
<1>1. BenchmarkInv => SerialEditsAreSound
  BY DEF BenchmarkInv, SerialEditsAreSound
<1> QED
  BY InitInv, NextInv, <1>1, PTL DEF Spec

(* However edits and runs interleave, a run's cases are there.             *)
THEOREM RunCasesAlwaysExist == Spec => []RunCasesExist
<1>1. BenchmarkInv => RunCasesExist
  BY DEF BenchmarkInv
<1> QED
  BY InitInv, NextInv, <1>1, PTL DEF Spec

(* The comparison of hashes in execute_run is enough: what then executes   *)
(* is covered by the hash that the snapshot names.                         *)
THEOREM ExecutedCasesStayHashed == Spec => []ExecutedCasesAreHashed
<1>1. BenchmarkInv => ExecutedCasesAreHashed
  BY DEF BenchmarkInv
<1> QED
  BY InitInv, NextInv, <1>1, PTL DEF Spec

=============================================================================
