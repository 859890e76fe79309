-------------------------- MODULE CorpusPreparation --------------------------
(***************************************************************************)
(* CorpusPreparationService.prepare (services/corpus.py) over an adapter:  *)
(* a benchmark's documents or chunks become a corpus on the target, its    *)
(* lifecycle and its documents recorded as it goes. One preparation runs   *)
(* at a time; between any two of its awaits the target's ingestion         *)
(* operations proceed, and the preparation may be cancelled.               *)
(***************************************************************************)
EXTENDS AdapterSession

CONSTANTS
  Benchmarks,        \* [cases, documents, chunks, stored] of a benchmark
  MaxPreparations,   \* bound: how many corpora are asked for
  BatchLimit,        \* limits.max_chunks_per_request of the target
  PollBudget         \* polls that fit in poll_timeout_seconds

VARIABLES
  prep,        \* the running preparation, or one with step "idle"
  created,     \* corpora on the target, by id: what each has ingested
  lost,        \* those whose creation was never answered
  operations,  \* ingestion operations on the target, in order
  corpora,     \* CorpusRecord: id -> row, for 0 (an external id) and the created
  documents,   \* DocumentRecord: document -> the corpus it is recorded under
  outcomes     \* how each preparation ended, in order

targetVars == <<created, operations>>
recordVars == <<corpora, documents>>
vars == <<sessionVars, prep, created, lost, operations, corpora, documents, outcomes>>

CONSTANTS Documents, Chunks
Items == Documents \cup Chunks
CorpusIds == 0 .. MaxPreparations
Modes == {"DOCUMENTS", "CHUNKS", "EXTERNAL"}
Rows == [mode : Modes, status : {"EMPTY", "READY", "FAILED"}]

(* A document is not a chunk, and None is no corpus and no row. A target   *)
(* that advertises a limit below one fails the upload before any batch.    *)
ASSUME CorpusAssumption ==
  /\ MaxPreparations \in Nat
  /\ PollBudget \in Nat
  /\ BatchLimit \in Nat \ {0}
  /\ Documents \cap Chunks = {}
  /\ \A b \in Benchmarks : b.documents \in Seq(Documents) /\ b.chunks \in Seq(Chunks)
  /\ None \notin Nat
  /\ None \notin Rows

Idle == [step |-> "idle", benchmark |-> None, mode |-> None, corpus |-> None,
         left |-> <<>>, batch |-> 0, operation |-> None, seen |-> "RUNNING", polls |-> 0]

TypeOK ==
  /\ SessionTypeOK
  /\ prep.step \in {"idle", "capabilities", "create", "record", "upload", "batch", "await"}
  /\ prep.benchmark \in Benchmarks \cup {None}
  /\ prep.mode \in Modes \cup {None}
  /\ prep.corpus \in CorpusIds \cup {None}
  /\ prep.left \in Seq(Items)
  /\ prep.seen \in {"RUNNING", "SUCCEEDED", "FAILED"}
  /\ prep.polls \in 0 .. PollBudget
  /\ created \in Seq(SUBSET Items)
  /\ lost \subseteq 1 .. Len(created)
  /\ \A i \in 1 .. Len(operations) :
       /\ operations[i].corpus \in 1 .. Len(created)
       /\ operations[i].items \subseteq Items
       /\ operations[i].status \in {"RUNNING", "SUCCEEDED", "FAILED"}
  /\ \A c \in CorpusIds : corpora[c] = None \/ corpora[c] \in Rows
  /\ documents \in [Documents -> CorpusIds \cup {None}]
  /\ Len(outcomes) <= MaxPreparations

Init ==
  /\ SessionInit
  /\ prep = Idle
  /\ created = <<>>
  /\ lost = {}
  /\ operations = <<>>
  /\ corpora = [c \in CorpusIds |-> None]
  /\ documents = [d \in Documents |-> None]
  /\ outcomes = <<>>

----------------------------------------------------------------------------

available_corpus_modes(b) ==
  {m \in Modes : /\ b.cases
                 /\ m = "DOCUMENTS" => b.documents # <<>>
                 /\ m = "CHUNKS" => b.chunks # <<>>}

Contents(b, mode) ==
  IF mode = "DOCUMENTS" THEN b.documents ELSE IF mode = "CHUNKS" THEN b.chunks ELSE <<>>

Ends(status) ==
  /\ prep' = Idle
  /\ outcomes' = Append(outcomes, [status |-> status, corpus |-> prep.corpus,
                                   mode |-> prep.mode, benchmark |-> prep.benchmark])

persist_corpus(id, mode, status) ==
  corpora' = [corpora EXCEPT ![id] = [mode |-> mode, status |-> status]]

(* The handler of every exception after the corpus was created.            *)
Fails ==
  /\ Ends("FAILED")
  /\ persist_corpus(prep.corpus, prep.mode, "FAILED")

Prepared ==
  /\ Ends("READY")
  /\ persist_corpus(prep.corpus, prep.mode, "READY")

(* A preparation is refused at once, or goes on to the capabilities.       *)
Prepare(b, mode, id) ==
  /\ prep.step = "idle"
  /\ Wrapped
  /\ Len(outcomes) < MaxPreparations
  /\ last = None
  /\ LET asked == [Idle EXCEPT !.step = "capabilities", !.benchmark = b, !.mode = mode,
                               !.corpus = id, !.left = Contents(b, mode)]
     IN IF mode \in available_corpus_modes(b)
        THEN prep' = asked /\ UNCHANGED outcomes
        ELSE /\ outcomes' = Append(outcomes, [status |-> "refused", corpus |-> None,
                                              mode |-> mode, benchmark |-> b])
             /\ UNCHANGED prep
  /\ UNCHANGED <<sessionVars, targetVars, lost, recordVars>>

Refuse ==
  /\ prep' = Idle
  /\ outcomes' = Append(outcomes, [status |-> "refused", corpus |-> None,
                                   mode |-> prep.mode, benchmark |-> prep.benchmark])

(* prep.corpus is the configured corpus_id here, None if there is none.    *)
LearnCapabilities ==
  /\ prep.step = "capabilities"
  /\ cached' = Learnt
  /\ \/ /\ prep.mode = "EXTERNAL" /\ prep.corpus # None
        /\ Ends("READY")
        /\ persist_corpus(prep.corpus, "EXTERNAL", "READY")
     \/ /\ \/ prep.mode = "EXTERNAL" /\ prep.corpus = None
           \/ prep.mode = "DOCUMENTS" /\ "document_ingestion" \notin Known
           \/ prep.mode = "CHUNKS" /\ "chunk_ingestion" \notin Known
        /\ Refuse
        /\ UNCHANGED corpora
     \/ /\ \/ prep.mode = "DOCUMENTS" /\ "document_ingestion" \in Known
           \/ prep.mode = "CHUNKS" /\ "chunk_ingestion" \in Known
        /\ prep' = [prep EXCEPT !.step = "create", !.corpus = None]
        /\ UNCHANGED <<outcomes, corpora>>
  /\ UNCHANGED <<config, credentials, made, reported, last, targetVars, lost, documents>>

CapabilitiesFail ==
  /\ prep.step = "capabilities"
  /\ MustLearn
  /\ Refuse
  /\ UNCHANGED <<sessionVars, targetVars, lost, recordVars>>

(* An adapter that implements no ingestion refuses whatever it advertises. *)
Ingests == config.type \in {"python", "rag_eval_protocol"}

CreateCorpusUnrecorded(status) ==
  /\ prep.step = "create"
  /\ Ingests
  /\ created' = Append(created, {})
  /\ prep' = [prep EXCEPT !.corpus = Len(created) + 1,
                          !.step = IF prep.mode = "DOCUMENTS" THEN "record" ELSE "batch"]
  /\ UNCHANGED <<sessionVars, lost, operations, recordVars, outcomes>>

CreateCorpus(status) ==
  /\ prep.step = "create"
  /\ Ingests
  /\ LET id == Len(created) + 1
     IN /\ created' = Append(created, {})
        /\ persist_corpus(id, prep.mode, status)
        /\ prep' = [prep EXCEPT !.corpus = id,
                                !.step = IF prep.mode = "DOCUMENTS" THEN "record" ELSE "batch"]
  /\ UNCHANGED <<sessionVars, lost, operations, documents, outcomes>>

(* No answer: the adapter refused, the request was not carried out, or it  *)
(* was and the answer never came. Nothing is recorded either way.          *)
CreateFails(carriedOut) ==
  /\ prep.step = "create"
  /\ carriedOut => Ingests
  /\ created' = IF carriedOut THEN Append(created, {}) ELSE created
  /\ lost' = IF carriedOut THEN lost \cup {Len(created) + 1} ELSE lost
  /\ Ends("raised")
  /\ UNCHANGED <<sessionVars, operations, recordVars>>

----------------------------------------------------------------------------
(* Ingestion. A request is accepted with an operation in some state; the   *)
(* target may already have refused it.                                     *)

Accepts(items, key, status) ==
  /\ operations' = Append(operations, [corpus |-> prep.corpus, items |-> items,
                                       key |-> key, status |-> status])
  /\ created' = IF status = "SUCCEEDED"
                THEN [created EXCEPT ![prep.corpus] = @ \cup items] ELSE created

(* A target that keeps idempotency keys answers a key it has seen for a    *)
(* different request with a conflict.                                      *)
Conflict(key) ==
  /\ config.type = "rag_eval_protocol"
  /\ "idempotency" \in reported
  /\ \E i \in 1 .. Len(operations) : operations[i].key = key

persist_document(d) == documents' = [documents EXCEPT ![d] = prep.corpus]

(* The document is recorded before its bytes are looked for.               *)
RecordDocument ==
  /\ prep.step = "record"
  /\ persist_document(Head(prep.left))
  /\ IF Head(prep.left) \in prep.benchmark.stored
     THEN prep' = [prep EXCEPT !.step = "upload"] /\ UNCHANGED <<corpora, outcomes>>
     ELSE Fails
  /\ UNCHANGED <<sessionVars, targetVars, lost>>

DocumentKey == [corpus |-> None, item |-> Head(prep.left)]

UploadDocument(status) ==
  /\ prep.step = "upload"
  /\ ~Conflict(DocumentKey)
  /\ Accepts({Head(prep.left)}, DocumentKey, status)
  /\ prep' = [prep EXCEPT !.step = "await", !.left = Tail(@),
                          !.operation = Len(operations) + 1, !.seen = status,
                          !.polls = 0]
  /\ UNCHANGED <<sessionVars, lost, recordVars, outcomes>>

UploadFails(carriedOut) ==
  /\ prep.step = "upload"
  /\ IF carriedOut /\ ~Conflict(DocumentKey)
     THEN Accepts({Head(prep.left)}, DocumentKey, "RUNNING") ELSE UNCHANGED targetVars
  /\ Fails
  /\ UNCHANGED <<sessionVars, lost, documents>>

(* HttpTargetAdapter cuts the chunks into batches; a Python target is      *)
(* handed all of them.                                                     *)
BatchSize ==
  IF config.type = "rag_eval_protocol" /\ BatchLimit < Len(prep.left)
  THEN BatchLimit ELSE Len(prep.left)

Batch == {prep.left[i] : i \in 1 .. BatchSize}
BatchKey == [corpus |-> prep.corpus, item |-> prep.batch]

(* The operation of the last batch is the one that is awaited.             *)
UploadBatch(status) ==
  /\ prep.step = "batch"
  /\ Accepts(Batch, BatchKey, status)
  /\ LET left == SubSeq(prep.left, BatchSize + 1, Len(prep.left))
     IN prep' = [prep EXCEPT !.left = left, !.batch = @ + 1, !.polls = 0,
                             !.step = IF left = <<>> THEN "await" ELSE "batch",
                             !.operation = Len(operations) + 1, !.seen = status]
  /\ UNCHANGED <<sessionVars, lost, recordVars, outcomes>>

BatchFails(carriedOut) ==
  /\ prep.step = "batch"
  /\ IF carriedOut THEN Accepts(Batch, BatchKey, "RUNNING") ELSE UNCHANGED targetVars
  /\ Fails
  /\ UNCHANGED <<sessionVars, lost, documents>>

SettleUnchecked ==
  /\ prep.step = "await"
  /\ prep.seen # "RUNNING"
  /\ IF prep.left # <<>>
     THEN prep' = [prep EXCEPT !.step = "record"] /\ UNCHANGED <<corpora, outcomes>>
     ELSE Prepared
  /\ UNCHANGED <<sessionVars, targetVars, lost, documents>>

(* _await_operation: what was last seen of the operation decides, or the   *)
(* deadline does, or the operation is asked for again.                     *)
Settle ==
  /\ prep.step = "await"
  /\ prep.seen # "RUNNING"
  /\ IF prep.seen = "FAILED" THEN Fails
     ELSE IF prep.left # <<>>
     THEN prep' = [prep EXCEPT !.step = "record"] /\ UNCHANGED <<corpora, outcomes>>
     ELSE Prepared
  /\ UNCHANGED <<sessionVars, targetVars, lost, documents>>

PollUncounted ==
  /\ prep.step = "await"
  /\ prep.seen = "RUNNING"
  /\ prep' = [prep EXCEPT !.seen = operations[prep.operation].status]
  /\ UNCHANGED <<sessionVars, targetVars, lost, recordVars, outcomes>>

Poll ==
  /\ prep.step = "await"
  /\ prep.seen = "RUNNING"
  /\ prep.polls < PollBudget
  /\ prep' = [prep EXCEPT !.seen = operations[prep.operation].status, !.polls = @ + 1]
  /\ UNCHANGED <<sessionVars, targetVars, lost, recordVars, outcomes>>

TimesOut ==
  /\ prep.step = "await"
  /\ prep.seen = "RUNNING"
  /\ prep.polls = PollBudget
  /\ Fails
  /\ UNCHANGED <<sessionVars, targetVars, lost, documents>>

(* The question failed, or took so long that the deadline passed.          *)
PollFails ==
  /\ prep.step = "await"
  /\ prep.seen = "RUNNING"
  /\ Fails
  /\ UNCHANGED <<sessionVars, targetVars, lost, documents>>

----------------------------------------------------------------------------
(* Cancelled is not an Exception: nothing is recorded. The request in      *)
(* flight may have been carried out.                                       *)
Cancel ==
  /\ prep.step \notin {"idle", "create"}
  /\ Ends("cancelled")
  /\ UNCHANGED <<sessionVars, targetVars, lost, recordVars>>

Finishes(i, status) ==
  /\ operations[i].status = "RUNNING"
  /\ operations' = [operations EXCEPT ![i].status = status]
  /\ created' = IF status = "SUCCEEDED"
                THEN [created EXCEPT ![operations[i].corpus] = @ \cup operations[i].items]
                ELSE created
  /\ UNCHANGED <<sessionVars, prep, lost, recordVars, outcomes>>

Statuses == {"RUNNING", "SUCCEEDED", "FAILED"}

PreparationStep ==
  \/ LearnCapabilities
  \/ CapabilitiesFail
  \/ \E status \in {"EMPTY", "READY"} : CreateCorpus(status)
  \/ \E carriedOut \in BOOLEAN : CreateFails(carriedOut)
  \/ RecordDocument
  \/ \E status \in Statuses : UploadDocument(status)
  \/ \E carriedOut \in BOOLEAN : UploadFails(carriedOut)
  \/ \E status \in Statuses : UploadBatch(status)
  \/ \E carriedOut \in BOOLEAN : BatchFails(carriedOut)
  \/ Settle
  \/ Poll
  \/ TimesOut

corpusVars == <<prep, targetVars, lost, recordVars, outcomes>>

(* What an operation returns depends on the adapter and the answer alone:  *)
(* it is asked for once, and before any corpus is prepared.                *)
SessionStep ==
  /\ last = None /\ outcomes = <<>> /\ prep.step = "idle"
  /\ \/ \E c \in Configs, given \in Credentials : Make(c, given)
     \/ AskCapabilities
     \/ \E op \in Operations \ {"capabilities", "health", "aclose"}, r \in Responses :
          Ask(op, r) \/ AskFails(op, r)
  /\ UNCHANGED corpusVars

Next ==
  \/ SessionStep
  \/ \E able \in Reports : TargetChanges(able) /\ UNCHANGED corpusVars
  \/ \E b \in Benchmarks, m \in Modes : Prepare(b, m, None)
  \/ \E b \in Benchmarks, id \in 0 .. Len(created) : Prepare(b, "EXTERNAL", id)
  \/ PreparationStep
  \/ PollFails
  \/ Cancel
  \/ \E i \in 1 .. Len(operations), s \in {"SUCCEEDED", "FAILED"} : Finishes(i, s)

(* The event loop runs the preparation and every request has a timeout;    *)
(* the target owes nothing, and no poll need fail for the deadline to pass.*)
Spec == Init /\ [][Next]_vars /\ WF_vars(PreparationStep)

----------------------------------------------------------------------------
(* Properties of the preparations.                                         *)

(* A corpus reported READY holds every document of the benchmark; of its   *)
(* chunks at least those of the last batch, the only one whose operation   *)
(* HttpTargetAdapter.upload_chunks hands back to be awaited.               *)
Earlier(c) ==
  {i \in 1 .. Len(operations) :
     /\ operations[i].corpus = c
     /\ \E j \in i + 1 .. Len(operations) : operations[j].corpus = c}

Unwatched(o) ==
  UNION {operations[i].items : i \in {i \in Earlier(o.corpus) : o.mode = "CHUNKS"}}

ReadyIsIngested ==
  \A n \in 1 .. Len(outcomes) :
    LET o == outcomes[n]
    IN o.status = "READY" =>
         \A item \in {Contents(o.benchmark, o.mode)[i] : i \in 1 .. Len(Contents(o.benchmark, o.mode))} :
           item \in created[o.corpus] \cup Unwatched(o)

(* The row of a corpus tells how the last preparation that named it ended; *)
(* a cancelled one leaves what was there.                                  *)
RowsTellTheOutcome ==
  \A n \in 1 .. Len(outcomes) :
    LET o == outcomes[n]
    IN /\ o.status \in {"READY", "FAILED"}
       /\ \A later \in n + 1 .. Len(outcomes) : outcomes[later].corpus # o.corpus
       => corpora[o.corpus] = [mode |-> o.mode, status |-> o.status]

(* A corpus on the target is recorded unless its creation was never        *)
(* answered, and a refused preparation records and creates nothing.        *)
CorporaAreRecorded ==
  /\ \A c \in 1 .. Len(created) :
       IF c \in lost THEN corpora[c] = None \/ corpora[c].mode = "EXTERNAL"
       ELSE corpora[c] # None
  /\ \A c \in CorpusIds : corpora[c] # None =>
       c = prep.corpus \/ \E n \in 1 .. Len(outcomes) : outcomes[n].corpus = c

(* Whatever document the target was given is recorded, under the corpus it *)
(* was given for last: preparing another corpus takes the record along.    *)
DocumentsFollowTheirUpload ==
  \A i \in 1 .. Len(operations) : \A d \in operations[i].items \cap Documents :
    documents[d] # None /\ documents[d] >= operations[i].corpus

(* A preparation ends whatever the target does: requests are answered or   *)
(* time out, and polling stops at the deadline.                            *)
PreparationsEnd == prep.step # "idle" ~> prep.step = "idle"

----------------------------------------------------------------------------
(* Properties of the adapters.                                             *)

Failed == last # None /\ last.result.error # None
Error == last.result.error

(* An operation is called unsupported only if the target does not          *)
(* advertise what it needs, the configuration overrides the inferred       *)
(* capabilities, or the target's own error record says so.                 *)
UnsupportedIsUnadvertised ==
  Failed /\ Error.category = "UNSUPPORTED_CAPABILITY" =>
    \/ Needs(last.op) \cap Known = {}
    \/ config.on # {}
    \/ last.response.own # None /\ last.response.own.category = "UNSUPPORTED_CAPABILITY"

(* What is advertised of a query's answer is delivered, when the target's  *)
(* answer is what the protocol or the configured paths say.                *)
AdvertisedIsDelivered ==
  /\ last # None /\ last.op = "query"
  /\ last.response.kind = "body" /\ last.response.body = "valid" /\ last.response.field = None
  /\ {"query", "answer"} \subseteq Known /\ config.on = {}
  => /\ last.result.returned
     /\ Known \cap (Fields \ {"retrieval"}) \subseteq last.result.observed

(* Every failure carries a canonical record, but that of a configuration   *)
(* object that does not validate (generic_http, _mapped_configuration).    *)
FailuresHaveRecords ==
  last # None /\ ~last.result.returned /\ last.result.error = None =>
    config.type = "generic_http" /\ last.response.field \in Mappings

(* The same transport failure or HTTP status is retried or not whichever   *)
(* network adapter met it, though each records it in its own way.          *)
Retried(error, policy) == IsRetryable(Seen(error, policy))

FaultsAreRetriedAlike ==
  /\ Failed /\ config.type \in Network /\ Error.category # "UNSUPPORTED_CAPABILITY"
  /\ \/ IsFault(last.response)
     \/ last.response.kind = "status" /\ last.response.own = None
  => \A c \in Configs, policy \in Policies :
       c.type \in Network /\ (c.type = "generic_http" => "query" \in c.protocol) =>
         Retried(Error, policy)
           = Retried(Result(c, "query", last.response, Capabilities).error, policy)

(* A target of the evaluation protocol that is overloaded and says for how *)
(* long is left alone so long, up to the maximum; jitter may exceed the    *)
(* maximum by a quarter, nothing else does.                                *)
RetriesArePaced ==
  Failed => \A policy \in Policies : \A n \in 1 .. policy.attempts :
    LET delays == Delays(Error, n, policy)
        r == last.response
    IN /\ \A d \in delays : d <= policy.maximum + policy.maximum \div 4
       /\ /\ config.type = "rag_eval_protocol" /\ Error.http_status # None /\ r.own = None
          /\ Transient(r.status) /\ r.after \notin {None, 0}
          => delays = {Capped(r.after, policy)}

(* The events a stream yields rise in sequence, none is left out, and the  *)
(* stream ends well only when all were yielded.                            *)
StreamsAreOrdered ==
  /\ last # None /\ last.response.kind = "events" /\ config.type = "rag_eval_protocol"
  /\ "streaming" \in Known
  => LET events == last.response.events
         yielded == Streamed(events)
     IN /\ \A i, j \in 1 .. Len(yielded) : i < j => yielded[i] < yielded[j]
        /\ yielded = SubSeq(events, 1, Len(yielded))
        /\ last.result.returned <=> \A i, j \in 1 .. Len(events) : i < j => events[i] < events[j]

(* Every secret the configuration names is sent by an adapter that was     *)
(* made, an API key only in the absence of a bearer token.                 *)
SecretsAreSent ==
  made = "opened" /\ config.type \in Network =>
    /\ config.bearer_token => "bearer_token" \in Sends(credentials)
    /\ config.secret_header => "header" \in Sends(credentials)
    /\ config.api_key => Token(credentials) # {}

(* What the database says of corpora and documents, at every moment.       *)
RecordsAreTrue ==
  TypeOK /\ RowsTellTheOutcome /\ CorporaAreRecorded /\ DocumentsFollowTheirUpload

(* What the services rely on in whichever adapter the factory made.        *)
AdaptersKeepTheirWord ==
  /\ UnsupportedIsUnadvertised
  /\ AdvertisedIsDelivered
  /\ FailuresHaveRecords
  /\ FaultsAreRetriedAlike
  /\ RetriesArePaced
  /\ StreamsAreOrdered
  /\ SecretsAreSent

=============================================================================
