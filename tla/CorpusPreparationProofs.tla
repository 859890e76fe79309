------------------------ MODULE CorpusPreparationProofs ------------------------
(***************************************************************************)
(* Theorems about CorpusPreparation for any benchmarks, number of corpora, *)
(* batch limit and poll budget, whatever the target answers, in whatever   *)
(* order its operations finish, and wherever a preparation is cancelled.   *)
(***************************************************************************)
EXTENDS CorpusPreparation, TLAPS, SequenceTheorems, WellFoundedInduction

-----------------------------------------------------------------------------
(* The types *)

Keys == [corpus : {None}, item : Items] \cup [corpus : CorpusIds, item : Nat]

IngestionOperation ==
  [corpus : CorpusIds, items : SUBSET Items, key : Keys, status : Statuses]

Steps == {"idle", "capabilities", "create", "record", "upload", "batch", "await"}

Preparation ==
  [step : Steps, benchmark : Benchmarks \cup {None}, mode : Modes \cup {None},
   corpus : CorpusIds \cup {None}, left : Seq(Items), batch : Nat,
   operation : Nat \cup {None}, seen : Statuses, polls : 0 .. PollBudget]

Outcome ==
  [status : {"READY", "FAILED", "raised", "refused", "cancelled"},
   corpus : CorpusIds \cup {None}, mode : Modes, benchmark : Benchmarks]

Types ==
  /\ prep \in Preparation
  /\ created \in Seq(SUBSET Items)
  /\ lost \subseteq 1 .. Len(created)
  /\ operations \in Seq(IngestionOperation)
  /\ corpora \in [CorpusIds -> Rows \cup {None}]
  /\ documents \in [Documents -> CorpusIds \cup {None}]
  /\ outcomes \in Seq(Outcome)

-----------------------------------------------------------------------------
(* The inductive invariant *)

(* The steps in which a preparation has a corpus of its own.               *)
Working == {"record", "upload", "batch", "await"}

(* A preparation that is under way has still to append its outcome, and    *)
(* each creates at most one corpus.                                        *)
Counts ==
  /\ Len(outcomes) <= MaxPreparations
  /\ prep.step # "idle" => Len(outcomes) < MaxPreparations
  /\ Len(created) <= Len(outcomes) + 1
  /\ prep.step \notin Working => Len(created) <= Len(outcomes)

(* What the preparation was asked for, and how many of it it has uploaded. *)
Full == Contents(prep.benchmark, prep.mode)
Done == Len(Full) - Len(prep.left)

Asked ==
  /\ prep.step # "idle" => prep.benchmark \in Benchmarks /\ prep.mode \in Modes
  /\ prep.step = "capabilities" =>
       /\ prep.corpus = None \/ prep.corpus <= Len(created)
       /\ prep.mode # "EXTERNAL" => prep.corpus = None
  /\ prep.step = "create" => prep.mode # "EXTERNAL" /\ prep.corpus = None
  /\ prep.step \in {"capabilities", "create"} =>
       prep.left = Full /\ (prep.mode # "EXTERNAL" => prep.left # <<>>)
  /\ prep.step \in {"record", "upload"} => prep.mode = "DOCUMENTS" /\ prep.left # <<>>
  /\ prep.step = "batch" => prep.mode = "CHUNKS" /\ prep.left # <<>>
  /\ prep.step = "await" => prep.mode \in {"DOCUMENTS", "CHUNKS"}
  /\ prep.step = "await" /\ prep.mode = "CHUNKS" => prep.left = <<>>

(* The corpus of a preparation is the last one created, and it is recorded. *)
Newest ==
  prep.step \in Working =>
    /\ prep.corpus = Len(created)
    /\ Len(created) > 0
    /\ prep.corpus \notin lost
    /\ corpora[prep.corpus] # None

(* An item was handed to the target for a corpus in one operation. That of *)
(* a document ended well, unless it is the one being awaited.              *)
Uploaded(item, p, ops) ==
  \E i \in 1 .. Len(ops) :
    /\ ops[i].corpus = p.corpus
    /\ item \in ops[i].items
    /\ \/ ops[i].status = "SUCCEEDED"
       \/ p.mode = "CHUNKS"
       \/ p.step = "await" /\ i = p.operation

(* What is left is the end of what was asked for, the rest is uploaded, and *)
(* the operation that is awaited is the last.                              *)
Progress ==
  prep.step \in Working =>
    /\ Len(prep.left) <= Len(Full)
    /\ \A k \in 1 .. Len(prep.left) : prep.left[k] = Full[Done + k]
    /\ \A k \in 1 .. Done : Uploaded(Full[k], prep, operations)

Awaiting ==
  prep.step = "await" =>
    /\ Len(operations) > 0
    /\ prep.operation = Len(operations)
    /\ operations[prep.operation].corpus = prep.corpus
    /\ prep.seen # "RUNNING" => operations[prep.operation].status = prep.seen

(* A corpus has ingested what the operations that ended well brought.      *)
TargetInv ==
  \A i \in 1 .. Len(operations) :
    /\ operations[i].corpus \in 1 .. Len(created)
    /\ operations[i].status = "SUCCEEDED" =>
         operations[i].items \subseteq created[operations[i].corpus]

(* What a READY corpus was to hold was handed to the target in operations  *)
(* that ended well or, of chunks, were followed by another.                *)
Brought(item, o, ops) ==
  \E i \in 1 .. Len(ops) :
    /\ ops[i].corpus = o.corpus
    /\ item \in ops[i].items
    /\ \/ ops[i].status = "SUCCEEDED"
       \/ o.mode = "CHUNKS" /\ \E j \in i + 1 .. Len(ops) : ops[j].corpus = o.corpus

Filled(o, ops) ==
  o.status = "READY" =>
    \A k \in 1 .. Len(Contents(o.benchmark, o.mode)) :
      Brought(Contents(o.benchmark, o.mode)[k], o, ops)

DeliveryInv == \A n \in 1 .. Len(outcomes) : Filled(outcomes[n], operations)

(* The row of a corpus, by how it came to be.                              *)
RowOf(c) ==
  /\ c > Len(created) => corpora[c] = None
  /\ c \in lost => corpora[c] = None \/ corpora[c].mode = "EXTERNAL"
  /\ c \in 1 .. Len(created) /\ c \notin lost => corpora[c] # None
  /\ corpora[c] # None =>
       \/ prep.step \in Working /\ c = prep.corpus
       \/ \E n \in 1 .. Len(outcomes) : outcomes[n].corpus = c

Told(n) ==
  /\ outcomes[n].status \in {"READY", "FAILED"}
  /\ \A later \in n + 1 .. Len(outcomes) : outcomes[later].corpus # outcomes[n].corpus
  => corpora[outcomes[n].corpus] = [mode |-> outcomes[n].mode, status |-> outcomes[n].status]

(* No earlier outcome names the corpus of a preparation that is under way. *)
OutcomeOf(n) ==
  /\ outcomes[n].corpus # None => outcomes[n].corpus <= Len(created)
  /\ prep.step \in Working => outcomes[n].corpus # prep.corpus
  /\ outcomes[n].status \in {"READY", "FAILED"} => outcomes[n].corpus # None
  /\ Told(n)

RowInv ==
  /\ \A c \in CorpusIds : RowOf(c)
  /\ \A n \in 1 .. Len(outcomes) : OutcomeOf(n)

(* The documents of an operation are recorded under its corpus or a later  *)
(* one, the one to be uploaded under that of the preparation.              *)
DocumentInv ==
  /\ \A i \in 1 .. Len(operations) : \A d \in operations[i].items \cap Documents :
       documents[d] # None /\ documents[d] >= operations[i].corpus
  /\ prep.step = "upload" =>
       /\ Head(prep.left) \in Documents
       /\ documents[Head(prep.left)] = prep.corpus

CorpusInv ==
  /\ Types
  /\ Counts
  /\ Asked
  /\ Newest
  /\ Progress
  /\ Awaiting
  /\ TargetInv
  /\ DeliveryInv
  /\ RowInv
  /\ DocumentInv

IInv == SessionTypeOK /\ CorpusInv

-----------------------------------------------------------------------------
(* Contents, and the ways a preparation and the sequences change *)

LEMMA ContentsType ==
  ASSUME NEW b \in Benchmarks
  PROVE  /\ Contents(b, "DOCUMENTS") \in Seq(Documents)
         /\ Contents(b, "CHUNKS") \in Seq(Chunks)
         /\ Contents(b, "EXTERNAL") = <<>>
         /\ \A m \in Modes : Contents(b, m) \in Seq(Items)
<1>1. b.documents \in Seq(Documents) /\ b.chunks \in Seq(Chunks)
  BY CorpusAssumption
<1>2. b.documents \in Seq(Items) /\ b.chunks \in Seq(Items) /\ <<>> \in Seq(Items)
  BY <1>1, SeqMonotonic, EmptySeq DEF Items
<1> QED
  BY <1>1, <1>2 DEF Contents, Modes

LEMMA IdleType == Idle \in Preparation /\ Idle.step = "idle" /\ Idle.corpus = None
<1>1. <<>> \in Seq(Items)
  BY EmptySeq
<1> QED
  BY <1>1, CorpusAssumption DEF Idle, Preparation, Steps, Statuses

LEMMA ModesDiffer ==
  /\ "DOCUMENTS" \in Modes /\ "CHUNKS" \in Modes /\ "EXTERNAL" \in Modes
  /\ \A m \in Modes : m # "EXTERNAL" => m \in {"DOCUMENTS", "CHUNKS"}
BY DEF Modes

(* An item appended to a sequence is its last, the others stay. *)
LEMMA Appended ==
  ASSUME NEW S, NEW s \in Seq(S), NEW e \in S, NEW t, t = Append(s, e)
  PROVE  /\ t \in Seq(S)
         /\ Len(s) \in Nat
         /\ Len(t) = Len(s) + 1
         /\ \A i \in 1 .. Len(s) : t[i] = s[i]
         /\ t[Len(s) + 1] = e
BY AppendProperties, LenProperties

(* The outcome of a preparation that ends is the last one. *)
LEMMA Ending ==
  ASSUME outcomes \in Seq(Outcome), NEW o \in Outcome,
         prep' = Idle, outcomes' = Append(outcomes, o)
  PROVE  /\ prep' \in Preparation /\ prep'.step = "idle" /\ prep'.corpus = None
         /\ outcomes' \in Seq(Outcome)
         /\ Len(outcomes) \in Nat
         /\ Len(outcomes') = Len(outcomes) + 1
         /\ \A n \in 1 .. Len(outcomes) : outcomes'[n] = outcomes[n]
         /\ outcomes'[Len(outcomes) + 1] = o
BY Appended, IdleType

(* Its outcome tells what it was asked for and the corpus it had. *)
LEMMA EndsOutcome ==
  ASSUME prep \in Preparation, Asked, prep.step # "idle",
         NEW status \in {"READY", "FAILED", "raised", "refused", "cancelled"},
         NEW c \in CorpusIds \cup {None}
  PROVE  [status |-> status, corpus |-> c,
          mode |-> prep.mode, benchmark |-> prep.benchmark] \in Outcome
BY DEF Asked, Outcome

LEMMA FieldTypes ==
  ASSUME Types
  PROVE  /\ prep.step \in Steps
         /\ prep.corpus \in CorpusIds \cup {None}
         /\ prep.left \in Seq(Items)
         /\ Len(prep.left) \in Nat
         /\ prep.batch \in Nat
         /\ prep.seen \in Statuses
         /\ prep.polls \in 0 .. PollBudget
         /\ Len(created) \in Nat
         /\ Len(operations) \in Nat
         /\ Len(outcomes) \in Nat
         /\ \A i \in 1 .. Len(operations) : operations[i] \in IngestionOperation
         /\ \A i \in 1 .. Len(created) : created[i] \in SUBSET Items
         /\ \A n \in 1 .. Len(outcomes) : outcomes[n] \in Outcome
<1>1. prep \in Preparation
  BY DEF Types
<1>2. /\ prep.step \in Steps /\ prep.corpus \in CorpusIds \cup {None}
      /\ prep.left \in Seq(Items) /\ prep.batch \in Nat /\ prep.seen \in Statuses
      /\ prep.polls \in 0 .. PollBudget
  BY <1>1 DEF Preparation
<1> QED
  BY <1>2, LenProperties, ElementOfSeq DEF Types

-----------------------------------------------------------------------------
(* The session *)

LEMMA SessionStays ==
  ASSUME SessionTypeOK, [Next]_vars
  PROVE  SessionTypeOK'
<1>1. CASE UNCHANGED sessionVars
  BY <1>1 DEF SessionTypeOK, sessionVars
<1>2. ASSUME NEW c \in Configs, NEW given \in Credentials, Make(c, given)
      PROVE  SessionTypeOK'
  <2>1. made' \in {"opened", "ValueError", "TargetUnavailableError",
                   "TargetProtocolError", "UploadedPythonAdapterError"}
    BY <1>2 DEF Make, load_uploaded_python_adapter, create_target_adapter,
      load_python_target, _rag_eval_protocol_factory
  <2> QED
    BY <1>2, <2>1 DEF Make, SessionTypeOK
<1>3. CASE AskCapabilities
  BY <1>3 DEF AskCapabilities, Learnt, SessionTypeOK
<1>4. ASSUME NEW op \in Operations, NEW r \in Responses, Ask(op, r)
      PROVE  SessionTypeOK'
  BY <1>4 DEF Ask, Learnt, SessionTypeOK
<1>5. ASSUME NEW op \in Operations, NEW r \in Responses, AskFails(op, r)
      PROVE  SessionTypeOK'
  BY <1>5 DEF AskFails, SessionTypeOK
<1>6. ASSUME NEW able \in Reports, TargetChanges(able)
      PROVE  SessionTypeOK'
  BY <1>6 DEF TargetChanges, SessionTypeOK
<1>7. CASE LearnCapabilities
  BY <1>7 DEF LearnCapabilities, Learnt, SessionTypeOK
<1>8. CASE Next
  <2>1. CASE SessionStep
    BY <1>2, <1>3, <1>4, <1>5, <2>1 DEF SessionStep
  <2>2. CASE PreparationStep
    BY <1>1, <1>7, <2>2
    DEF PreparationStep, CapabilitiesFail, CreateCorpus, CreateFails, RecordDocument,
        UploadDocument, UploadFails, UploadBatch, BatchFails, Settle, Poll, TimesOut
  <2>3. CASE PollFails \/ Cancel
    BY <1>1, <2>3 DEF PollFails, Cancel
  <2>4. ASSUME NEW i, NEW s, Finishes(i, s)
        PROVE  UNCHANGED sessionVars
    BY <2>4 DEF Finishes
  <2>5. ASSUME NEW b, NEW m, NEW id, Prepare(b, m, id)
        PROVE  UNCHANGED sessionVars
    BY <2>5 DEF Prepare
  <2> QED
    BY <1>1, <1>6, <1>8, <2>1, <2>2, <2>3, <2>4, <2>5 DEF Next
<1> QED
  BY <1>1, <1>8 DEF vars, sessionVars

-----------------------------------------------------------------------------
(* The target *)

(* No operation is lost, none changes what it brings to which corpus, and  *)
(* one that has ended well stays so.                                       *)
Kept(ops, later) ==
  /\ Len(ops) <= Len(later)
  /\ \A i \in 1 .. Len(ops) :
       /\ later[i].corpus = ops[i].corpus
       /\ later[i].items = ops[i].items
       /\ ops[i].status = "SUCCEEDED" => later[i].status = "SUCCEEDED"

LEMMA AcceptsKeeps ==
  ASSUME Types, TargetInv, prep.corpus \in 1 .. Len(created),
         NEW items \in SUBSET Items, NEW key \in Keys, NEW status \in Statuses,
         Accepts(items, key, status)
  PROVE  /\ operations' \in Seq(IngestionOperation)
         /\ Len(operations') = Len(operations) + 1
         /\ \A i \in 1 .. Len(operations) : operations'[i] = operations[i]
         /\ operations'[Len(operations) + 1] =
              [corpus |-> prep.corpus, items |-> items, key |-> key, status |-> status]
         /\ created' \in Seq(SUBSET Items)
         /\ Len(created') = Len(created)
         /\ Kept(operations, operations')
         /\ TargetInv'
<1> DEFINE op == [corpus |-> prep.corpus, items |-> items, key |-> key, status |-> status]
           grown == created[prep.corpus] \cup items
<1>1. prep.corpus \in CorpusIds
  BY FieldTypes, CorpusAssumption
<1>2. op \in IngestionOperation
  BY <1>1 DEF IngestionOperation
<1>3. op.corpus = prep.corpus /\ op.items = items /\ op.status = status
  OBVIOUS
<1>4. operations' = Append(operations, op)
  BY DEF Accepts
<1> HIDE DEF op
<1>5. /\ operations' \in Seq(IngestionOperation)
      /\ Len(operations) \in Nat
      /\ Len(operations') = Len(operations) + 1
      /\ \A i \in 1 .. Len(operations) : operations'[i] = operations[i]
      /\ operations'[Len(operations) + 1] = op
  BY <1>2, <1>4, Appended DEF Types
<1>6. Kept(operations, operations')
  BY <1>5 DEF Kept
<1>7. /\ created' \in Seq(SUBSET Items)
      /\ Len(created') = Len(created)
      /\ \A c \in 1 .. Len(created) : created[c] \subseteq created'[c]
      /\ status = "SUCCEEDED" => items \subseteq created'[prep.corpus]
  <2>1. created \in Seq(SUBSET Items)
    BY DEF Types
  <2>2. CASE status = "SUCCEEDED"
    <3>1. created' = [created EXCEPT ![prep.corpus] = grown]
      BY <2>2 DEF Accepts
    <3>2. created[prep.corpus] \in SUBSET Items
      BY FieldTypes
    <3>3. grown \in SUBSET Items /\ items \subseteq grown /\ created[prep.corpus] \subseteq grown
      BY <3>2
    <3> HIDE DEF grown
    <3> QED
      BY <2>1, <3>1, <3>3, ExceptSeq
  <2>3. CASE status # "SUCCEEDED"
    BY <2>1, <2>3 DEF Accepts
  <2> QED
    BY <2>2, <2>3
<1>8. TargetInv'
  <2> SUFFICES ASSUME NEW i \in 1 .. Len(operations')
               PROVE  /\ operations'[i].corpus \in 1 .. Len(created')
                      /\ operations'[i].status = "SUCCEEDED" =>
                           operations'[i].items \subseteq created'[operations'[i].corpus]
    BY DEF TargetInv
  <2>1. CASE i = Len(operations) + 1
    BY <1>3, <1>5, <1>7, <2>1
  <2>2. CASE i # Len(operations) + 1
    <3>1. i \in 1 .. Len(operations) /\ operations'[i] = operations[i]
      BY <1>5, <2>2
    <3>2. /\ operations[i].corpus \in 1 .. Len(created)
          /\ operations[i].status = "SUCCEEDED" =>
               operations[i].items \subseteq created[operations[i].corpus]
      BY <3>1 DEF TargetInv
    <3> QED
      BY <1>7, <3>1, <3>2
  <2> QED
    BY <2>1, <2>2
<1> QED
  BY <1>5, <1>6, <1>7, <1>8 DEF op

LEMMA FinishesKeeps ==
  ASSUME Types, TargetInv,
         NEW i \in 1 .. Len(operations), NEW status \in {"SUCCEEDED", "FAILED"},
         Finishes(i, status)
  PROVE  /\ operations' \in Seq(IngestionOperation)
         /\ Len(operations') = Len(operations)
         /\ created' \in Seq(SUBSET Items)
         /\ Len(created') = Len(created)
         /\ Kept(operations, operations')
         /\ \A j \in 1 .. Len(operations) :
              operations[j].status # "RUNNING" => operations'[j] = operations[j]
         /\ TargetInv'
<1> DEFINE op == [operations[i] EXCEPT !.status = status]
           c == operations[i].corpus
           grown == created[c] \cup operations[i].items
<1>1. operations[i] \in IngestionOperation /\ status \in Statuses
  BY FieldTypes DEF Statuses
<1>2. /\ op \in IngestionOperation
      /\ op.corpus = c /\ op.items = operations[i].items /\ op.status = status
  BY <1>1 DEF IngestionOperation
<1>3. operations' = [operations EXCEPT ![i] = op]
  BY DEF Finishes
<1>4. c \in 1 .. Len(created) /\ operations[i].items \in SUBSET Items
  BY <1>1 DEF TargetInv, IngestionOperation
<1>5. operations[i].status = "RUNNING"
  BY DEF Finishes
<1>6. created' = IF status = "SUCCEEDED" THEN [created EXCEPT ![c] = grown] ELSE created
  BY DEF Finishes
<1> HIDE DEF op
<1>7. /\ operations' \in Seq(IngestionOperation)
      /\ Len(operations') = Len(operations)
      /\ \A j \in 1 .. Len(operations) : operations'[j] = IF j = i THEN op ELSE operations[j]
  BY <1>2, <1>3, ExceptSeq DEF Types
<1>8. Kept(operations, operations')
  BY <1>2, <1>5, <1>7, FieldTypes DEF Kept
<1>9. /\ created' \in Seq(SUBSET Items)
      /\ Len(created') = Len(created)
      /\ \A d \in 1 .. Len(created) : created[d] \subseteq created'[d]
      /\ status = "SUCCEEDED" => operations[i].items \subseteq created'[c]
  <2>1. created \in Seq(SUBSET Items) /\ created[c] \in SUBSET Items
    BY <1>4, FieldTypes DEF Types
  <2>2. /\ grown \in SUBSET Items /\ operations[i].items \subseteq grown
        /\ created[c] \subseteq grown
    BY <1>4, <2>1
  <2>3. c \in 1 .. Len(created)
    BY <1>4
  <2> HIDE DEF grown, c
  <2>4. CASE status = "SUCCEEDED"
    <3>1. created' = [created EXCEPT ![c] = grown]
      BY <1>6, <2>4
    <3> QED
      BY <2>1, <2>2, <2>3, <3>1, ExceptSeq
  <2>5. CASE status # "SUCCEEDED"
    BY <1>6, <2>1, <2>5
  <2> QED
    BY <2>4, <2>5
<1>10. TargetInv'
  <2> SUFFICES ASSUME NEW j \in 1 .. Len(operations')
               PROVE  /\ operations'[j].corpus \in 1 .. Len(created')
                      /\ operations'[j].status = "SUCCEEDED" =>
                           operations'[j].items \subseteq created'[operations'[j].corpus]
    BY DEF TargetInv
  <2>1. CASE j = i
    BY <1>2, <1>4, <1>7, <1>9, <2>1
  <2>2. CASE j # i
    <3>1. j \in 1 .. Len(operations) /\ operations'[j] = operations[j]
      BY <1>7, <2>2
    <3>2. /\ operations[j].corpus \in 1 .. Len(created)
          /\ operations[j].status = "SUCCEEDED" =>
               operations[j].items \subseteq created[operations[j].corpus]
      BY <3>1 DEF TargetInv
    <3> QED
      BY <1>9, <3>1, <3>2
  <2> QED
    BY <2>1, <2>2
<1> QED
  BY <1>5, <1>7, <1>8, <1>9, <1>10

(* A corpus more on the target holds nothing. *)
LEMMA CreatesKeeps ==
  ASSUME Types, TargetInv, created' = Append(created, {}), UNCHANGED operations
  PROVE  /\ created' \in Seq(SUBSET Items)
         /\ Len(created') = Len(created) + 1
         /\ TargetInv'
<1>1. {} \in SUBSET Items /\ created \in Seq(SUBSET Items)
  BY DEF Types
<1>2. /\ created' \in Seq(SUBSET Items)
      /\ Len(created) \in Nat
      /\ Len(created') = Len(created) + 1
      /\ \A c \in 1 .. Len(created) : created'[c] = created[c]
  BY <1>1, Appended
<1> QED
  BY <1>2 DEF TargetInv

(* What was brought stays brought. *)
LEMMA FilledStays ==
  ASSUME NEW ops, NEW later, Len(ops) \in Nat, Len(later) \in Nat, Kept(ops, later),
         NEW o, Filled(o, ops)
  PROVE  Filled(o, later)
<1> SUFFICES ASSUME NEW item, Brought(item, o, ops)
             PROVE  Brought(item, o, later)
  BY DEF Filled
<1>1. PICK i \in 1 .. Len(ops) :
        /\ ops[i].corpus = o.corpus
        /\ item \in ops[i].items
        /\ \/ ops[i].status = "SUCCEEDED"
           \/ o.mode = "CHUNKS" /\ \E j \in i + 1 .. Len(ops) : ops[j].corpus = o.corpus
  BY DEF Brought
<1>2. i \in 1 .. Len(later)
  BY DEF Kept
<1>3. later[i].corpus = o.corpus /\ item \in later[i].items
  BY <1>1 DEF Kept
<1>4. CASE ops[i].status = "SUCCEEDED"
  BY <1>2, <1>3, <1>4 DEF Brought, Kept
<1>5. ASSUME o.mode = "CHUNKS", NEW j \in i + 1 .. Len(ops), ops[j].corpus = o.corpus
      PROVE  Brought(item, o, later)
  <2>1. j \in 1 .. Len(ops) /\ j \in i + 1 .. Len(later)
    BY DEF Kept
  <2>2. later[j].corpus = o.corpus
    BY <1>5, <2>1 DEF Kept
  <2> QED
    BY <1>2, <1>3, <1>5, <2>1, <2>2 DEF Brought
<1> QED
  BY <1>1, <1>4, <1>5

LEMMA DeliveryStays ==
  ASSUME Types, DeliveryInv, operations' \in Seq(IngestionOperation),
         Kept(operations, operations'), UNCHANGED outcomes
  PROVE  DeliveryInv'
<1>1. Len(operations) \in Nat /\ Len(operations') \in Nat
  BY LenProperties DEF Types
<1> QED
  BY <1>1, FilledStays DEF DeliveryInv

LEMMA DeliveryEnds ==
  ASSUME Types, DeliveryInv, operations' \in Seq(IngestionOperation),
         Kept(operations, operations'),
         NEW o \in Outcome, outcomes' = Append(outcomes, o), Filled(o, operations')
  PROVE  DeliveryInv'
<1>1. Len(operations) \in Nat /\ Len(operations') \in Nat
  BY LenProperties DEF Types
<1>2. /\ Len(outcomes) \in Nat
      /\ Len(outcomes') = Len(outcomes) + 1
      /\ \A n \in 1 .. Len(outcomes) : outcomes'[n] = outcomes[n]
      /\ outcomes'[Len(outcomes) + 1] = o
  BY Appended DEF Types
<1> SUFFICES ASSUME NEW n \in 1 .. Len(outcomes')
             PROVE  Filled(outcomes'[n], operations')
  BY DEF DeliveryInv
<1>3. CASE n = Len(outcomes) + 1
  BY <1>2, <1>3
<1>4. CASE n # Len(outcomes) + 1
  <2>1. n \in 1 .. Len(outcomes) /\ outcomes'[n] = outcomes[n]
    BY <1>2, <1>4
  <2>2. Filled(outcomes[n], operations)
    BY <2>1 DEF DeliveryInv
  <2> QED
    BY <1>1, <2>1, <2>2, FilledStays
<1> QED
  BY <1>3, <1>4

-----------------------------------------------------------------------------
(* The rows of corpora and documents *)

LEMMA CorpusIdsBelow ==
  ASSUME Types, Counts
  PROVE  /\ \A c \in 1 .. Len(created) : prep.step \notin Working => c \in CorpusIds
         /\ prep.step # "idle" => \A c \in 1 .. Len(created) : c \in CorpusIds
         /\ prep.step = "create" => Len(created) + 1 \in CorpusIds
BY FieldTypes, CorpusAssumption DEF Counts, CorpusIds, Working

(* Nothing about the rows changes while a preparation keeps its corpus. *)
LEMMA RowsStay ==
  ASSUME Types, RowInv, UNCHANGED <<corpora, outcomes, lost>>,
         Len(created') = Len(created),
         prep'.step \in Working <=> prep.step \in Working,
         prep.step \in Working => prep'.corpus = prep.corpus
  PROVE  RowInv'
<1>1. ASSUME NEW c \in CorpusIds
      PROVE  RowOf(c)'
  BY DEF RowInv, RowOf
<1>2. ASSUME NEW n \in 1 .. Len(outcomes)
      PROVE  OutcomeOf(n)'
  BY DEF RowInv, OutcomeOf, Told
<1> QED
  BY <1>1, <1>2 DEF RowInv

(* A preparation ends and leaves the rows alone. Its outcome names its     *)
(* corpus, or none; what is created now is lost.                           *)
LEMMA RowsEnd ==
  ASSUME Types, Newest, RowInv, UNCHANGED corpora,
         NEW o \in Outcome, outcomes' = Append(outcomes, o),
         prep'.step \notin Working,
         o.status \notin {"READY", "FAILED"},
         prep.step \in Working => o.corpus = prep.corpus,
         o.corpus # None => o.corpus <= Len(created),
         Len(created') \in Nat, Len(created') >= Len(created),
         lost' = lost \cup (Len(created) + 1 .. Len(created'))
  PROVE  RowInv'
<1>1. /\ Len(outcomes) \in Nat
      /\ Len(outcomes') = Len(outcomes) + 1
      /\ \A n \in 1 .. Len(outcomes) : outcomes'[n] = outcomes[n]
      /\ outcomes'[Len(outcomes) + 1] = o
  BY Appended DEF Types
<1>2. ASSUME NEW c \in CorpusIds
      PROVE  RowOf(c)'
  <2>1. RowOf(c) /\ c \in Nat /\ Len(created) \in Nat
    BY FieldTypes, CorpusAssumption DEF RowInv, CorpusIds
  <2>2. (c > Len(created) => corpora[c] = None)'
    BY <2>1 DEF RowOf
  <2>3. (c \in lost => corpora[c] = None \/ corpora[c].mode = "EXTERNAL")'
    BY <2>1 DEF RowOf
  <2>4. (c \in 1 .. Len(created) /\ c \notin lost => corpora[c] # None)'
    BY <2>1 DEF RowOf
  <2>5. corpora'[c] # None => \E n \in 1 .. Len(outcomes') : outcomes'[n].corpus = c
    <3> SUFFICES ASSUME corpora[c] # None
                 PROVE  \E n \in 1 .. Len(outcomes') : outcomes'[n].corpus = c
      OBVIOUS
    <3>1. CASE prep.step \in Working /\ c = prep.corpus
      BY <1>1, <3>1
    <3>2. ASSUME NEW n \in 1 .. Len(outcomes), outcomes[n].corpus = c
          PROVE  \E m \in 1 .. Len(outcomes') : outcomes'[m].corpus = c
      BY <1>1, <3>2
    <3> QED
      BY <2>1, <3>1, <3>2 DEF RowOf
  <2> QED
    BY <2>2, <2>3, <2>4, <2>5 DEF RowOf
<1>3. ASSUME NEW n \in 1 .. Len(outcomes')
      PROVE  OutcomeOf(n)'
  <2>1. CASE n = Len(outcomes) + 1
    <3>1. outcomes'[n] = o
      BY <1>1, <2>1
    <3>2. o.corpus \in CorpusIds \cup {None} /\ Len(created) \in Nat
      BY FieldTypes DEF Outcome
    <3>3. o.corpus # None => o.corpus <= Len(created')
      BY <3>2, CorpusAssumption DEF CorpusIds
    <3> QED
      BY <3>1, <3>3 DEF OutcomeOf, Told
  <2>2. CASE n # Len(outcomes) + 1
    <3>1. n \in 1 .. Len(outcomes) /\ outcomes'[n] = outcomes[n]
      BY <1>1, <2>2
    <3>2. OutcomeOf(n)
      BY <3>1 DEF RowInv
    <3>3. outcomes[n].corpus \in CorpusIds \cup {None} /\ Len(created) \in Nat
      BY <3>1, FieldTypes DEF Outcome
    <3>4. outcomes[n].corpus # None => outcomes[n].corpus <= Len(created')
      BY <3>2, <3>3, CorpusAssumption DEF OutcomeOf, CorpusIds
    <3>5. Told(n)'
      <4> SUFFICES ASSUME outcomes[n].status \in {"READY", "FAILED"},
                          \A later \in n + 1 .. Len(outcomes') :
                            outcomes'[later].corpus # outcomes[n].corpus
                   PROVE  corpora[outcomes[n].corpus] =
                            [mode |-> outcomes[n].mode, status |-> outcomes[n].status]
        BY <3>1 DEF Told
      <4>1. \A later \in n + 1 .. Len(outcomes) : outcomes[later].corpus # outcomes[n].corpus
        BY <1>1, <3>1
      <4> QED
        BY <3>2, <4>1 DEF OutcomeOf, Told
    <3> QED
      BY <3>1, <3>2, <3>4, <3>5 DEF OutcomeOf
  <2> QED
    BY <2>1, <2>2
<1> QED
  BY <1>2, <1>3 DEF RowInv

(* A preparation ends and the row of its corpus tells how.                 *)
LEMMA RowsRecord ==
  ASSUME Types, Newest, RowInv, UNCHANGED lost, Len(created') = Len(created),
         NEW o \in Outcome, outcomes' = Append(outcomes, o),
         prep'.step \notin Working,
         prep.step \in Working => o.corpus = prep.corpus,
         o.corpus \in CorpusIds, o.corpus <= Len(created),
         o.corpus \in lost => o.mode = "EXTERNAL",
         [mode |-> o.mode, status |-> o.status] \in Rows,
         persist_corpus(o.corpus, o.mode, o.status)
  PROVE  /\ corpora' \in [CorpusIds -> Rows \cup {None}]
         /\ RowInv'
<1> DEFINE row == [mode |-> o.mode, status |-> o.status]
<1>1. /\ Len(outcomes) \in Nat
      /\ Len(outcomes') = Len(outcomes) + 1
      /\ \A n \in 1 .. Len(outcomes) : outcomes'[n] = outcomes[n]
      /\ outcomes'[Len(outcomes) + 1] = o
  BY Appended DEF Types
<1>2. row \in Rows /\ row # None /\ row.mode = o.mode
  BY CorpusAssumption
<1>3. corpora' = [corpora EXCEPT ![o.corpus] = row]
  BY DEF persist_corpus
<1> HIDE DEF row
<1>4. /\ corpora' \in [CorpusIds -> Rows \cup {None}]
      /\ \A c \in CorpusIds : corpora'[c] = IF c = o.corpus THEN row ELSE corpora[c]
  BY <1>2, <1>3 DEF Types
<1>5. o.corpus # None
  BY CorpusAssumption DEF CorpusIds
<1>6. ASSUME NEW c \in CorpusIds
      PROVE  RowOf(c)'
  <2>1. RowOf(c) /\ c \in Nat /\ Len(created) \in Nat
    BY FieldTypes, CorpusAssumption DEF RowInv, CorpusIds
  <2>2. CASE c = o.corpus
    <3>1. corpora'[c] = row
      BY <1>4, <2>2
    <3>2. \E n \in 1 .. Len(outcomes') : outcomes'[n].corpus = c
      BY <1>1, <2>2
    <3> QED
      BY <1>2, <2>1, <2>2, <3>1, <3>2 DEF RowOf
  <2>3. CASE c # o.corpus
    <3>1. corpora'[c] = corpora[c]
      BY <1>4, <2>3
    <3>2. corpora[c] # None => \E n \in 1 .. Len(outcomes') : outcomes'[n].corpus = c
      <4>1. corpora[c] # None => \E n \in 1 .. Len(outcomes) : outcomes[n].corpus = c
        BY <2>1, <2>3 DEF RowOf
      <4> QED
        BY <1>1, <4>1
    <3> QED
      BY <2>1, <3>1, <3>2 DEF RowOf
  <2> QED
    BY <2>2, <2>3
<1>7. ASSUME NEW n \in 1 .. Len(outcomes')
      PROVE  OutcomeOf(n)'
  <2>1. CASE n = Len(outcomes) + 1
    <3>1. outcomes'[n] = o
      BY <1>1, <2>1
    <3> QED
      BY <1>4, <1>5, <3>1 DEF OutcomeOf, Told, row
  <2>2. CASE n # Len(outcomes) + 1
    <3>1. n \in 1 .. Len(outcomes) /\ outcomes'[n] = outcomes[n]
      BY <1>1, <2>2
    <3>2. OutcomeOf(n)
      BY <3>1 DEF RowInv
    <3>3. outcomes[n].corpus \in CorpusIds \cup {None}
      BY <3>1, FieldTypes DEF Outcome
    <3>4. Told(n)'
      <4> SUFFICES ASSUME outcomes[n].status \in {"READY", "FAILED"},
                          \A later \in n + 1 .. Len(outcomes') :
                            outcomes'[later].corpus # outcomes[n].corpus
                   PROVE  corpora'[outcomes[n].corpus] =
                            [mode |-> outcomes[n].mode, status |-> outcomes[n].status]
        BY <3>1 DEF Told
      <4>1. \A later \in n + 1 .. Len(outcomes) : outcomes[later].corpus # outcomes[n].corpus
        BY <1>1, <3>1
      <4>2. outcomes[n].corpus # o.corpus
        BY <1>1, <3>1
      <4>3. outcomes[n].corpus \in CorpusIds
        BY <3>2, <3>3 DEF OutcomeOf
      <4> QED
        BY <1>4, <3>2, <4>1, <4>2, <4>3 DEF OutcomeOf, Told
    <3> QED
      BY <3>1, <3>2, <3>4 DEF OutcomeOf
  <2> QED
    BY <2>1, <2>2
<1> QED
  BY <1>4, <1>6, <1>7 DEF RowInv

(* The records of documents stay, and the target is given nothing new.     *)
LEMMA DocumentsStay ==
  ASSUME Types, DocumentInv, UNCHANGED documents,
         Len(operations') = Len(operations), Kept(operations, operations'),
         prep'.step = "upload" => UNCHANGED prep
  PROVE  DocumentInv'
<1>1. ASSUME NEW i \in 1 .. Len(operations), NEW d \in operations'[i].items \cap Documents
      PROVE  documents[d] # None /\ documents[d] >= operations'[i].corpus
  <2>1. operations'[i].items = operations[i].items /\ operations'[i].corpus = operations[i].corpus
    BY DEF Kept
  <2> QED
    BY <2>1 DEF DocumentInv
<1> QED
  BY <1>1 DEF DocumentInv

(* The target is given items that are recorded under its newest corpus, or *)
(* chunks.                                                                 *)
LEMMA DocumentsGiven ==
  ASSUME Types, TargetInv, DocumentInv, UNCHANGED documents,
         prep.corpus \in 1 .. Len(created),
         NEW items \in SUBSET Items, NEW key \in Keys, NEW status \in Statuses,
         Accepts(items, key, status),
         \A d \in items \cap Documents : documents[d] = prep.corpus,
         prep'.step # "upload"
  PROVE  DocumentInv'
<1>1. /\ Len(operations') = Len(operations) + 1
      /\ \A i \in 1 .. Len(operations) : operations'[i] = operations[i]
      /\ operations'[Len(operations) + 1] =
           [corpus |-> prep.corpus, items |-> items, key |-> key, status |-> status]
      /\ Len(operations) \in Nat /\ Len(created) \in Nat
  BY AcceptsKeeps, FieldTypes
<1> SUFFICES ASSUME NEW i \in 1 .. Len(operations'), NEW d \in operations'[i].items \cap Documents
             PROVE  documents[d] # None /\ documents[d] >= operations'[i].corpus
  BY DEF DocumentInv
<1>2. CASE i = Len(operations) + 1
  <2>1. operations'[i].corpus = prep.corpus /\ operations'[i].items = items
    BY <1>1, <1>2
  <2> QED
    BY <1>1, <2>1, CorpusAssumption
<1>3. CASE i # Len(operations) + 1
  BY <1>1, <1>3 DEF DocumentInv
<1> QED
  BY <1>2, <1>3

-----------------------------------------------------------------------------
(* Preparations that end *)

(* Nothing is asked of a preparation that is not under way.                *)
LEMMA IdleKeeps ==
  ASSUME prep'.step = "idle"
  PROVE  Asked' /\ Newest' /\ Progress' /\ Awaiting'
BY DEF Asked, Newest, Progress, Awaiting, Working

LEMMA EndCounts ==
  ASSUME Types, Len(outcomes) < MaxPreparations, prep'.step = "idle",
         NEW o \in Outcome, outcomes' = Append(outcomes, o),
         Len(created') \in Nat, Len(created') <= Len(outcomes) + 1
  PROVE  Counts' /\ outcomes' \in Seq(Outcome)
<1>1. /\ Len(outcomes) \in Nat /\ outcomes' \in Seq(Outcome)
      /\ Len(outcomes') = Len(outcomes) + 1
  BY Appended DEF Types
<1>2. Len(outcomes') <= MaxPreparations
  BY <1>1, CorpusAssumption
<1> QED
  BY <1>1, <1>2 DEF Counts, Working

(* One that is refused, cancelled or whose corpus is not created.          *)
LEMMA EndsUnrecorded ==
  ASSUME CorpusInv, UNCHANGED <<operations, corpora, documents>>,
         Len(outcomes) < MaxPreparations,
         prep' \in Preparation, prep'.step = "idle",
         NEW o \in Outcome, outcomes' = Append(outcomes, o),
         o.status \notin {"READY", "FAILED"},
         prep.step \in Working => o.corpus = prep.corpus,
         o.corpus # None => o.corpus <= Len(created),
         created' \in Seq(SUBSET Items),
         Len(created') >= Len(created), Len(created') <= Len(outcomes) + 1,
         lost' = lost \cup (Len(created) + 1 .. Len(created')),
         TargetInv'
  PROVE  CorpusInv'
<1>1. Types
  BY DEF CorpusInv
<1>2. Len(created) \in Nat /\ Len(created') \in Nat /\ Len(operations) \in Nat
  BY <1>1, FieldTypes, LenProperties
<1>3. Counts' /\ outcomes' \in Seq(Outcome)
  BY <1>1, <1>2, EndCounts
<1>4. Types'
  <2>1. ASSUME NEW c \in lost'
        PROVE  c \in 1 .. Len(created')
    <3>1. CASE c \in lost
      <4>1. c \in 1 .. Len(created)
        BY <1>1, <3>1 DEF Types
      <4> QED
        BY <1>2, <4>1
    <3>2. CASE c \in Len(created) + 1 .. Len(created')
      BY <1>2, <3>2
    <3> QED
      BY <3>1, <3>2
  <2> QED
    BY <1>1, <1>3, <2>1 DEF Types
<1>5. Asked' /\ Newest' /\ Progress' /\ Awaiting'
  BY IdleKeeps
<1>6. Kept(operations, operations')
  BY <1>2 DEF Kept
<1>7. DeliveryInv'
  <2>1. Filled(o, operations')
    BY DEF Filled
  <2> QED
    BY <1>1, <1>6, <2>1, DeliveryEnds DEF CorpusInv, Types
<1>8. RowInv'
  <2>1. prep'.step \notin Working
    BY DEF Working
  <2> QED
    BY <1>1, <1>2, <2>1, RowsEnd DEF CorpusInv
<1>9. DocumentInv'
  BY <1>1, <1>6, DocumentsStay DEF CorpusInv
<1> QED
  BY <1>3, <1>4, <1>5, <1>7, <1>8, <1>9 DEF CorpusInv

(* One whose end is recorded in the row of its corpus.                     *)
LEMMA EndsRecorded ==
  ASSUME CorpusInv, UNCHANGED lost, prep.step # "idle",
         NEW status \in {"READY", "FAILED"}, Ends(status),
         persist_corpus(prep.corpus, prep.mode, status),
         prep.corpus \in CorpusIds, prep.corpus <= Len(created),
         prep.corpus \in lost => prep.mode = "EXTERNAL",
         created' \in Seq(SUBSET Items), Len(created') = Len(created),
         operations' \in Seq(IngestionOperation), Kept(operations, operations'),
         documents' \in [Documents -> CorpusIds \cup {None}],
         TargetInv', DocumentInv',
         status = "READY" =>
           \A k \in 1 .. Len(Full) :
             Brought(Full[k], [status |-> status, corpus |-> prep.corpus,
                               mode |-> prep.mode, benchmark |-> prep.benchmark], operations')
  PROVE  CorpusInv'
<1> DEFINE o == [status |-> status, corpus |-> prep.corpus,
                 mode |-> prep.mode, benchmark |-> prep.benchmark]
<1>1. Types /\ Counts /\ Asked /\ Newest /\ RowInv /\ DeliveryInv
  BY DEF CorpusInv
<1>2. o \in Outcome
  BY <1>1, EndsOutcome DEF Types
<1>3. /\ o.status = status /\ o.corpus = prep.corpus /\ o.mode = prep.mode
      /\ o.benchmark = prep.benchmark
  OBVIOUS
<1>4. prep' = Idle /\ outcomes' = Append(outcomes, o)
  BY DEF Ends
<1>5. Filled(o, operations')
  BY <1>3 DEF Filled, Full
<1> HIDE DEF o
<1>6. Len(created) \in Nat /\ Len(outcomes) \in Nat /\ Len(operations) \in Nat
  BY <1>1, FieldTypes
<1>7. prep' \in Preparation /\ prep'.step = "idle" /\ outcomes' \in Seq(Outcome)
  BY <1>1, <1>2, <1>4, Ending DEF Types
<1>8. Counts'
  <2>1. Len(outcomes) < MaxPreparations /\ Len(created') <= Len(outcomes) + 1
    BY <1>1 DEF Counts
  <2> QED
    BY <1>1, <1>2, <1>4, <1>6, <1>7, <2>1, EndCounts
<1>9. [mode |-> o.mode, status |-> o.status] \in Rows
  BY <1>1, <1>3 DEF Asked, Rows
<1>10. corpora' \in [CorpusIds -> Rows \cup {None}] /\ RowInv'
  <2>1. prep'.step \notin Working
    BY <1>7 DEF Working
  <2> QED
    BY <1>1, <1>2, <1>3, <1>4, <1>9, <2>1, RowsRecord
<1>11. DeliveryInv'
  BY <1>1, <1>2, <1>4, <1>5, DeliveryEnds
<1>12. Types'
  BY <1>1, <1>7, <1>10 DEF Types
<1> QED
  BY <1>7, <1>8, <1>10, <1>11, <1>12, IdleKeeps DEF CorpusInv

(* A failure after the corpus was created.                                 *)
LEMMA FailsRecorded ==
  ASSUME CorpusInv, UNCHANGED lost, prep.step \in Working, Fails,
         created' \in Seq(SUBSET Items), Len(created') = Len(created),
         operations' \in Seq(IngestionOperation), Kept(operations, operations'),
         documents' \in [Documents -> CorpusIds \cup {None}],
         TargetInv', DocumentInv'
  PROVE  CorpusInv'
<1>1. prep.corpus = Len(created) /\ prep.corpus \notin lost /\ Len(created) \in Nat
  BY FieldTypes DEF CorpusInv, Newest
<1>2. prep.corpus \in CorpusIds /\ prep.corpus <= Len(created)
  BY <1>1, FieldTypes, CorpusAssumption DEF CorpusInv
<1>3. /\ prep.step # "idle" /\ Ends("FAILED")
      /\ persist_corpus(prep.corpus, prep.mode, "FAILED")
  BY DEF Fails, Working
<1> QED
  BY <1>1, <1>2, <1>3, EndsRecorded

(* The same, when the target was asked for nothing and no document named.  *)
LEMMA FailsQuietly ==
  ASSUME CorpusInv, prep.step \in Working, Fails,
         UNCHANGED <<created, operations, lost, documents>>
  PROVE  CorpusInv'
<1>1. Types /\ TargetInv /\ DocumentInv
  BY DEF CorpusInv
<1>2. prep' = Idle /\ prep'.step = "idle"
  BY IdleType DEF Fails, Ends
<1>3. Kept(operations, operations')
  BY <1>1, FieldTypes DEF Kept
<1>4. TargetInv'
  BY <1>1 DEF TargetInv
<1>5. DocumentInv'
  BY <1>1, <1>2, <1>3, DocumentsStay
<1> QED
  BY <1>1, <1>3, <1>4, <1>5, FailsRecorded DEF Types

-----------------------------------------------------------------------------
(* The beginning, and the steps outside a preparation *)

LEMMA InitHolds == Init => IInv
<1> SUFFICES ASSUME Init
             PROVE  IInv
  OBVIOUS
<1>1. prep \in Preparation /\ prep.step = "idle"
  BY IdleType DEF Init
<1>2. created = <<>> /\ operations = <<>> /\ outcomes = <<>> /\ lost = {}
  BY DEF Init
<1>3. /\ created \in Seq(SUBSET Items) /\ Len(created) = 0
      /\ operations \in Seq(IngestionOperation) /\ Len(operations) = 0
      /\ outcomes \in Seq(Outcome) /\ Len(outcomes) = 0
  BY <1>2, EmptySeq
<1>4. corpora = [c \in CorpusIds |-> None] /\ documents = [d \in Documents |-> None]
  BY DEF Init
<1>5. Types
  BY <1>1, <1>2, <1>3, <1>4 DEF Types
<1>6. Counts
  BY <1>1, <1>3, CorpusAssumption DEF Counts
<1>7. Asked /\ Newest /\ Progress /\ Awaiting
  BY <1>1 DEF Asked, Newest, Progress, Awaiting, Working
<1>8. TargetInv /\ DeliveryInv
  BY <1>3 DEF TargetInv, DeliveryInv
<1>9. RowInv
  BY <1>2, <1>3, <1>4 DEF RowInv, RowOf
<1>10. DocumentInv
  BY <1>1, <1>3 DEF DocumentInv
<1>11. SessionTypeOK
  BY DEF Init, SessionInit, SessionTypeOK
<1> QED
  BY <1>5, <1>6, <1>7, <1>8, <1>9, <1>10, <1>11 DEF IInv, CorpusInv

LEMMA OutsideStays ==
  ASSUME CorpusInv, UNCHANGED corpusVars
  PROVE  CorpusInv'
<1>1. /\ UNCHANGED prep /\ UNCHANGED created /\ UNCHANGED operations /\ UNCHANGED lost
      /\ UNCHANGED corpora /\ UNCHANGED documents /\ UNCHANGED outcomes
  BY DEF corpusVars, targetVars, recordVars
<1>2. Types' /\ Counts'
  BY <1>1 DEF CorpusInv, Types, Counts
<1>3. Asked'
  BY <1>1 DEF CorpusInv, Asked, Full
<1>4. Newest' /\ Awaiting'
  BY <1>1 DEF CorpusInv, Newest, Awaiting
<1>5. Progress'
  BY <1>1 DEF CorpusInv, Progress, Full, Done
<1>6. TargetInv' /\ DeliveryInv'
  BY <1>1 DEF CorpusInv, TargetInv, DeliveryInv
<1>7. RowInv'
  BY <1>1 DEF CorpusInv, RowInv, RowOf, OutcomeOf, Told
<1>8. DocumentInv'
  BY <1>1 DEF CorpusInv, DocumentInv
<1> QED
  BY <1>2, <1>3, <1>4, <1>5, <1>6, <1>7, <1>8 DEF CorpusInv

(* A preparation that goes on without a corpus, or with the one it has.    *)
LEMMA RestStays ==
  ASSUME CorpusInv, UNCHANGED <<targetVars, lost, recordVars, outcomes>>,
         prep' \in Preparation, prep'.step # "upload",
         prep'.step \in Working <=> prep.step \in Working,
         prep.step \in Working => prep'.corpus = prep.corpus
  PROVE  Types' /\ TargetInv' /\ DeliveryInv' /\ RowInv' /\ DocumentInv'
<1>1. /\ UNCHANGED created /\ UNCHANGED operations /\ UNCHANGED lost
      /\ UNCHANGED corpora /\ UNCHANGED documents /\ UNCHANGED outcomes
  BY DEF targetVars, recordVars
<1>2. Types /\ TargetInv /\ DeliveryInv /\ RowInv /\ DocumentInv
  BY DEF CorpusInv
<1>3. Types'
  BY <1>1, <1>2 DEF Types
<1>4. TargetInv'
  BY <1>1, <1>2 DEF TargetInv
<1>5. DeliveryInv'
  BY <1>1, <1>2 DEF DeliveryInv
<1>6. RowInv'
  BY <1>1, <1>2, RowsStay
<1>7. DocumentInv'
  BY <1>1, <1>2 DEF DocumentInv
<1> QED
  BY <1>3, <1>4, <1>5, <1>6, <1>7

LEMMA PrepareStays ==
  ASSUME CorpusInv, NEW b \in Benchmarks, NEW m \in Modes, NEW id,
         id = None \/ (m = "EXTERNAL" /\ id \in 0 .. Len(created)),
         Prepare(b, m, id)
  PROVE  CorpusInv'
<1>1. Types /\ Counts /\ TargetInv
  BY DEF CorpusInv
<1>2. /\ prep.step = "idle" /\ Len(outcomes) < MaxPreparations
      /\ UNCHANGED <<targetVars, lost, recordVars>>
      /\ UNCHANGED created /\ UNCHANGED operations
  BY DEF Prepare, targetVars
<1>3. Len(created) \in Nat /\ Len(outcomes) \in Nat /\ Len(created) <= Len(outcomes)
  BY <1>1, <1>2, FieldTypes DEF Counts, Working
<1>4. CASE m \in available_corpus_modes(b)
  <2>1. id \in CorpusIds \cup {None}
    BY <1>2, <1>3, CorpusAssumption DEF CorpusIds
  <2>2. Contents(b, m) \in Seq(Items)
    BY ContentsType
  <2>3. prep' = [Idle EXCEPT !.step = "capabilities", !.benchmark = b, !.mode = m,
                             !.corpus = id, !.left = Contents(b, m)]
    BY <1>4 DEF Prepare
  <2>4. /\ prep' \in Preparation /\ prep'.step = "capabilities" /\ prep'.benchmark = b
        /\ prep'.mode = m /\ prep'.corpus = id /\ prep'.left = Contents(b, m)
    BY <2>1, <2>2, <2>3, IdleType DEF Preparation, Steps
  <2>5. UNCHANGED outcomes
    BY <1>4 DEF Prepare
  <2>6. Types' /\ TargetInv' /\ DeliveryInv' /\ RowInv' /\ DocumentInv'
    BY <1>2, <2>4, <2>5, RestStays DEF Working
  <2>7. Counts'
    BY <1>1, <1>2, <1>3, <2>4, <2>5 DEF Counts, Working
  <2>8. m # "EXTERNAL" => Contents(b, m) # <<>>
    BY <1>4, ModesDiffer DEF available_corpus_modes, Contents
  <2>9. Asked'
    BY <1>2, <2>4, <2>8, <1>3 DEF Asked, Full
  <2>10. Newest' /\ Progress' /\ Awaiting'
    BY <2>4 DEF Newest, Progress, Awaiting, Working
  <2> QED
    BY <2>6, <2>7, <2>9, <2>10 DEF CorpusInv
<1>5. CASE m \notin available_corpus_modes(b)
  <2> DEFINE o == [status |-> "refused", corpus |-> None, mode |-> m, benchmark |-> b]
  <2>1. UNCHANGED prep /\ outcomes' = Append(outcomes, o)
    BY <1>5 DEF Prepare
  <2>2. o \in Outcome /\ o.corpus = None /\ o.status = "refused"
    BY DEF Outcome
  <2> HIDE DEF o
  <2>3. TargetInv'
    BY <1>1, <1>2 DEF TargetInv
  <2>4. prep' \in Preparation /\ prep'.step = "idle" /\ prep.step \notin Working
    BY <1>1, <1>2, <2>1 DEF Types, Working
  <2>5. created' \in Seq(SUBSET Items) /\ Len(created') = Len(created)
    BY <1>1, <1>2 DEF Types
  <2>6. lost' = lost \cup (Len(created) + 1 .. Len(created'))
    BY <1>2, <1>3, <2>5
  <2>7. Len(created') >= Len(created) /\ Len(created') <= Len(outcomes) + 1
    BY <1>3, <2>5
  <2>8. UNCHANGED <<operations, corpora, documents>>
    BY <1>2 DEF recordVars
  <2> QED
    BY <1>2, <2>1, <2>2, <2>3, <2>4, <2>5, <2>6, <2>7, <2>8, EndsUnrecorded
<1> QED
  BY <1>4, <1>5

(* A preparation that is refused after it was asked for, is cancelled, or  *)
(* whose corpus is not created while the target is left as it is.          *)
LEMMA EndsQuietly ==
  ASSUME CorpusInv, prep.step # "idle", UNCHANGED <<targetVars, lost, recordVars>>,
         NEW status \in {"raised", "refused", "cancelled"},
         NEW c \in {None, prep.corpus}, prep.step \in Working => c = prep.corpus,
         prep' = Idle,
         outcomes' = Append(outcomes, [status |-> status, corpus |-> c,
                                       mode |-> prep.mode, benchmark |-> prep.benchmark])
  PROVE  CorpusInv'
<1> DEFINE o == [status |-> status, corpus |-> c,
                 mode |-> prep.mode, benchmark |-> prep.benchmark]
<1>1. Types /\ Counts /\ Asked /\ Newest /\ TargetInv
  BY DEF CorpusInv
<1>2. c \in CorpusIds \cup {None} /\ Len(created) \in Nat /\ Len(outcomes) \in Nat
  BY <1>1, FieldTypes
<1>3. o \in Outcome
  BY <1>1, <1>2, EndsOutcome DEF Types
<1>4. o.status = status /\ o.corpus = c
  OBVIOUS
<1>5. c # None => c <= Len(created)
  <2>1. CASE prep.step \in Working
    BY <1>1, <1>2, <2>1 DEF Newest
  <2>2. CASE prep.step \notin Working
    <3>1. prep.step \in {"capabilities", "create"}
      BY <1>1, <2>2, FieldTypes DEF Working, Steps
    <3> QED
      BY <1>1, <3>1 DEF Asked
  <2> QED
    BY <2>1, <2>2
<1> HIDE DEF o
<1>6. outcomes' = Append(outcomes, o) /\ prep' \in Preparation /\ prep'.step = "idle"
  BY IdleType DEF o
<1>7. /\ UNCHANGED <<operations, corpora, documents>> /\ UNCHANGED created
      /\ UNCHANGED operations
  BY DEF targetVars, recordVars
<1>8. TargetInv'
  BY <1>1, <1>7 DEF TargetInv
<1>9. created' \in Seq(SUBSET Items) /\ Len(created') = Len(created)
  BY <1>1, <1>7 DEF Types
<1>10. lost' = lost \cup (Len(created) + 1 .. Len(created'))
  BY <1>2, <1>9
<1>11. /\ Len(outcomes) < MaxPreparations
       /\ Len(created') >= Len(created) /\ Len(created') <= Len(outcomes) + 1
  BY <1>1, <1>2, <1>9 DEF Counts
<1> QED
  BY <1>3, <1>4, <1>5, <1>6, <1>7, <1>8, <1>9, <1>10, <1>11, EndsUnrecorded

LEMMA LearnCapabilitiesStays ==
  ASSUME CorpusInv, LearnCapabilities
  PROVE  CorpusInv'
<1>1. Types /\ Counts /\ Asked
  BY DEF CorpusInv
<1>2. /\ prep.step = "capabilities" /\ prep.step \notin Working
      /\ UNCHANGED targetVars /\ UNCHANGED lost /\ UNCHANGED documents
      /\ UNCHANGED created /\ UNCHANGED operations
  BY DEF LearnCapabilities, targetVars, Working
<1>3. ASSUME prep.mode = "EXTERNAL", prep.corpus # None, Ends("READY"),
             persist_corpus(prep.corpus, "EXTERNAL", "READY")
      PROVE  CorpusInv'
  <2>1. prep.corpus \in CorpusIds /\ prep.corpus <= Len(created)
    BY <1>1, <1>2, <1>3, FieldTypes DEF Asked
  <2>2. Len(Full) = 0
    BY <1>1, <1>2, <1>3, ContentsType DEF Full, Asked
  <2>3. Kept(operations, operations')
    BY <1>1, <1>2, FieldTypes DEF Kept
  <2>4. TargetInv'
    BY <1>2 DEF CorpusInv, TargetInv
  <2>5. prep'.step = "idle"
    BY <1>3, IdleType DEF Ends
  <2>6. DocumentInv'
    BY <1>2, <2>5 DEF CorpusInv, DocumentInv
  <2> QED
    BY <1>1, <1>2, <1>3, <2>1, <2>2, <2>3, <2>4, <2>6, EndsRecorded DEF Types
<1>4. ASSUME Refuse, UNCHANGED corpora
      PROVE  CorpusInv'
  BY <1>2, <1>4, EndsQuietly DEF Refuse, recordVars
<1>5. ASSUME prep.mode \in {"DOCUMENTS", "CHUNKS"},
             prep' = [prep EXCEPT !.step = "create", !.corpus = None],
             UNCHANGED <<outcomes, corpora>>
      PROVE  CorpusInv'
  <2>1. /\ prep' \in Preparation /\ prep'.step = "create" /\ prep'.corpus = None
        /\ prep'.benchmark = prep.benchmark /\ prep'.mode = prep.mode
        /\ prep'.left = prep.left
    <3>1. prep \in Preparation /\ "create" \in Steps /\ None \in CorpusIds \cup {None}
      BY <1>1 DEF Types, Steps
    <3>2. prep' = [prep EXCEPT !.step = "create", !.corpus = None]
      BY <1>5
    <3> QED
      BY <3>1, <3>2 DEF Preparation
  <2>2. UNCHANGED <<targetVars, lost, recordVars, outcomes>> /\ prep'.step \notin Working
    BY <1>2, <1>5, <2>1 DEF recordVars, Working
  <2>3. Types' /\ TargetInv' /\ DeliveryInv' /\ RowInv' /\ DocumentInv'
    BY <1>2, <2>1, <2>2, RestStays
  <2>4. Counts'
    BY <1>1, <1>2, <1>5, <2>1, <2>2 DEF Counts
  <2>5. Asked'
    BY <1>1, <1>2, <1>5, <2>1 DEF Asked, Full
  <2>6. Newest' /\ Progress' /\ Awaiting'
    BY <2>1, <2>2 DEF Newest, Progress, Awaiting
  <2> QED
    BY <2>3, <2>4, <2>5, <2>6 DEF CorpusInv
<1> QED
  BY <1>3, <1>4, <1>5 DEF LearnCapabilities

LEMMA CapabilitiesFailStays ==
  ASSUME CorpusInv, CapabilitiesFail
  PROVE  CorpusInv'
<1>1. prep.step = "capabilities" /\ prep.step \notin Working
  BY DEF CapabilitiesFail, Working
<1> QED
  BY <1>1, EndsQuietly DEF CapabilitiesFail, Refuse

LEMMA CancelStays ==
  ASSUME CorpusInv, Cancel
  PROVE  CorpusInv'
BY EndsQuietly DEF Cancel, Ends

LEMMA CreateFailsStays ==
  ASSUME CorpusInv, NEW carriedOut \in BOOLEAN, CreateFails(carriedOut)
  PROVE  CorpusInv'
<1>1. Types /\ Counts /\ Asked /\ TargetInv
  BY DEF CorpusInv
<1>2. /\ prep.step = "create" /\ prep.step \notin Working /\ prep.corpus = None
      /\ Ends("raised") /\ UNCHANGED <<operations, recordVars>>
  BY <1>1 DEF CreateFails, Working, Asked
<1>3. CASE carriedOut = FALSE
  <2>1. UNCHANGED <<targetVars, lost, recordVars>>
    BY <1>2, <1>3 DEF CreateFails, targetVars
  <2> QED
    BY <1>2, <2>1, EndsQuietly DEF Ends
<1>4. CASE carriedOut = TRUE
  <2> DEFINE o == [status |-> "raised", corpus |-> prep.corpus,
                   mode |-> prep.mode, benchmark |-> prep.benchmark]
  <2>1. created' = Append(created, {}) /\ lost' = lost \cup {Len(created) + 1}
    BY <1>4 DEF CreateFails
  <2>2. /\ created' \in Seq(SUBSET Items) /\ Len(created') = Len(created) + 1
        /\ TargetInv' /\ Len(created) \in Nat /\ Len(outcomes) \in Nat
    BY <1>1, <1>2, <2>1, CreatesKeeps, FieldTypes
  <2>3. lost' = lost \cup (Len(created) + 1 .. Len(created'))
    BY <2>1, <2>2
  <2>4. o \in Outcome /\ o.corpus = None /\ o.status = "raised"
    BY <1>1, <1>2, EndsOutcome DEF Types
  <2>5. prep' = Idle /\ outcomes' = Append(outcomes, o)
    BY <1>2 DEF Ends
  <2> HIDE DEF o
  <2>6. prep' \in Preparation /\ prep'.step = "idle"
    BY <2>5, IdleType
  <2>7. /\ Len(outcomes) < MaxPreparations
        /\ Len(created') >= Len(created) /\ Len(created') <= Len(outcomes) + 1
    BY <1>1, <1>2, <2>2 DEF Counts
  <2>8. UNCHANGED <<operations, corpora, documents>>
    BY <1>2 DEF recordVars
  <2> QED
    BY <1>2, <2>2, <2>3, <2>4, <2>5, <2>6, <2>7, <2>8, EndsUnrecorded
<1> QED
  BY <1>3, <1>4

-----------------------------------------------------------------------------
(* The steps of a preparation that has a corpus *)

LEMMA CreateCorpusStays ==
  ASSUME CorpusInv, NEW status \in {"EMPTY", "READY"}, CreateCorpus(status)
  PROVE  CorpusInv'
<1> DEFINE id == Len(created) + 1
           next == IF prep.mode = "DOCUMENTS" THEN "record" ELSE "batch"
           row == [mode |-> prep.mode, status |-> status]
<1>1. Types /\ Counts /\ Asked /\ TargetInv /\ DeliveryInv /\ RowInv /\ DocumentInv
  BY DEF CorpusInv
<1>2. /\ prep.step = "create" /\ prep.step \notin Working
      /\ created' = Append(created, {})
      /\ corpora' = [corpora EXCEPT ![id] = row]
      /\ prep' = [prep EXCEPT !.corpus = id, !.step = next]
      /\ UNCHANGED lost /\ UNCHANGED operations /\ UNCHANGED documents /\ UNCHANGED outcomes
  BY DEF CreateCorpus, persist_corpus, Working
<1>3. Len(created) \in Nat /\ Len(operations) \in Nat /\ Len(outcomes) \in Nat
  BY <1>1, FieldTypes
<1>4. id \in CorpusIds /\ id \in Nat /\ id # None
  BY <1>1, <1>2, <1>3, CorpusIdsBelow, CorpusAssumption
<1>5. /\ created' \in Seq(SUBSET Items) /\ Len(created') = id /\ TargetInv'
  BY <1>1, <1>2, CreatesKeeps
<1>6. /\ prep.mode \in {"DOCUMENTS", "CHUNKS"} /\ prep.benchmark \in Benchmarks
      /\ prep.left = Full /\ prep.left # <<>>
  BY <1>1, <1>2, ModesDiffer DEF Asked
<1>7. row \in Rows /\ row # None
  BY <1>6, CorpusAssumption DEF Rows, Modes
<1>8. next \in {"record", "batch"} /\ next \in Steps /\ next \in Working
  BY DEF Steps, Working
<1>9. prep.mode = "DOCUMENTS" <=> next = "record"
  OBVIOUS
<1> HIDE DEF row, next, id
<1>10. /\ prep' \in Preparation /\ prep'.step = next /\ prep'.corpus = id
       /\ prep'.mode = prep.mode /\ prep'.benchmark = prep.benchmark
       /\ prep'.left = prep.left
  BY <1>1, <1>2, <1>4, <1>8 DEF Preparation, Types
<1>11. /\ corpora' \in [CorpusIds -> Rows \cup {None}]
       /\ \A c \in CorpusIds : corpora'[c] = IF c = id THEN row ELSE corpora[c]
  BY <1>1, <1>2, <1>4, <1>7 DEF Types
<1>12. lost \subseteq 1 .. Len(created) /\ id \notin lost
  BY <1>1, <1>3 DEF Types, id
<1>13. Types'
  BY <1>1, <1>2, <1>3, <1>5, <1>10, <1>11, <1>12 DEF Types, id
<1>14. Counts'
  BY <1>1, <1>2, <1>3, <1>5, <1>8, <1>10 DEF Counts, id
<1>15. Asked'
  BY <1>6, <1>8, <1>9, <1>10 DEF Asked, Modes
<1>16. Newest'
  BY <1>2, <1>3, <1>4, <1>5, <1>7, <1>10, <1>11, <1>12 DEF Newest, id
<1>17. Progress'
  <2>1. Full' = Full /\ prep'.left = Full /\ Len(Full) \in Nat
    BY <1>1, <1>6, <1>10, FieldTypes DEF Full
  <2>2. Done' = 0
    BY <2>1 DEF Done
  <2> QED
    BY <2>1, <2>2 DEF Progress
<1>18. Awaiting'
  BY <1>8, <1>10 DEF Awaiting
<1>19. DeliveryInv'
  BY <1>1, <1>2 DEF DeliveryInv
<1>20. RowInv'
  <2>1. ASSUME NEW c \in CorpusIds
        PROVE  RowOf(c)'
    <3>1. RowOf(c) /\ c \in Nat
      BY <1>1, CorpusAssumption DEF RowInv, CorpusIds
    <3>2. CASE c = id
      <4>1. corpora'[c] = row /\ prep'.step \in Working /\ prep'.corpus = c
        BY <1>8, <1>10, <1>11, <3>2
      <4> QED
        BY <1>2, <1>4, <1>5, <1>7, <1>12, <3>2, <4>1 DEF RowOf
    <3>3. CASE c # id
      <4>1. corpora'[c] = corpora[c]
        BY <1>11, <3>3
      <4>2. c > id => c > Len(created)
        BY <1>3, <3>1 DEF id
      <4>3. c \in 1 .. id => c \in 1 .. Len(created)
        BY <1>3, <3>1, <3>3 DEF id
      <4>4. corpora[c] # None => \E n \in 1 .. Len(outcomes) : outcomes[n].corpus = c
        BY <1>2, <3>1 DEF RowOf
      <4> QED
        BY <1>2, <1>5, <3>1, <4>1, <4>2, <4>3, <4>4 DEF RowOf
    <3> QED
      BY <3>2, <3>3
  <2>2. ASSUME NEW n \in 1 .. Len(outcomes)
        PROVE  OutcomeOf(n)'
    <3>1. OutcomeOf(n) /\ outcomes[n].corpus \in CorpusIds \cup {None}
      BY <1>1, FieldTypes DEF RowInv, Outcome
    <3>2. outcomes[n].corpus # None =>
            /\ outcomes[n].corpus \in Nat
            /\ outcomes[n].corpus <= Len(created)
      BY <3>1, CorpusAssumption DEF OutcomeOf, CorpusIds
    <3>3. outcomes[n].corpus # id
      BY <1>3, <1>4, <3>1, <3>2 DEF id
    <3>4. outcomes[n].corpus # None => outcomes[n].corpus <= Len(created')
      BY <1>3, <1>5, <3>2 DEF id
    <3>5. Told(n)'
      BY <1>2, <1>11, <3>1, <3>3 DEF Told, OutcomeOf
    <3> QED
      BY <1>2, <1>10, <3>1, <3>3, <3>4, <3>5 DEF OutcomeOf
  <2> QED
    BY <1>2, <2>1, <2>2 DEF RowInv
<1>21. DocumentInv'
  BY <1>1, <1>2, <1>8, <1>10 DEF DocumentInv
<1> QED
  BY <1>5, <1>13, <1>14, <1>15, <1>16, <1>17, <1>18, <1>19, <1>20, <1>21 DEF CorpusInv

(* What is next to be uploaded.                                            *)
LEMMA WorkingFacts ==
  ASSUME CorpusInv, prep.step \in Working
  PROVE  /\ prep.step # "idle"
         /\ prep.benchmark \in Benchmarks /\ prep.mode \in {"DOCUMENTS", "CHUNKS"}
         /\ prep.corpus = Len(created) /\ prep.corpus \in 1 .. Len(created)
         /\ prep.corpus \in CorpusIds
         /\ Full \in Seq(Items) /\ Len(Full) \in Nat
         /\ Done \in Nat /\ Len(prep.left) \in Nat /\ Done + Len(prep.left) = Len(Full)
         /\ prep.mode = "DOCUMENTS" => \A k \in 1 .. Len(prep.left) : prep.left[k] \in Documents
         /\ prep.mode = "CHUNKS" => \A k \in 1 .. Len(prep.left) : prep.left[k] \in Chunks
         /\ Len(created) \in Nat /\ Len(operations) \in Nat
<1>1. Types /\ Counts /\ Asked /\ Newest /\ Progress
  BY DEF CorpusInv
<1>2. prep.step # "idle" /\ prep.benchmark \in Benchmarks
  BY <1>1 DEF Asked, Working
<1>3. prep.mode \in {"DOCUMENTS", "CHUNKS"}
  BY <1>1 DEF Asked, Working
<1>4. /\ prep.corpus = Len(created) /\ prep.corpus \in 1 .. Len(created)
      /\ prep.corpus \in CorpusIds /\ Len(created) \in Nat /\ Len(operations) \in Nat
      /\ Len(prep.left) \in Nat
  BY <1>1, <1>2, CorpusIdsBelow, FieldTypes DEF Newest
<1>5. /\ Full \in Seq(Items)
      /\ prep.mode = "DOCUMENTS" => Full \in Seq(Documents)
      /\ prep.mode = "CHUNKS" => Full \in Seq(Chunks)
  BY <1>2, <1>3, ContentsType, ModesDiffer DEF Full
<1>6. Len(Full) \in Nat
  BY <1>5, LenProperties
<1>7. Len(prep.left) <= Len(Full) /\ \A k \in 1 .. Len(prep.left) : prep.left[k] = Full[Done + k]
  BY <1>1 DEF Progress
<1>8. Done \in Nat /\ Done + Len(prep.left) = Len(Full)
  BY <1>4, <1>6, <1>7 DEF Done
<1>9. \A k \in 1 .. Len(prep.left) : Done + k \in 1 .. Len(Full)
  BY <1>4, <1>6, <1>8
<1>10. prep.mode = "DOCUMENTS" => \A k \in 1 .. Len(prep.left) : prep.left[k] \in Documents
  BY <1>5, <1>7, <1>9, ElementOfSeq
<1>11. prep.mode = "CHUNKS" => \A k \in 1 .. Len(prep.left) : prep.left[k] \in Chunks
  BY <1>5, <1>7, <1>9, ElementOfSeq
<1> QED
  BY <1>2, <1>3, <1>4, <1>5, <1>6, <1>8, <1>10, <1>11

(* What was uploaded stays so, when the operation that was awaited has     *)
(* ended well or still is.                                                 *)
LEMMA UploadedStays ==
  ASSUME NEW ops, NEW later, Len(ops) \in Nat, Len(later) \in Nat, Kept(ops, later),
         NEW p, NEW q, q.corpus = p.corpus, q.mode = p.mode,
         p.step = "await" =>
           \/ q.step = "await" /\ q.operation = p.operation
           \/ later[p.operation].status = "SUCCEEDED",
         NEW item, Uploaded(item, p, ops)
  PROVE  Uploaded(item, q, later)
<1>1. PICK i \in 1 .. Len(ops) :
        /\ ops[i].corpus = p.corpus
        /\ item \in ops[i].items
        /\ \/ ops[i].status = "SUCCEEDED"
           \/ p.mode = "CHUNKS"
           \/ p.step = "await" /\ i = p.operation
  BY DEF Uploaded
<1>2. /\ i \in 1 .. Len(later) /\ later[i].corpus = q.corpus /\ item \in later[i].items
      /\ ops[i].status = "SUCCEEDED" => later[i].status = "SUCCEEDED"
  BY <1>1 DEF Kept
<1>3. \/ later[i].status = "SUCCEEDED"
      \/ q.mode = "CHUNKS"
      \/ q.step = "await" /\ i = q.operation
  BY <1>1, <1>2
<1> QED
  BY <1>2, <1>3 DEF Uploaded

LEMMA RecordDocumentStays ==
  ASSUME CorpusInv, RecordDocument
  PROVE  CorpusInv'
<1> DEFINE d == Head(prep.left)
<1>1. /\ Types /\ Counts /\ Asked /\ Newest /\ Progress /\ TargetInv /\ DeliveryInv
      /\ RowInv /\ DocumentInv
  BY DEF CorpusInv
<1>2. /\ prep.step = "record" /\ prep.step \in Working
      /\ documents' = [documents EXCEPT ![d] = prep.corpus]
      /\ UNCHANGED created /\ UNCHANGED operations /\ UNCHANGED lost
  BY DEF RecordDocument, persist_document, Working, targetVars
<1>3. prep.mode = "DOCUMENTS" /\ prep.left # <<>> /\ prep.left \in Seq(Items)
  BY <1>1, <1>2, FieldTypes DEF Asked
<1>4. d \in Documents
  <2>1. Len(prep.left) \in Nat \ {0} /\ d = prep.left[1]
    BY <1>3, EmptySeq
  <2> QED
    BY <1>2, <1>3, <2>1, WorkingFacts
<1> HIDE DEF d
<1>5. /\ prep.corpus = Len(created) /\ prep.corpus \in CorpusIds
      /\ Len(created) \in Nat /\ prep.corpus # None
  BY <1>2, WorkingFacts, CorpusAssumption DEF CorpusIds
<1>6. /\ documents' \in [Documents -> CorpusIds \cup {None}]
      /\ \A e \in Documents : documents'[e] = IF e = d THEN prep.corpus ELSE documents[e]
  BY <1>1, <1>2, <1>4, <1>5 DEF Types
<1>7. \A i \in 1 .. Len(operations) : \A e \in operations[i].items \cap Documents :
        documents'[e] # None /\ documents'[e] >= operations[i].corpus
  <2> SUFFICES ASSUME NEW i \in 1 .. Len(operations), NEW e \in operations[i].items \cap Documents
               PROVE  documents'[e] # None /\ documents'[e] >= operations[i].corpus
    OBVIOUS
  <2>1. operations[i].corpus \in 1 .. Len(created)
    BY <1>1 DEF TargetInv
  <2>2. documents[e] # None /\ documents[e] >= operations[i].corpus
    BY <1>1 DEF DocumentInv
  <2> QED
    BY <1>5, <1>6, <2>1, <2>2
<1>8. Kept(operations, operations') /\ TargetInv'
  BY <1>1, <1>2, FieldTypes DEF Kept, TargetInv
<1>9. ASSUME prep' = [prep EXCEPT !.step = "upload"], UNCHANGED <<corpora, outcomes>>
      PROVE  CorpusInv'
  <2>1. /\ prep' \in Preparation /\ prep'.step = "upload" /\ prep'.corpus = prep.corpus
        /\ prep'.mode = prep.mode /\ prep'.benchmark = prep.benchmark
        /\ prep'.left = prep.left
    BY <1>1, <1>9 DEF Preparation, Types, Steps
  <2>2. prep'.step \in Working
    BY <2>1 DEF Working
  <2>3. Types'
    BY <1>1, <1>2, <1>6, <1>9, <2>1 DEF Types
  <2>4. Counts'
    BY <1>1, <1>2, <1>9, <2>1, <2>2 DEF Counts
  <2>5. Asked'
    BY <1>1, <1>2, <1>3, <2>1 DEF Asked
  <2>6. Newest'
    BY <1>1, <1>2, <1>9, <2>1, <2>2 DEF Newest
  <2>7. Progress'
    <3>1. Full' = Full /\ Done' = Done
      BY <2>1 DEF Full, Done
    <3>2. \A k \in 1 .. Done : Uploaded(Full[k], prep', operations')
      BY <1>1, <1>2, <1>8, <2>1, FieldTypes, UploadedStays DEF Progress
    <3> QED
      BY <1>1, <1>2, <2>1, <3>1, <3>2 DEF Progress
  <2>8. Awaiting'
    BY <2>1 DEF Awaiting
  <2>9. DeliveryInv'
    BY <1>1, <1>2, <1>9 DEF DeliveryInv
  <2>10. RowInv'
    BY <1>1, <1>2, <1>9, <2>1, <2>2, RowsStay
  <2>11. DocumentInv'
    BY <1>2, <1>4, <1>6, <1>7, <2>1 DEF DocumentInv, d
  <2> QED
    BY <1>8, <2>3, <2>4, <2>5, <2>6, <2>7, <2>8, <2>9, <2>10, <2>11 DEF CorpusInv
<1>10. CASE Fails
  <2>1. prep'.step = "idle"
    BY <1>10, IdleType DEF Fails, Ends
  <2>2. DocumentInv'
    BY <1>2, <1>7, <2>1 DEF DocumentInv
  <2> QED
    BY <1>1, <1>2, <1>6, <1>8, <1>10, <2>2, FailsRecorded DEF Types
<1> QED
  BY <1>9, <1>10 DEF RecordDocument

(* The target accepts what the preparation hands it, and the preparation   *)
(* fails,                                                                  *)
LEMMA FailsHanding ==
  ASSUME CorpusInv, prep.step \in Working, Fails, UNCHANGED <<lost, documents>>,
         NEW items \in SUBSET Items, NEW key \in Keys,
         \A d \in items \cap Documents : documents[d] = prep.corpus,
         Accepts(items, key, "RUNNING")
  PROVE  CorpusInv'
<1>1. Types /\ TargetInv /\ DocumentInv /\ prep.corpus \in 1 .. Len(created)
  BY WorkingFacts DEF CorpusInv
<1>2. "RUNNING" \in Statuses /\ prep'.step = "idle"
  BY IdleType DEF Statuses, Fails, Ends
<1>3. /\ operations' \in Seq(IngestionOperation)
      /\ created' \in Seq(SUBSET Items)
      /\ Len(created') = Len(created)
      /\ Kept(operations, operations')
      /\ TargetInv'
  BY <1>1, <1>2, AcceptsKeeps
<1>4. DocumentInv'
  BY <1>1, <1>2, DocumentsGiven
<1> QED
  BY <1>1, <1>3, <1>4, FailsRecorded DEF Types

LEMMA Sums ==
  ASSUME NEW a \in Nat, NEW b \in Nat, NEW c \in Nat, NEW d \in Nat,
         b >= 1, c >= 1, c <= d - b
  PROVE  b + c \in 1 .. d /\ a + (b + c) = (a + b) + c
OBVIOUS

(* or goes on with the rest.                                               *)
LEMMA Handing ==
  ASSUME CorpusInv, prep.step \in {"upload", "batch"},
         UNCHANGED <<lost, recordVars, outcomes>>,
         NEW n \in 1 .. Len(prep.left), NEW key \in Keys, NEW status \in Statuses,
         NEW items \in SUBSET Items, items = {prep.left[k] : k \in 1 .. n},
         \A d \in items \cap Documents : documents[d] = prep.corpus,
         Accepts(items, key, status),
         prep' \in Preparation,
         prep'.benchmark = prep.benchmark, prep'.mode = prep.mode,
         prep'.corpus = prep.corpus,
         Len(prep'.left) = Len(prep.left) - n,
         \A k \in 1 .. Len(prep'.left) : prep'.left[k] = prep.left[n + k],
         \/ prep'.step = "await" /\ (prep.mode = "CHUNKS" => prep'.left = <<>>)
         \/ prep'.step = "batch" /\ prep.mode = "CHUNKS" /\ prep'.left # <<>>,
         prep'.operation = Len(operations) + 1, prep'.seen = status
  PROVE  CorpusInv'
<1>1. /\ Types /\ Counts /\ Asked /\ Newest /\ Progress /\ TargetInv /\ DeliveryInv
      /\ RowInv /\ DocumentInv
  BY DEF CorpusInv
<1>2. /\ prep.step \in Working /\ prep'.step \in Working /\ prep'.step # "upload"
      /\ prep.step \notin {"idle", "await"}
      /\ UNCHANGED corpora /\ UNCHANGED documents /\ UNCHANGED outcomes /\ UNCHANGED lost
  BY DEF Working, recordVars
<1>3. /\ prep.benchmark \in Benchmarks /\ prep.mode \in {"DOCUMENTS", "CHUNKS"}
      /\ prep.corpus \in 1 .. Len(created)
      /\ Len(Full) \in Nat /\ Done \in Nat /\ Len(prep.left) \in Nat
      /\ Done + Len(prep.left) = Len(Full)
      /\ Len(created) \in Nat /\ Len(operations) \in Nat
  BY <1>2, WorkingFacts
<1>4. /\ operations' \in Seq(IngestionOperation)
      /\ Len(operations') = Len(operations) + 1
      /\ \A i \in 1 .. Len(operations) : operations'[i] = operations[i]
      /\ operations'[Len(operations) + 1] =
           [corpus |-> prep.corpus, items |-> items, key |-> key, status |-> status]
      /\ created' \in Seq(SUBSET Items)
      /\ Len(created') = Len(created)
      /\ Kept(operations, operations')
      /\ TargetInv'
  BY <1>1, <1>3, AcceptsKeeps
<1>5. /\ operations'[Len(operations) + 1].corpus = prep.corpus
      /\ operations'[Len(operations) + 1].items = items
      /\ operations'[Len(operations) + 1].status = status
  BY <1>4
<1>6. Types'
  BY <1>1, <1>2, <1>4 DEF Types
<1>7. Counts'
  BY <1>1, <1>2, <1>4 DEF Counts
<1>8. Asked'
  BY <1>3 DEF Asked, Modes
<1>9. Newest'
  BY <1>1, <1>2, <1>4 DEF Newest
<1>10. Progress'
  <2>1. Full' = Full /\ Done' = Done + n
    <3>1. Full' = Full
      BY DEF Full
    <3>2. Len(Full) - (Len(prep.left) - n) = (Len(Full) - Len(prep.left)) + n
      BY <1>3
    <3> QED
      BY <3>1, <3>2 DEF Done
  <2>2. \A k \in 1 .. Len(prep'.left) : prep'.left[k] = Full[Done' + k]
    <3> SUFFICES ASSUME NEW k \in 1 .. Len(prep'.left)
                 PROVE  prep'.left[k] = Full[Done' + k]
      OBVIOUS
    <3>1. n + k \in 1 .. Len(prep.left) /\ Done + (n + k) = (Done + n) + k
      <4>1. n \in Nat /\ k \in Nat /\ k <= Len(prep.left) - n /\ k >= 1 /\ n >= 1
        BY <1>3
      <4>2. Done \in Nat /\ Len(prep.left) \in Nat
        BY <1>3
      <4> QED
        BY <4>1, <4>2, Sums
    <3>2. prep.left[n + k] = Full[Done + (n + k)]
      BY <1>1, <1>2, <3>1 DEF Progress
    <3> QED
      BY <2>1, <3>1, <3>2
  <2>3. ASSUME NEW k \in 1 .. Done + n
        PROVE  Uploaded(Full[k], prep', operations')
    <3>1. CASE k <= Done
      <4>1. Uploaded(Full[k], prep, operations)
        BY <1>1, <1>2, <1>3, <3>1 DEF Progress
      <4>2. /\ Len(operations) \in Nat /\ Len(operations') \in Nat
            /\ Kept(operations, operations') /\ prep.step # "await"
        BY <1>2, <1>3, <1>4
      <4> QED
        BY <4>1, <4>2, UploadedStays
    <3>2. CASE k > Done
      <4>1. k - Done \in 1 .. n /\ Done + (k - Done) = k
        BY <1>3, <3>2
      <4>2. k - Done \in 1 .. Len(prep.left)
        BY <1>3, <4>1
      <4>3. prep.left[k - Done] = Full[k]
        BY <1>1, <1>2, <4>1, <4>2 DEF Progress
      <4>4. Full[k] \in items
        BY <4>1, <4>3
      <4>5. Len(operations) + 1 \in 1 .. Len(operations')
        BY <1>3, <1>4
      <4> QED
        BY <1>5, <4>4, <4>5 DEF Uploaded
    <3> QED
      BY <1>3, <3>1, <3>2
  <2>4. Len(prep'.left) <= Len(Full)
    BY <1>3
  <2> QED
    BY <2>1, <2>2, <2>3, <2>4 DEF Progress
<1>11. Awaiting'
  BY <1>3, <1>4, <1>5 DEF Awaiting
<1>12. DeliveryInv'
  BY <1>1, <1>2, <1>4, DeliveryStays
<1>13. RowInv'
  BY <1>1, <1>2, <1>4, RowsStay
<1>14. DocumentInv'
  BY <1>1, <1>2, <1>3, DocumentsGiven
<1> QED
  BY <1>4, <1>6, <1>7, <1>8, <1>9, <1>10, <1>11, <1>12, <1>13, <1>14 DEF CorpusInv

(* A document is handed over under its own key.                            *)
LEMMA NextDocument ==
  ASSUME CorpusInv, prep.step = "upload"
  PROVE  /\ {Head(prep.left)} \in SUBSET Items
         /\ {Head(prep.left)} = {prep.left[k] : k \in 1 .. 1}
         /\ 1 \in 1 .. Len(prep.left)
         /\ DocumentKey \in Keys
         /\ \A d \in {Head(prep.left)} \cap Documents : documents[d] = prep.corpus
<1>1. Types /\ Asked /\ DocumentInv
  BY DEF CorpusInv
<1>2. prep.left \in Seq(Items) /\ prep.left # <<>>
  BY <1>1, FieldTypes DEF Asked
<1>3. Len(prep.left) \in Nat \ {0} /\ Head(prep.left) = prep.left[1]
  BY <1>2, EmptySeq
<1>4. Head(prep.left) \in Items
  BY <1>2, HeadTailProperties
<1>5. DocumentKey \in Keys
  BY <1>4 DEF DocumentKey, Keys
<1>6. {prep.left[k] : k \in 1 .. 1} = {prep.left[1]}
  OBVIOUS
<1> QED
  BY <1>1, <1>3, <1>4, <1>5, <1>6 DEF DocumentInv

LEMMA UploadDocumentStays ==
  ASSUME CorpusInv, NEW status \in Statuses, UploadDocument(status)
  PROVE  CorpusInv'
<1> DEFINE left == Tail(prep.left)
           op == Len(operations) + 1
<1>1. Types /\ Asked
  BY DEF CorpusInv
<1>2. /\ prep.step = "upload"
      /\ Accepts({Head(prep.left)}, DocumentKey, status)
      /\ prep' = [prep EXCEPT !.step = "await", !.left = Tail(@), !.operation = op,
                              !.seen = status, !.polls = 0]
      /\ UNCHANGED <<lost, recordVars, outcomes>>
  BY DEF UploadDocument
<1>3. prep.left \in Seq(Items) /\ prep.left # <<>> /\ prep.mode = "DOCUMENTS"
  BY <1>1, <1>2, FieldTypes DEF Asked
<1>4. /\ left \in Seq(Items)
      /\ Len(left) = Len(prep.left) - 1
      /\ \A k \in 1 .. Len(left) : left[k] = prep.left[k + 1]
  BY <1>3, HeadTailProperties
<1>5. op \in Nat /\ 0 \in 0 .. PollBudget /\ "await" \in Steps /\ prep \in Preparation
  BY <1>1, FieldTypes, CorpusAssumption DEF Steps, Types
<1>6. prep' = [prep EXCEPT !.step = "await", !.left = left, !.operation = op,
                           !.seen = status, !.polls = 0]
  BY <1>2
<1> HIDE DEF left, op
<1>7. /\ prep' \in Preparation /\ prep'.step = "await" /\ prep'.benchmark = prep.benchmark
      /\ prep'.mode = prep.mode /\ prep'.corpus = prep.corpus /\ prep'.left = left
      /\ prep'.operation = op /\ prep'.seen = status
  BY <1>4, <1>5, <1>6 DEF Preparation
<1>8. \A k \in 1 .. Len(prep'.left) : prep'.left[k] = prep.left[1 + k]
  BY <1>4, <1>7
<1>9. prep'.operation = Len(operations) + 1 /\ Len(prep'.left) = Len(prep.left) - 1
  BY <1>4, <1>7 DEF op
<1>10. /\ prep.step \in {"upload", "batch"}
       /\ prep'.step = "await" /\ (prep.mode = "CHUNKS" => prep'.left = <<>>)
  BY <1>2, <1>3, <1>7
<1> QED
  BY <1>2, <1>7, <1>8, <1>9, <1>10, NextDocument, Handing

LEMMA UploadFailsStays ==
  ASSUME CorpusInv, NEW carriedOut \in BOOLEAN, UploadFails(carriedOut)
  PROVE  CorpusInv'
<1>1. prep.step = "upload" /\ prep.step \in Working /\ Fails /\ UNCHANGED <<lost, documents>>
  BY DEF UploadFails, Working
<1>2. CASE carriedOut /\ ~Conflict(DocumentKey)
  <2>1. Accepts({Head(prep.left)}, DocumentKey, "RUNNING")
    BY <1>2 DEF UploadFails
  <2> QED
    BY <1>1, <2>1, NextDocument, FailsHanding
<1>3. CASE ~(carriedOut /\ ~Conflict(DocumentKey))
  <2>1. UNCHANGED <<created, operations, lost, documents>>
    BY <1>3 DEF UploadFails, targetVars
  <2> QED
    BY <1>1, <2>1, FailsQuietly
<1> QED
  BY <1>2, <1>3

(* A batch is the beginning of what is left, and of chunks.                *)
LEMMA NextBatch ==
  ASSUME CorpusInv, prep.step = "batch"
  PROVE  /\ BatchSize \in 1 .. Len(prep.left)
         /\ Batch \in SUBSET Items
         /\ BatchKey \in Keys
         /\ Batch \cap Documents = {}
<1>1. Types /\ Asked
  BY DEF CorpusInv
<1>2. /\ prep.step \in Working /\ prep.mode = "CHUNKS" /\ prep.left # <<>>
      /\ prep.left \in Seq(Items) /\ prep.batch \in Nat
  BY <1>1, FieldTypes DEF Working, Asked
<1>3. Len(prep.left) \in Nat \ {0}
  BY <1>2, EmptySeq
<1>4. BatchSize \in 1 .. Len(prep.left)
  BY <1>3, CorpusAssumption DEF BatchSize
<1>5. \A k \in 1 .. Len(prep.left) : prep.left[k] \in Chunks
  BY <1>2, WorkingFacts
<1>6. \A k \in 1 .. BatchSize : prep.left[k] \in Chunks
  BY <1>3, <1>4, <1>5
<1>7. Batch \subseteq Chunks
  BY <1>6 DEF Batch
<1>8. BatchKey \in Keys
  BY <1>2, WorkingFacts DEF BatchKey, Keys
<1> QED
  BY <1>4, <1>7, <1>8, CorpusAssumption DEF Items

LEMMA UploadBatchStays ==
  ASSUME CorpusInv, NEW status \in Statuses, UploadBatch(status)
  PROVE  CorpusInv'
<1> DEFINE n == BatchSize
           left == SubSeq(prep.left, n + 1, Len(prep.left))
           op == Len(operations) + 1
           next == IF left = <<>> THEN "await" ELSE "batch"
           sent == prep.batch + 1
<1>1. Types /\ Asked
  BY DEF CorpusInv
<1>2. /\ prep.step = "batch" /\ Accepts(Batch, BatchKey, status)
      /\ UNCHANGED <<lost, recordVars, outcomes>>
      /\ prep' = [prep EXCEPT !.left = left, !.batch = sent, !.polls = 0, !.step = next,
                              !.operation = op, !.seen = status]
  BY DEF UploadBatch
<1>3. /\ prep.left \in Seq(Items) /\ prep.mode = "CHUNKS" /\ Len(prep.left) \in Nat
      /\ prep.batch \in Nat
  BY <1>1, <1>2, FieldTypes DEF Asked
<1>4. n \in 1 .. Len(prep.left)
  BY <1>2, NextBatch
<1>5. Batch = {prep.left[k] : k \in 1 .. n}
  BY DEF Batch
<1> HIDE DEF n
<1>6. /\ left \in Seq(Items)
      /\ Len(left) = Len(prep.left) - n
      /\ \A k \in 1 .. Len(left) : left[k] = prep.left[n + k]
  <2>1. n + 1 \in Int /\ Len(prep.left) \in Int
    BY <1>3, <1>4
  <2>2. \A k \in n + 1 .. Len(prep.left) : prep.left[k] \in Items
    BY <1>3, <1>4, ElementOfSeq
  <2>3. /\ left \in Seq(Items)
        /\ Len(left) = IF n + 1 <= Len(prep.left) THEN Len(prep.left) - (n + 1) + 1 ELSE 0
        /\ \A k \in 1 .. Len(prep.left) - (n + 1) + 1 : left[k] = prep.left[n + 1 + k - 1]
    BY <2>1, <2>2, SubSeqProperties
  <2> HIDE DEF left
  <2>4. Len(left) = Len(prep.left) - n
    BY <1>3, <1>4, <2>3
  <2>5. ASSUME NEW k \in 1 .. Len(left)
        PROVE  left[k] = prep.left[n + k]
    <3>1. k \in 1 .. Len(prep.left) - (n + 1) + 1 /\ n + 1 + k - 1 = n + k
      BY <1>3, <1>4, <2>4
    <3> QED
      BY <2>3, <3>1
  <2> QED
    BY <2>3, <2>4, <2>5
<1>7. op \in Nat /\ 0 \in 0 .. PollBudget /\ sent \in Nat /\ prep \in Preparation
  BY <1>1, <1>3, FieldTypes, CorpusAssumption DEF Types
<1>8. next \in Steps
  BY DEF Steps
<1>9. \/ next = "await" /\ left = <<>>
      \/ next = "batch" /\ left # <<>>
  OBVIOUS
<1> HIDE DEF left, op, next, sent
<1>10. /\ prep' \in Preparation /\ prep'.step = next /\ prep'.benchmark = prep.benchmark
       /\ prep'.mode = prep.mode /\ prep'.corpus = prep.corpus /\ prep'.left = left
       /\ prep'.operation = op /\ prep'.seen = status
  BY <1>2, <1>6, <1>7, <1>8 DEF Preparation
<1>11. /\ prep'.operation = Len(operations) + 1
       /\ Len(prep'.left) = Len(prep.left) - n
       /\ \A k \in 1 .. Len(prep'.left) : prep'.left[k] = prep.left[n + k]
  BY <1>6, <1>10 DEF op
<1>12. \/ prep'.step = "await" /\ (prep.mode = "CHUNKS" => prep'.left = <<>>)
       \/ prep'.step = "batch" /\ prep.mode = "CHUNKS" /\ prep'.left # <<>>
  BY <1>3, <1>9, <1>10
<1>13. /\ prep.step \in {"upload", "batch"} /\ Batch \in SUBSET Items /\ BatchKey \in Keys
       /\ \A d \in Batch \cap Documents : documents[d] = prep.corpus
  BY <1>2, NextBatch
<1> QED
  BY <1>2, <1>4, <1>5, <1>10, <1>11, <1>12, <1>13, Handing

LEMMA BatchFailsStays ==
  ASSUME CorpusInv, NEW carriedOut \in BOOLEAN, BatchFails(carriedOut)
  PROVE  CorpusInv'
<1>1. prep.step = "batch" /\ prep.step \in Working /\ Fails /\ UNCHANGED <<lost, documents>>
  BY DEF BatchFails, Working
<1>2. CASE carriedOut
  <2>1. Accepts(Batch, BatchKey, "RUNNING")
    BY <1>2 DEF BatchFails
  <2>2. /\ Batch \in SUBSET Items /\ BatchKey \in Keys
        /\ \A d \in Batch \cap Documents : documents[d] = prep.corpus
    BY <1>1, NextBatch
  <2> QED
    BY <1>1, <2>1, <2>2, FailsHanding
<1>3. CASE ~carriedOut
  <2>1. UNCHANGED <<created, operations, lost, documents>>
    BY <1>3 DEF BatchFails, targetVars
  <2> QED
    BY <1>1, <2>1, FailsQuietly
<1> QED
  BY <1>2, <1>3

-----------------------------------------------------------------------------
(* Waiting for an operation *)

LEMMA PollStays ==
  ASSUME CorpusInv, Poll
  PROVE  CorpusInv'
<1> DEFINE seen == operations[prep.operation].status
           polls == prep.polls + 1
<1>1. Types /\ Counts /\ Asked /\ Newest /\ Progress /\ Awaiting
  BY DEF CorpusInv
<1>2. /\ prep.step = "await" /\ prep.step \in Working /\ prep.seen = "RUNNING"
      /\ prep.polls < PollBudget
      /\ prep' = [prep EXCEPT !.seen = seen, !.polls = polls]
      /\ UNCHANGED <<targetVars, lost, recordVars, outcomes>>
      /\ UNCHANGED created /\ UNCHANGED operations /\ UNCHANGED outcomes
      /\ UNCHANGED lost /\ UNCHANGED corpora
  BY DEF Poll, Working, targetVars, recordVars
<1>3. /\ Len(operations) \in Nat /\ Len(operations) > 0
      /\ prep.operation = Len(operations)
      /\ operations[prep.operation].corpus = prep.corpus
  BY <1>1, <1>2, FieldTypes DEF Awaiting
<1>4. seen \in Statuses
  BY <1>1, <1>3, FieldTypes DEF IngestionOperation
<1>5. polls \in 0 .. PollBudget /\ prep \in Preparation
  BY <1>1, <1>2, FieldTypes, CorpusAssumption DEF Types
<1> HIDE DEF seen, polls
<1>6. /\ prep' \in Preparation /\ prep'.step = prep.step /\ prep'.benchmark = prep.benchmark
      /\ prep'.mode = prep.mode /\ prep'.corpus = prep.corpus /\ prep'.left = prep.left
      /\ prep'.operation = prep.operation /\ prep'.seen = seen
  BY <1>2, <1>4, <1>5 DEF Preparation
<1>7. Types' /\ TargetInv' /\ DeliveryInv' /\ RowInv' /\ DocumentInv'
  BY <1>2, <1>6, RestStays
<1>8. Counts' /\ Asked' /\ Newest'
  BY <1>1, <1>2, <1>6 DEF Counts, Asked, Full, Newest
<1>9. Progress'
  <2>1. Full' = Full /\ Done' = Done
    BY <1>6 DEF Full, Done
  <2>2. Kept(operations, operations')
    BY <1>2, <1>3 DEF Kept
  <2>3. prep'.step = "await" /\ Len(operations') \in Nat
    BY <1>2, <1>3, <1>6
  <2>4. \A k \in 1 .. Done : Uploaded(Full[k], prep, operations)
    BY <1>1, <1>2 DEF Progress
  <2>5. \A k \in 1 .. Done : Uploaded(Full[k], prep', operations')
    BY <1>3, <1>6, <2>2, <2>3, <2>4, UploadedStays
  <2> QED
    BY <1>1, <1>2, <1>6, <2>1, <2>5 DEF Progress
<1>10. Awaiting'
  BY <1>2, <1>3, <1>6 DEF Awaiting, seen
<1> QED
  BY <1>7, <1>8, <1>9, <1>10 DEF CorpusInv

(* A preparation ends well when the operation it awaits has: every other   *)
(* one has, or it brought chunks and was followed by that one.             *)
LEMMA SettleStays ==
  ASSUME CorpusInv, Settle
  PROVE  CorpusInv'
<1>1. /\ Types /\ Counts /\ Asked /\ Newest /\ Progress /\ Awaiting /\ TargetInv
      /\ DocumentInv
  BY DEF CorpusInv
<1>2. /\ prep.step = "await" /\ prep.step \in Working /\ prep.seen # "RUNNING"
      /\ UNCHANGED <<created, operations, lost, documents>>
      /\ UNCHANGED created /\ UNCHANGED operations /\ UNCHANGED lost /\ UNCHANGED documents
  BY DEF Settle, Working, targetVars
<1>3. /\ Len(operations) \in Nat /\ Len(operations) \in 1 .. Len(operations)
      /\ prep.operation = Len(operations)
      /\ operations[prep.operation].corpus = prep.corpus
      /\ operations[prep.operation].status = prep.seen
      /\ prep.seen \in Statuses
  BY <1>1, <1>2, FieldTypes DEF Awaiting
<1>4. Kept(operations, operations') /\ TargetInv'
  BY <1>1, <1>2, <1>3 DEF Kept, TargetInv
<1>5. CASE prep.seen = "FAILED"
  <2>1. Fails
    BY <1>5 DEF Settle
  <2> QED
    BY <1>2, <2>1, FailsQuietly
<1>6. CASE prep.seen # "FAILED" /\ prep.left # <<>>
  <2>1. prep' = [prep EXCEPT !.step = "record"] /\ UNCHANGED <<corpora, outcomes>>
    BY <1>6 DEF Settle
  <2>2. UNCHANGED <<targetVars, lost, recordVars, outcomes>>
    BY <1>2, <2>1 DEF targetVars, recordVars
  <2>3. /\ prep' \in Preparation /\ prep'.step = "record" /\ prep'.benchmark = prep.benchmark
        /\ prep'.mode = prep.mode /\ prep'.corpus = prep.corpus /\ prep'.left = prep.left
    BY <1>1, <2>1 DEF Preparation, Types, Steps
  <2>4. prep'.step \in Working /\ prep.mode = "DOCUMENTS" /\ prep.benchmark \in Benchmarks
    BY <1>1, <1>2, <1>6, <2>3 DEF Working, Asked
  <2>5. Types' /\ TargetInv' /\ DeliveryInv' /\ RowInv' /\ DocumentInv'
    BY <1>2, <2>2, <2>3, <2>4, RestStays
  <2>6. Counts' /\ Newest'
    BY <1>1, <1>2, <2>1, <2>3, <2>4 DEF Counts, Newest
  <2>7. Asked'
    BY <1>6, <2>3, <2>4 DEF Asked, Modes
  <2>8. Awaiting'
    BY <2>3 DEF Awaiting
  <2>9. Progress'
    <3>1. Full' = Full /\ Done' = Done
      BY <2>3 DEF Full, Done
    <3>2. operations'[prep.operation].status = "SUCCEEDED"
      BY <1>2, <1>3, <1>6 DEF Statuses
    <3>3. \A k \in 1 .. Done : Uploaded(Full[k], prep', operations')
      BY <1>1, <1>2, <1>3, <1>4, <2>3, <3>2, UploadedStays DEF Progress
    <3> QED
      BY <1>1, <1>2, <2>3, <3>1, <3>3 DEF Progress
  <2> QED
    BY <2>5, <2>6, <2>7, <2>8, <2>9 DEF CorpusInv
<1>7. CASE prep.seen # "FAILED" /\ prep.left = <<>>
  <2> DEFINE o == [status |-> "READY", corpus |-> prep.corpus,
                   mode |-> prep.mode, benchmark |-> prep.benchmark]
  <2>1. Ends("READY") /\ persist_corpus(prep.corpus, prep.mode, "READY")
    BY <1>7 DEF Settle, Prepared
  <2>2. Len(prep.left) = 0 /\ Done = Len(Full)
    BY <1>2, <1>7, WorkingFacts
  <2>3. operations[Len(operations)].status = "SUCCEEDED"
    BY <1>2, <1>3, <1>7 DEF Statuses
  <2>4. o.corpus = prep.corpus /\ o.mode = prep.mode
    OBVIOUS
  <2> HIDE DEF o
  <2>5. ASSUME NEW k \in 1 .. Len(Full)
        PROVE  Brought(Full[k], o, operations')
    <3>1. Uploaded(Full[k], prep, operations)
      BY <1>1, <1>2, <2>2 DEF Progress
    <3>2. PICK i \in 1 .. Len(operations) :
            /\ operations[i].corpus = prep.corpus
            /\ Full[k] \in operations[i].items
            /\ \/ operations[i].status = "SUCCEEDED"
               \/ prep.mode = "CHUNKS"
               \/ prep.step = "await" /\ i = prep.operation
      BY <3>1 DEF Uploaded
    <3>3. CASE i = Len(operations)
      BY <1>2, <2>3, <2>4, <3>2, <3>3 DEF Brought
    <3>4. CASE i # Len(operations) /\ operations[i].status = "SUCCEEDED"
      BY <1>2, <2>4, <3>2, <3>4 DEF Brought
    <3>5. CASE i # Len(operations) /\ prep.mode = "CHUNKS"
      <4>1. Len(operations) \in i + 1 .. Len(operations)
        BY <1>3, <3>5
      <4>2. operations[Len(operations)].corpus = prep.corpus
        BY <1>3
      <4> QED
        BY <1>2, <2>4, <3>2, <3>5, <4>1, <4>2 DEF Brought
    <3> QED
      BY <1>3, <3>2, <3>3, <3>4, <3>5
  <2>6. prep'.step = "idle"
    BY <2>1, IdleType DEF Ends
  <2>7. DocumentInv'
    BY <1>1, <1>2, <2>6 DEF DocumentInv
  <2>8. /\ prep.step # "idle" /\ prep.corpus \in CorpusIds /\ prep.corpus <= Len(created)
        /\ prep.corpus \notin lost
    BY <1>1, <1>2, WorkingFacts DEF Newest
  <2> QED
    BY <1>1, <1>2, <1>4, <2>1, <2>5, <2>7, <2>8, EndsRecorded DEF Types, o
<1> QED
  BY <1>5, <1>6, <1>7

LEMMA GivesUpStays ==
  ASSUME CorpusInv, TimesOut \/ PollFails
  PROVE  CorpusInv'
<1>1. /\ prep.step \in Working /\ Fails
      /\ UNCHANGED <<created, operations, lost, documents>>
  BY DEF TimesOut, PollFails, Working, targetVars
<1> QED
  BY <1>1, FailsQuietly

LEMMA FinishesStays ==
  ASSUME CorpusInv, NEW i \in 1 .. Len(operations), NEW status \in {"SUCCEEDED", "FAILED"},
         Finishes(i, status)
  PROVE  CorpusInv'
<1>1. /\ Types /\ Counts /\ Asked /\ Newest /\ Progress /\ Awaiting /\ TargetInv
      /\ DeliveryInv /\ RowInv /\ DocumentInv
  BY DEF CorpusInv
<1>2. /\ UNCHANGED prep /\ UNCHANGED lost /\ UNCHANGED corpora /\ UNCHANGED documents
      /\ UNCHANGED outcomes
  BY DEF Finishes, recordVars
<1>3. /\ operations' \in Seq(IngestionOperation)
      /\ Len(operations') = Len(operations)
      /\ created' \in Seq(SUBSET Items)
      /\ Len(created') = Len(created)
      /\ Kept(operations, operations')
      /\ \A j \in 1 .. Len(operations) :
           operations[j].status # "RUNNING" => operations'[j] = operations[j]
      /\ TargetInv'
      /\ Len(operations) \in Nat
  BY <1>1, FinishesKeeps, FieldTypes
<1>4. Types'
  BY <1>1, <1>2, <1>3 DEF Types
<1>5. Counts' /\ Asked' /\ Newest'
  BY <1>1, <1>2, <1>3 DEF Counts, Asked, Full, Newest
<1>6. Progress'
  <2>1. Full' = Full /\ Done' = Done
    BY <1>2 DEF Full, Done
  <2>2. prep.step \in Working =>
          \A k \in 1 .. Done : Uploaded(Full[k], prep', operations')
    BY <1>1, <1>2, <1>3, UploadedStays DEF Progress
  <2> QED
    BY <1>1, <1>2, <2>1, <2>2 DEF Progress
<1>7. Awaiting'
  <2> SUFFICES ASSUME prep.step = "await"
               PROVE  /\ Len(operations') > 0
                      /\ prep.operation = Len(operations')
                      /\ operations'[prep.operation].corpus = prep.corpus
                      /\ prep.seen # "RUNNING" => operations'[prep.operation].status = prep.seen
    BY <1>2 DEF Awaiting
  <2>1. prep.operation \in 1 .. Len(operations)
    BY <1>1, <1>3 DEF Awaiting
  <2> QED
    BY <1>1, <1>3, <2>1 DEF Awaiting, Kept
<1>8. DeliveryInv'
  BY <1>1, <1>2, <1>3, DeliveryStays
<1>9. RowInv'
  BY <1>1, <1>2, <1>3, RowsStay
<1>10. DocumentInv'
  BY <1>1, <1>2, <1>3, DocumentsStay
<1> QED
  BY <1>3, <1>4, <1>5, <1>6, <1>7, <1>8, <1>9, <1>10 DEF CorpusInv

-----------------------------------------------------------------------------
(* The specification *)

LEMMA PreparationStepStays ==
  ASSUME CorpusInv, PreparationStep
  PROVE  CorpusInv'
BY LearnCapabilitiesStays, CapabilitiesFailStays, CreateCorpusStays, CreateFailsStays,
   RecordDocumentStays, UploadDocumentStays, UploadFailsStays, UploadBatchStays,
   BatchFailsStays, SettleStays, PollStays, GivesUpStays
DEF PreparationStep

LEMMA CorpusInvStays ==
  ASSUME CorpusInv, [Next]_vars
  PROVE  CorpusInv'
<1>1. CASE UNCHANGED vars
  BY <1>1, OutsideStays DEF vars, corpusVars, targetVars, recordVars
<1>2. CASE SessionStep
  BY <1>2, OutsideStays DEF SessionStep
<1>3. CASE \E able \in Reports : TargetChanges(able) /\ UNCHANGED corpusVars
  BY <1>3, OutsideStays
<1>4. ASSUME NEW b \in Benchmarks, NEW m \in Modes, Prepare(b, m, None)
      PROVE  CorpusInv'
  BY <1>4, PrepareStays
<1>5. ASSUME NEW b \in Benchmarks, NEW id \in 0 .. Len(created), Prepare(b, "EXTERNAL", id)
      PROVE  CorpusInv'
  BY <1>5, PrepareStays, ModesDiffer
<1>6. ASSUME NEW i \in 1 .. Len(operations), NEW s \in {"SUCCEEDED", "FAILED"}, Finishes(i, s)
      PROVE  CorpusInv'
  BY <1>6, FinishesStays
<1> QED
  BY <1>1, <1>2, <1>3, <1>4, <1>5, <1>6, PreparationStepStays, GivesUpStays, CancelStays
  DEF Next

LEMMA InvariantHolds == Spec => []IInv
<1>1. ASSUME IInv, [Next]_vars
      PROVE  IInv'
  BY <1>1, SessionStays, CorpusInvStays DEF IInv
<1> QED
  BY <1>1, InitHolds, PTL DEF Spec

(* At every moment the rows of corpora tell how the last preparation that  *)
(* named them ended, a corpus whose creation was answered is recorded, and *)
(* a document the target was given is recorded under the corpus it was     *)
(* given for or a later one (CorpusPreparationService.prepare).            *)
THEOREM RecordsCorrect == Spec => []RecordsAreTrue
<1>1. ASSUME IInv
      PROVE  RecordsAreTrue
  <2>1. /\ SessionTypeOK /\ Types /\ Counts /\ Asked /\ TargetInv /\ RowInv /\ DocumentInv
    BY <1>1 DEF IInv, CorpusInv
  <2>2. TypeOK
    <3>1. /\ prep.step \in {"idle", "capabilities", "create", "record", "upload", "batch", "await"}
          /\ prep.benchmark \in Benchmarks \cup {None}
          /\ prep.mode \in Modes \cup {None}
          /\ prep.corpus \in CorpusIds \cup {None}
          /\ prep.left \in Seq(Items)
          /\ prep.seen \in {"RUNNING", "SUCCEEDED", "FAILED"}
          /\ prep.polls \in 0 .. PollBudget
      BY <2>1 DEF Types, Preparation, Steps, Statuses
    <3>2. \A i \in 1 .. Len(operations) :
            /\ operations[i].corpus \in 1 .. Len(created)
            /\ operations[i].items \subseteq Items
            /\ operations[i].status \in {"RUNNING", "SUCCEEDED", "FAILED"}
      BY <2>1, FieldTypes DEF TargetInv, IngestionOperation, Statuses
    <3>3. \A c \in CorpusIds : corpora[c] = None \/ corpora[c] \in Rows
      BY <2>1 DEF Types
    <3> QED
      BY <2>1, <3>1, <3>2, <3>3 DEF TypeOK, Types, Counts
  <2>3. RowsTellTheOutcome
    BY <2>1 DEF RowInv, OutcomeOf, Told, RowsTellTheOutcome
  <2>4. CorporaAreRecorded
    <3>1. ASSUME NEW c \in 1 .. Len(created)
          PROVE  IF c \in lost THEN corpora[c] = None \/ corpora[c].mode = "EXTERNAL"
                 ELSE corpora[c] # None
      <4>1. c \in CorpusIds
        BY <2>1, CorpusIdsBelow DEF Working
      <4> QED
        BY <2>1, <4>1 DEF RowInv, RowOf
    <3>2. \A c \in CorpusIds : corpora[c] # None =>
            c = prep.corpus \/ \E n \in 1 .. Len(outcomes) : outcomes[n].corpus = c
      BY <2>1 DEF RowInv, RowOf
    <3> QED
      BY <3>1, <3>2 DEF CorporaAreRecorded
  <2>5. DocumentsFollowTheirUpload
    BY <2>1 DEF DocumentInv, DocumentsFollowTheirUpload
  <2> QED
    BY <2>2, <2>3, <2>4, <2>5 DEF RecordsAreTrue
<1> QED
  BY <1>1, InvariantHolds, PTL

(* A corpus reported READY holds every document of the benchmark, and of   *)
(* its chunks those of every batch whose operation ended well: only the    *)
(* last batch is awaited (_prepare_documents, _prepare_chunks).            *)
THEOREM ReadyCorrect == Spec => []ReadyIsIngested
<1>1. ASSUME IInv
      PROVE  ReadyIsIngested
  <2>1. Types /\ TargetInv /\ DeliveryInv
    BY <1>1 DEF IInv, CorpusInv
  <2> SUFFICES ASSUME NEW n \in 1 .. Len(outcomes), outcomes[n].status = "READY",
                      NEW k \in 1 .. Len(Contents(outcomes[n].benchmark, outcomes[n].mode))
               PROVE  Contents(outcomes[n].benchmark, outcomes[n].mode)[k]
                        \in created[outcomes[n].corpus] \cup Unwatched(outcomes[n])
    BY DEF ReadyIsIngested
  <2> DEFINE o == outcomes[n]
             item == Contents(outcomes[n].benchmark, outcomes[n].mode)[k]
  <2>2. Brought(item, o, operations)
    BY <2>1 DEF DeliveryInv, Filled
  <2> HIDE DEF item, o
  <2>3. PICK i \in 1 .. Len(operations) :
          /\ operations[i].corpus = o.corpus
          /\ item \in operations[i].items
          /\ \/ operations[i].status = "SUCCEEDED"
             \/ /\ o.mode = "CHUNKS"
                /\ \E j \in i + 1 .. Len(operations) : operations[j].corpus = o.corpus
    BY <2>2 DEF Brought
  <2>4. CASE operations[i].status = "SUCCEEDED"
    <3>1. item \in created[o.corpus]
      BY <2>1, <2>3, <2>4 DEF TargetInv
    <3> QED
      BY <3>1 DEF item, o
  <2>5. CASE /\ o.mode = "CHUNKS"
             /\ \E j \in i + 1 .. Len(operations) : operations[j].corpus = o.corpus
    <3>1. i \in Earlier(o.corpus)
      BY <2>3, <2>5 DEF Earlier
    <3>2. item \in Unwatched(o)
      BY <2>3, <2>5, <3>1 DEF Unwatched
    <3> QED
      BY <3>2 DEF item, o
  <2> QED
    BY <2>3, <2>4, <2>5
<1> QED
  BY <1>1, InvariantHolds, PTL

-----------------------------------------------------------------------------
(* Adapters: the inductive invariant *)

(* The operations whose results are recorded, and the kinds of adapters    *)
(* that the factory makes.                                                 *)
Asking == Operations \ {"capabilities", "health", "aclose"}
Kinds == {"rag_eval_protocol", "generic_http", "openai_compatible", "python"}

(* The adapter was made of a configuration and its secrets.                *)
Opened ==
  Wrapped =>
    /\ config \in Configs
    /\ credentials \in Credentials
    /\ create_target_adapter(config, credentials) = "opened"

(* The last result is what the operation returns by the capabilities that  *)
(* are still known, unless they could not be asked for.                    *)
Answered ==
  last # None =>
    /\ Wrapped
    /\ last.op \in Asking
    /\ last.response \in Responses
    /\ Possible(last.op, last.response)
    /\ \/ /\ Caches(config) => cached # None
          /\ last.result = Result(config, last.op, last.response, Known)
       \/ /\ last.response.kind \notin {"body", "events"}
          /\ last.result = Result([config EXCEPT !.methods = Operations],
                                  last.op, last.response, Capabilities)

SessionInv == Opened /\ Answered

LEMMA OpenedKind ==
  ASSUME Opened, Wrapped
  PROVE  config \in Config /\ config.type \in Kinds
<1>1. config \in Config /\ create_target_adapter(config, credentials) = "opened"
  BY SessionAssumption DEF Opened
<1>2. config.type \in Registered
  BY <1>1 DEF create_target_adapter
<1> QED
  BY <1>1, <1>2 DEF Kinds, Registered, Network, Wrapped

(* What is known of the target outlives what the adapter learns of it.     *)
LEMMA KnownStays ==
  ASSUME SessionTypeOK, Opened, Wrapped, config' = config,
         \/ cached' = Learnt /\ (Caches(config) /\ cached = None => reported' = reported)
         \/ cached' = cached /\ (Caches(config) => cached # None)
  PROVE  /\ Known' = Known
         /\ cached' = Learnt => (Caches(config) => cached' # None)
<1>1. config.type \in Kinds
  BY OpenedKind
<1>2. None \notin Reports /\ cached \in Reports \cup {None} /\ reported \in Reports
  BY SessionAssumption DEF SessionTypeOK
<1>3. CASE Caches(config)
  <2>1. \A a : Advertised(config, a) = a
    BY <1>3 DEF Advertised, Caches
  <2>2. Caches(config)'
    BY <1>3 DEF Caches
  <2> QED
    BY <1>2, <1>3, <2>1, <2>2 DEF Known, Learnt, Advertised
<1>4. CASE ~Caches(config)
  <2>1. CASE config.type = "generic_http"
    BY <1>4, <2>1 DEF Known, Advertised
  <2>2. CASE config.type = "openai_compatible"
    BY <1>4, <2>2 DEF Known, Advertised
  <2> QED
    BY <1>1, <1>4, <2>1, <2>2 DEF Caches, Kinds
<1> QED
  BY <1>3, <1>4

(* What was asked stays answered while the adapter learns or keeps what it *)
(* knows of the target.                                                    *)
LEMMA AnsweredStays ==
  ASSUME SessionTypeOK, SessionInv, UNCHANGED <<config, credentials, made, last>>,
         \/ cached' = Learnt /\ reported' = reported
         \/ cached' = cached
  PROVE  SessionInv'
<1>1. Opened' /\ (Wrapped => Wrapped')
  BY DEF SessionInv, Opened, Wrapped
<1>2. SUFFICES ASSUME last # None
               PROVE  Answered'
  BY <1>1 DEF SessionInv, Answered
<1>3. Wrapped /\ Opened
  BY <1>2 DEF SessionInv, Answered
<1>4. CASE /\ Caches(config) => cached # None
           /\ last.result = Result(config, last.op, last.response, Known)
  <2>1. Known' = Known /\ (Caches(config) => cached' # None)
    BY <1>3, <1>4, KnownStays
  <2> QED
    BY <1>1, <1>2, <1>4, <2>1 DEF SessionInv, Answered, Possible
<1>5. CASE /\ last.response.kind \notin {"body", "events"}
           /\ last.result = Result([config EXCEPT !.methods = Operations],
                                   last.op, last.response, Capabilities)
  BY <1>1, <1>2, <1>5 DEF SessionInv, Answered, Possible
<1> QED
  BY <1>2, <1>4, <1>5 DEF SessionInv, Answered

LEMMA SessionInvKept ==
  ASSUME SessionTypeOK, SessionInv, [Next]_vars
  PROVE  SessionInv'
<1>1. CASE UNCHANGED sessionVars
  BY <1>1, AnsweredStays DEF sessionVars
<1>2. ASSUME NEW c \in Configs, NEW given \in Credentials, Make(c, given)
      PROVE  SessionInv'
  <2>1. last' = None
    BY <1>2 DEF Make, SessionInv, Answered, Wrapped
  <2>2. Opened'
    BY <1>2 DEF Make, Opened, Wrapped
  <2> QED
    BY <2>1, <2>2 DEF SessionInv, Answered
<1>3. CASE AskCapabilities \/ LearnCapabilities
  BY <1>3, AnsweredStays DEF AskCapabilities, LearnCapabilities
<1>4. ASSUME NEW able \in Reports, TargetChanges(able)
      PROVE  SessionInv'
  BY <1>4, AnsweredStays DEF TargetChanges
<1>5. ASSUME NEW op \in Asking, NEW r \in Responses, Ask(op, r)
      PROVE  SessionInv'
  <2>1. /\ Wrapped /\ Opened /\ Possible(op, r)
        /\ cached' = Learnt
        /\ UNCHANGED <<config, credentials, made, reported>>
        /\ last' = [op |-> op, response |-> r, result |-> Result(config, op, r, Known)]
    BY <1>5 DEF Ask, SessionInv
  <2>2. Known' = Known /\ (Caches(config) => cached' # None)
    BY <2>1, KnownStays
  <2>3. Opened' /\ Wrapped'
    BY <2>1 DEF Opened, Wrapped
  <2>4. /\ last'.op = op /\ last'.response = r
        /\ last'.result = Result(config, op, r, Known)
    BY <2>1
  <2> QED
    BY <1>5, <2>1, <2>2, <2>3, <2>4 DEF SessionInv, Answered, Possible
<1>6. ASSUME NEW op \in Asking, NEW r \in Responses, AskFails(op, r)
      PROVE  SessionInv'
  <2>1. /\ Wrapped /\ Opened /\ Possible(op, r) /\ r.kind \notin {"body", "events"}
        /\ UNCHANGED <<config, credentials, made, reported, cached>>
        /\ last' = [op |-> op, response |-> r,
                    result |-> Result([config EXCEPT !.methods = Operations], op, r, Capabilities)]
    BY <1>6 DEF AskFails, SessionInv
  <2>2. Opened' /\ Wrapped'
    BY <2>1 DEF Opened, Wrapped
  <2>3. /\ last'.op = op /\ last'.response = r
        /\ last'.result = Result([config EXCEPT !.methods = Operations], op, r, Capabilities)
    BY <2>1
  <2> QED
    BY <1>6, <2>1, <2>2, <2>3 DEF SessionInv, Answered, Possible
<1>7. CASE Next
  <2>1. CASE SessionStep
    BY <1>2, <1>3, <1>5, <1>6, <2>1 DEF SessionStep, Asking
  <2>2. CASE PreparationStep
    BY <1>1, <1>3, <2>2
    DEF PreparationStep, CapabilitiesFail, CreateCorpus, CreateFails, RecordDocument,
        UploadDocument, UploadFails, UploadBatch, BatchFails, Settle, Poll, TimesOut
  <2>3. CASE PollFails \/ Cancel
    BY <1>1, <2>3 DEF PollFails, Cancel
  <2>4. ASSUME NEW i, NEW s, Finishes(i, s)
        PROVE  UNCHANGED sessionVars
    BY <2>4 DEF Finishes
  <2>5. ASSUME NEW b, NEW m, NEW id, Prepare(b, m, id)
        PROVE  UNCHANGED sessionVars
    BY <2>5 DEF Prepare
  <2> QED
    BY <1>1, <1>4, <1>7, <2>1, <2>2, <2>3, <2>4, <2>5 DEF Next
<1> QED
  BY <1>1, <1>7 DEF vars, sessionVars

-----------------------------------------------------------------------------
(* Adapters: what a call returns *)

(* The last result was computed from the configuration, or from one that  *)
(* differs in its methods only.                                            *)
LEMMA Replied ==
  ASSUME SessionInv, last # None
  PROVE  \E c, advertised :
           /\ last.result = Result(c, last.op, last.response, advertised)
           /\ c.type = config.type /\ c.protocol = config.protocol /\ c.fields = config.fields
           /\ c.canonical = config.canonical /\ c.on = config.on
           /\ \/ c = config /\ advertised = Known
              \/ last.response.kind \notin {"body", "events"} /\ advertised = Capabilities
<1>1. config \in Config
  BY OpenedKind DEF SessionInv, Answered
<1>2. CASE last.result = Result(config, last.op, last.response, Known)
  BY <1>2
<1>3. CASE /\ last.response.kind \notin {"body", "events"}
           /\ last.result = Result([config EXCEPT !.methods = Operations],
                                   last.op, last.response, Capabilities)
  <2> DEFINE c == [config EXCEPT !.methods = Operations]
  <2>1. /\ c.type = config.type /\ c.protocol = config.protocol /\ c.fields = config.fields
        /\ c.canonical = config.canonical /\ c.on = config.on
    BY <1>1 DEF Config
  <2> HIDE DEF c
  <2>2. last.result = Result(c, last.op, last.response, Capabilities)
    BY <1>3 DEF c
  <2> QED
    BY <1>3, <2>1, <2>2
<1> QED
  BY <1>2, <1>3 DEF SessionInv, Answered

LEMMA RepliedTypes ==
  ASSUME SessionInv, last # None
  PROVE  /\ Wrapped /\ config \in Config /\ config.type \in Kinds
         /\ last.op \in Asking /\ last.response \in Responses /\ last.response \in Response
         /\ Possible(last.op, last.response)
BY OpenedKind, SessionAssumption DEF SessionInv, Answered

LEMMA ResultOf ==
  ASSUME NEW c, NEW op, NEW r, NEW advertised
  PROVE  /\ c.type = "rag_eval_protocol" =>
              Result(c, op, r, advertised) = HttpResult(op, r, advertised)
         /\ c.type = "generic_http" =>
              Result(c, op, r, advertised) = GenericResult(c, op, r)
         /\ c.type = "openai_compatible" =>
              Result(c, op, r, advertised) = OpenAIResult(op, r)
         /\ c.type = "python" =>
              Result(c, op, r, advertised) = PythonResult(c, op, r, advertised)
BY DEF Result

LEMMA Returns ==
  ASSUME NEW observed
  PROVE  /\ Returned(observed).error = None
         /\ Returned(observed).returned = TRUE
         /\ Returned(observed).observed = observed
BY DEF Returned

Refused(result) == result.error # None /\ result.error.category = "UNSUPPORTED_CAPABILITY"

LEMMA Refusals ==
  /\ \A category, retryable, status, after :
       Refused(TargetAdapterError(category, retryable, status, after)) =>
         category = "UNSUPPORTED_CAPABILITY"
  /\ \A observed : ~Refused(Returned(observed))
  /\ ~Refused(TargetProtocolError) /\ ~Refused(Unwrapped)
<1>1. ASSUME NEW category, NEW retryable, NEW status, NEW after,
             Refused(TargetAdapterError(category, retryable, status, after))
      PROVE  category = "UNSUPPORTED_CAPABILITY"
  BY <1>1 DEF Refused, TargetAdapterError, Raised
<1>2. ASSUME NEW observed PROVE ~Refused(Returned(observed))
  BY Returns DEF Refused
<1>3. ~Refused(TargetProtocolError) /\ ~Refused(Unwrapped)
  BY <1>1 DEF TargetProtocolError, Unwrapped, Raised, Refused
<1> QED
  BY <1>1, <1>2, <1>3

(* What an adapter calls unsupported.                                      *)
LEMMA HttpRefuses ==
  ASSUME NEW op \in Asking, NEW r \in Response, NEW advertised,
         r.kind # "raises", Refused(HttpResult(op, r, advertised))
  PROVE  \/ Needs(op) \cap advertised = {}
         \/ r.own # None /\ r.own.category = "UNSUPPORTED_CAPABILITY"
<1>1. ASSUME Needs(op) \cap advertised # {}, IsFault(r)
      PROVE  FALSE
  <2>1. HttpResult(op, r, advertised) = _network_error(r.kind)
    BY <1>1 DEF HttpResult, _require_capability
  <2>2. FaultCategory(r.kind) # "UNSUPPORTED_CAPABILITY"
    BY <1>1 DEF FaultCategory, IsFault
  <2> QED
    BY <2>1, <2>2, Refusals DEF _network_error
<1>2. ASSUME Needs(op) \cap advertised # {}, r.kind = "status", r.own = None
      PROVE  FALSE
  <2>1. HttpResult(op, r, advertised)
          = TargetAdapterError(_STATUS_CATEGORIES(r.status), Transient(r.status), r.status, r.after)
    BY <1>2 DEF HttpResult, _require_capability, _raise_http_error, IsFault
  <2>2. _STATUS_CATEGORIES(r.status) # "UNSUPPORTED_CAPABILITY"
    BY DEF _STATUS_CATEGORIES
  <2> QED
    BY <2>1, <2>2, Refusals
<1>3. ASSUME Needs(op) \cap advertised # {}, r.kind = "status", r.own # None
      PROVE  r.own.category = "UNSUPPORTED_CAPABILITY"
  <2>1. HttpResult(op, r, advertised)
          = TargetAdapterError(r.own.category, r.own.retryable, r.status,
              IF r.own.after \notin {None, 0} THEN r.own.after ELSE r.after)
    BY <1>3 DEF HttpResult, _require_capability, _raise_http_error, IsFault
  <2> QED
    BY <2>1, Refusals
<1>4. ASSUME Needs(op) \cap advertised # {}, r.kind \in {"body", "events"}
      PROVE  FALSE
  <2>1. HttpResult(op, r, advertised) \in {TargetProtocolError, Returned({}), Returned(Fields)}
    BY <1>4 DEF HttpResult, _require_capability, IsFault
  <2> QED
    BY <2>1, Refusals
<1>5. r.kind \in {"timeout", "connect", "transport", "status", "body", "events"}
  BY DEF Response
<1> QED
  BY <1>1, <1>2, <1>3, <1>4, <1>5 DEF IsFault

LEMMA PythonRefuses ==
  ASSUME NEW c, NEW op \in Asking, NEW r \in Response, NEW advertised,
         Refused(PythonResult(c, op, r, advertised))
  PROVE  \/ Needs(op) \cap advertised = {}
         \/ r.own # None /\ r.own.category = "UNSUPPORTED_CAPABILITY"
<1> SUFFICES ASSUME Needs(op) \cap advertised # {}
             PROVE  r.own # None /\ r.own.category = "UNSUPPORTED_CAPABILITY"
  OBVIOUS
<1>1. \/ PythonResult(c, op, r, advertised)
           \in {TargetProtocolError, Returned({}), Returned(Fields),
                TargetAdapterError("INTERNAL", FALSE, None, None)}
      \/ /\ r.own # None
         /\ PythonResult(c, op, r, advertised)
              = TargetAdapterError(r.own.category, r.own.retryable, r.status, r.own.after)
  BY DEF PythonResult, _require_capability
<1> QED
  BY <1>1, Refusals

LEMMA GenericRefuses ==
  ASSUME NEW c, NEW op \in Asking, NEW r \in Response, Refused(GenericResult(c, op, r))
  PROVE  op \in GenericUnsupported \/ op \notin c.protocol
<1> SUFFICES ASSUME op \notin GenericUnsupported, op \in c.protocol
             PROVE  FALSE
  OBVIOUS
<1>1. CASE IsFault(r)
  <2>1. GenericResult(c, op, r) = FlaggedFault(r.kind)
    BY <1>1 DEF GenericResult
  <2>2. FaultCategory(r.kind) # "UNSUPPORTED_CAPABILITY"
    BY <1>1 DEF FaultCategory, IsFault
  <2> QED
    BY <2>1, <2>2, Refusals DEF FlaggedFault
<1>2. CASE r.kind = "status"
  <2>1. GenericResult(c, op, r)
          = TargetAdapterError(GenericStatus(r.status), Transient(r.status), r.status, None)
    BY <1>2 DEF GenericResult, IsFault
  <2>2. GenericStatus(r.status) # "UNSUPPORTED_CAPABILITY"
    BY DEF GenericStatus, OpenAIStatus
  <2> QED
    BY <2>1, <2>2, Refusals
<1>3. CASE ~IsFault(r) /\ r.kind # "status"
  <2>1. GenericResult(c, op, r) \in {TargetProtocolError, GenericQuery(c, r), GenericRetrieve(c, r)}
    BY <1>3 DEF GenericResult
  <2>2. /\ \/ GenericQuery(c, r) \in {TargetProtocolError, Unwrapped}
           \/ \E observed : GenericQuery(c, r) = Returned(observed)
        /\ \/ GenericRetrieve(c, r) \in {TargetProtocolError, Unwrapped}
           \/ \E observed : GenericRetrieve(c, r) = Returned(observed)
    BY DEF GenericQuery, GenericRetrieve
  <2> QED
    BY <2>1, <2>2, Refusals
<1> QED
  BY <1>1, <1>2, <1>3

LEMMA OpenAIRefuses ==
  ASSUME NEW op \in Asking, NEW r \in Response, Refused(OpenAIResult(op, r))
  PROVE  op \in OpenAIUnsupported
<1> SUFFICES ASSUME op \notin OpenAIUnsupported
             PROVE  FALSE
  OBVIOUS
<1>1. CASE IsFault(r)
  <2>1. OpenAIResult(op, r) = FlaggedFault(r.kind)
    BY <1>1 DEF OpenAIResult
  <2>2. FaultCategory(r.kind) # "UNSUPPORTED_CAPABILITY"
    BY <1>1 DEF FaultCategory, IsFault
  <2> QED
    BY <2>1, <2>2, Refusals DEF FlaggedFault
<1>2. CASE r.kind = "status"
  <2>1. OpenAIResult(op, r)
          = TargetAdapterError(OpenAIStatus(r.status), Transient(r.status), r.status, None)
    BY <1>2 DEF OpenAIResult, IsFault
  <2>2. OpenAIStatus(r.status) # "UNSUPPORTED_CAPABILITY"
    BY DEF OpenAIStatus
  <2> QED
    BY <2>1, <2>2, Refusals
<1>3. CASE ~IsFault(r) /\ r.kind # "status"
  <2>1. \/ OpenAIResult(op, r) = TargetProtocolError
        \/ \E observed : OpenAIResult(op, r) = Returned(observed)
    BY <1>3 DEF OpenAIResult, _extract_answer
  <2> QED
    BY <2>1, Refusals
<1> QED
  BY <1>1, <1>2, <1>3

(* What the capabilities that the configuration implies leave out.         *)
LEMMA Implied ==
  ASSUME NEW c \in Config, c.on = {}, NEW op \in Asking
  PROVE  /\ op \in GenericUnsupported \/ op \notin c.protocol =>
              Needs(op) \cap GenericCapabilities(c) = {}
         /\ op \in OpenAIUnsupported => Needs(op) \cap OpenAICapabilities(c) = {}
<1>1. /\ GenericCapabilities(c) \subseteq {"query", "retrieval", "answer", "decision"} \cup Lists
      /\ "query" \notin c.protocol => "query" \notin GenericCapabilities(c)
      /\ "retrieve" \notin c.protocol => "retrieval" \notin GenericCapabilities(c)
      /\ OpenAICapabilities(c) \subseteq {"query", "answer"}
  BY DEF GenericCapabilities, OpenAICapabilities, Configured, Lists
<1>2. op \in OpenAIUnsupported \cup {"query"}
  BY DEF Asking, Operations, OpenAIUnsupported, GenericUnsupported
<1>3. CASE op \in {"create_corpus", "get_corpus", "delete_corpus", "get_operation"}
  <2>1. Needs(op) = {"document_ingestion", "chunk_ingestion"}
    BY <1>3 DEF Needs
  <2> QED
    BY <1>1, <2>1 DEF Lists
<1>4. CASE op \in {"upload_document", "upload_chunks", "stream_query", "recover_request"}
  <2>1. Needs(op) \subseteq
          {"document_ingestion", "chunk_ingestion", "streaming", "request_recovery"}
    BY <1>4 DEF Needs
  <2> QED
    BY <1>1, <2>1 DEF Lists
<1>5. CASE op = "retrieve"
  <2>1. Needs(op) = {"retrieval"}
    BY <1>5 DEF Needs
  <2> QED
    BY <1>1, <1>5, <2>1 DEF GenericUnsupported
<1>6. CASE op = "query"
  <2>1. Needs(op) = {"query"}
    BY <1>6 DEF Needs
  <2> QED
    BY <1>1, <1>6, <2>1 DEF GenericUnsupported, OpenAIUnsupported
<1> QED
  BY <1>2, <1>3, <1>4, <1>5, <1>6 DEF GenericUnsupported, OpenAIUnsupported

LEMMA NeedsMet ==
  ASSUME NEW op \in Asking
  PROVE  Needs(op) \cap Capabilities # {}
BY DEF Needs, Asking, Operations, Capabilities

LEMMA UnsupportedHolds ==
  ASSUME SessionInv
  PROVE  UnsupportedIsUnadvertised
<1> SUFFICES ASSUME Failed, Error.category = "UNSUPPORTED_CAPABILITY", config.on = {},
                    ~ (/\ last.response.own # None
                       /\ last.response.own.category = "UNSUPPORTED_CAPABILITY")
             PROVE  Needs(last.op) \cap Known = {}
  BY DEF UnsupportedIsUnadvertised
<1> DEFINE op == last.op
           r == last.response
<1>1. last # None /\ Refused(last.result)
  BY DEF Failed, Error, Refused
<1>2. PICK c, advertised :
        /\ last.result = Result(c, op, r, advertised)
        /\ c.type = config.type /\ c.protocol = config.protocol /\ c.on = config.on
        /\ \/ c = config /\ advertised = Known
           \/ r.kind \notin {"body", "events"} /\ advertised = Capabilities
  BY <1>1, Replied
<1>3. /\ config \in Config /\ config.type \in Kinds
      /\ op \in Asking /\ r \in Response /\ Possible(op, r)
  BY <1>1, RepliedTypes
<1> HIDE DEF op, r
<1>4. CASE config.type = "rag_eval_protocol"
  <2>1. r.kind # "raises"
    BY <1>3, <1>4 DEF Possible
  <2>2. Needs(op) \cap advertised = {}
    BY <1>1, <1>2, <1>3, <1>4, <2>1, HttpRefuses, ResultOf DEF r
  <2> QED
    BY <1>2, <1>3, <2>2, NeedsMet DEF op
<1>5. CASE config.type = "python"
  <2>1. Needs(op) \cap advertised = {}
    BY <1>1, <1>2, <1>3, <1>5, PythonRefuses, ResultOf DEF r
  <2> QED
    BY <1>2, <1>3, <2>1, NeedsMet DEF op
<1>6. CASE config.type = "generic_http"
  <2>1. op \in GenericUnsupported \/ op \notin config.protocol
    BY <1>1, <1>2, <1>3, <1>6, GenericRefuses, ResultOf
  <2>2. Known = GenericCapabilities(config)
    BY <1>6 DEF Known, Advertised
  <2> QED
    BY <1>3, <2>1, <2>2, Implied DEF op
<1>7. CASE config.type = "openai_compatible"
  <2>1. op \in OpenAIUnsupported
    BY <1>1, <1>2, <1>3, <1>7, OpenAIRefuses, ResultOf
  <2>2. Known = OpenAICapabilities(config)
    BY <1>7 DEF Known, Advertised
  <2> QED
    BY <1>3, <2>1, <2>2, Implied DEF op
<1> QED
  BY <1>3, <1>4, <1>5, <1>6, <1>7 DEF Kinds

LEMMA GoodFields ==
  ASSUME NEW r \in Response, r.field = None, NEW fields \in SUBSET Fields
  PROVE  \A f \in fields : Mapped(f, ValueAt(r, f)) = "value"
<1>1. ASSUME NEW f \in fields PROVE Mapped(f, ValueAt(r, f)) = "value"
  <2>1. r.field # f
    BY SessionAssumption
  <2>2. ValueAt(r, f) = "good"
    BY <2>1 DEF ValueAt
  <2> QED
    BY <2>2 DEF Mapped
<1> QED
  BY <1>1

(* The fields that a good answer to a query brings.                        *)
LEMMA GoodAnswer ==
  ASSUME NEW c \in Config, c.type \in Kinds, NEW r \in Response, NEW advertised,
         r.kind = "body", r.body = "valid", r.field = None, r.own = None,
         "query" \in advertised, c.type = "python" => "query" \in c.methods,
         c.type = "generic_http" => "query" \in c.protocol /\ "answer" \in c.fields
  PROVE  \/ /\ c.type # "openai_compatible"
            /\ Result(c, "query", r, advertised) = Returned(Fields)
         \/ /\ c.type = "generic_http"
            /\ Result(c, "query", r, advertised) = Returned(c.fields)
         \/ /\ c.type = "openai_compatible"
            /\ \E observed : /\ "answer" \in observed
                             /\ Result(c, "query", r, advertised) = Returned(observed)
<1>1. Needs("query") = {"query"}
  BY DEF Needs
<1>2. _require_capability("query", advertised) /\ ~IsFault(r)
  BY <1>1 DEF _require_capability, IsFault
<1>3. CASE c.type = "rag_eval_protocol"
  BY <1>2, <1>3, ResultOf DEF HttpResult
<1>4. CASE c.type = "python"
  <2>1. PythonResult(c, "query", r, advertised) = Returned(Fields)
    BY <1>2, <1>4 DEF PythonResult
  <2> QED
    BY <1>4, <2>1, ResultOf
<1>5. CASE c.type = "generic_http"
  <2>1. Result(c, "query", r, advertised) = GenericQuery(c, r)
    BY <1>2, <1>5, ResultOf DEF GenericResult, GenericUnsupported
  <2>2. CASE c.canonical
    BY <1>5, <2>1, <2>2 DEF GenericQuery
  <2>3. CASE ~c.canonical
    <3>1. c.fields \in SUBSET Fields
      BY DEF Config
    <3>2. \A f \in c.fields : Mapped(f, ValueAt(r, f)) = "value"
      BY <3>1, GoodFields
    <3>3. {f \in c.fields : Mapped(f, ValueAt(r, f)) = "value"} = c.fields
      BY <3>2
    <3>4. GenericQuery(c, r) = Returned(c.fields)
      BY <1>5, <2>3, <3>2, <3>3 DEF GenericQuery
    <3> QED
      BY <1>5, <2>1, <3>4
  <2> QED
    BY <2>2, <2>3
<1>6. CASE c.type = "openai_compatible"
  <2>1. Result(c, "query", r, advertised) = _extract_answer(r)
    BY <1>2, <1>6, ResultOf DEF OpenAIResult, OpenAIUnsupported, GenericUnsupported
  <2>2. r.field # "answer"
    BY SessionAssumption DEF Fields
  <2>3. _extract_answer(r) = Returned({"answer"} \cup {f \in {"usage"} : ValueAt(r, f) = "good"})
    BY <2>2 DEF _extract_answer
  <2> QED
    BY <1>6, <2>1, <2>3
<1> QED
  BY <1>3, <1>4, <1>5, <1>6 DEF Kinds

LEMMA DeliveredHolds ==
  ASSUME SessionInv
  PROVE  AdvertisedIsDelivered
<1> SUFFICES ASSUME last # None, last.op = "query", last.response.kind = "body",
                    last.response.body = "valid", last.response.field = None,
                    {"query", "answer"} \subseteq Known, config.on = {}
             PROVE  /\ last.result.returned
                    /\ Known \cap (Fields \ {"retrieval"}) \subseteq last.result.observed
  BY DEF AdvertisedIsDelivered
<1> DEFINE r == last.response
<1>1. /\ Wrapped /\ config \in Config /\ config.type \in Kinds
      /\ r \in Responses /\ r \in Response
  BY RepliedTypes
<1>2. last.result = Result(config, "query", r, Known)
  BY Replied
<1>3. r.own = None
  BY <1>1, SessionAssumption
<1>4. ASSUME config.type = "python" PROVE "query" \in config.methods
  <2>1. create_target_adapter(config, credentials) = "opened"
    BY <1>1 DEF SessionInv, Opened
  <2>2. load_python_target(config) = "opened"
    BY <1>4, <2>1 DEF create_target_adapter
  <2> QED
    BY <2>2 DEF load_python_target, _validate_core_operations
<1>5. ASSUME config.type = "generic_http"
      PROVE  /\ "query" \in config.protocol /\ "answer" \in config.fields
             /\ Known \cap (Fields \ {"retrieval"}) \subseteq config.fields
  <2>1. Known = GenericCapabilities(config)
    BY <1>5 DEF Known, Advertised
  <2>2. /\ "query" \in config.protocol /\ "answer" \in config.fields
    BY <2>1 DEF GenericCapabilities, Configured, Lists
  <2>3. "query" \notin Fields
    BY DEF Fields, Models, Lists, Scalars, Mappings
  <2>4. \A f \in Known : f \in {"query", "retrieval"} \cup config.fields
    BY <2>1 DEF GenericCapabilities, Configured
  <2> QED
    BY <2>2, <2>3, <2>4
<1>6. ASSUME config.type = "openai_compatible"
      PROVE  Known \cap Fields \subseteq {"answer"}
  <2>1. Known = OpenAICapabilities(config)
    BY <1>6 DEF Known, Advertised
  <2> QED
    BY <2>1 DEF OpenAICapabilities, Configured, Fields, Models, Lists, Scalars, Mappings
<1> HIDE DEF r
<1>7. r.kind = "body" /\ r.body = "valid" /\ r.field = None
  BY DEF r
<1>8. \/ /\ config.type # "openai_compatible" /\ last.result = Returned(Fields)
      \/ /\ config.type = "generic_http" /\ last.result = Returned(config.fields)
      \/ /\ config.type = "openai_compatible"
         /\ \E observed : "answer" \in observed /\ last.result = Returned(observed)
  BY <1>1, <1>2, <1>3, <1>4, <1>5, <1>7, GoodAnswer
<1>9. \A observed : Returned(observed).returned /\ Returned(observed).observed = observed
  BY Returns
<1>10. CASE config.type # "openai_compatible" /\ last.result = Returned(Fields)
  BY <1>9, <1>10
<1>11. CASE config.type = "generic_http" /\ last.result = Returned(config.fields)
  BY <1>5, <1>9, <1>11
<1>12. ASSUME config.type = "openai_compatible",
              NEW observed, "answer" \in observed, last.result = Returned(observed)
       PROVE  /\ last.result.returned
              /\ Known \cap (Fields \ {"retrieval"}) \subseteq last.result.observed
  BY <1>6, <1>9, <1>12
<1> QED
  BY <1>8, <1>10, <1>11, <1>12

LEMMA SecretsHold ==
  ASSUME SessionInv
  PROVE  SecretsAreSent
<1> SUFFICES ASSUME made = "opened", config.type \in Network
             PROVE  /\ config.bearer_token => "bearer_token" \in Sends(credentials)
                    /\ config.secret_header => "header" \in Sends(credentials)
                    /\ config.api_key => Token(credentials) # {}
  BY DEF SecretsAreSent
<1>1. create_target_adapter(config, credentials) = "opened"
  BY DEF SessionInv, Opened, Wrapped, Network
<1>2. _validate_required_credentials(config, credentials)
  BY <1>1 DEF create_target_adapter
<1>3. CASE credentials.bearer_token
  <2>1. Token(credentials) = {"bearer_token"}
    BY <1>3 DEF Token
  <2> QED
    BY <1>2, <2>1 DEF Sends, _validate_required_credentials
<1>4. CASE ~credentials.bearer_token
  BY <1>2, <1>4 DEF Sends, Token, _validate_required_credentials
<1> QED
  BY <1>3, <1>4

(* Induction over the naturals, by the least counterexample.               *)
LEMMA LeastNatural ==
  ASSUME NEW T \in SUBSET Nat, T # {}
  PROVE  \E m \in T : \A k \in T : m <= k
<1> DEFINE R == {ss \in Nat \X Nat : ss[1] < ss[2]}
<1>1. IsWellFoundedOn(R, Nat)
  BY NatLessThanWellFounded, Zenon DEF OpToRel
<1> HIDE DEF R
<1>2. PICK m \in T : \A k \in T : <<k, m>> \notin R
  BY <1>1, WFMin
<1>3. ASSUME NEW k \in T PROVE m <= k
  <2>1. ~(k < m)
    BY <1>2 DEF R
  <2> QED
    BY <2>1
<1> QED
  BY <1>3

Untouched == [yielded |-> <<>>, broken |-> FALSE]

Reading(f, events, k) ==
  f = [n \in 0 .. k |-> IF n = 0 THEN Untouched ELSE Receives(f[n - 1], events[n])]

(* The loop of a stream is defined for every number of events.             *)
LEMMA ReadingExists ==
  ASSUME NEW events, NEW k \in Nat
  PROVE  \E f : Reading(f, events, k)
<1> DEFINE T == {n \in Nat : ~ \E f : Reading(f, events, n)}
<1>1. ASSUME T # {} PROVE FALSE
  <2>1. PICK m \in T : \A n \in T : m <= n
    BY <1>1, LeastNatural
  <2>2. CASE m = 0
    <3>1. Reading([n \in 0 .. 0 |-> Untouched], events, 0)
      BY DEF Reading
    <3> QED
      BY <2>2, <3>1
  <2>3. CASE m # 0
    <3>1. m - 1 \in Nat /\ m - 1 \notin T
      BY <2>1, <2>3
    <3>2. PICK g : Reading(g, events, m - 1)
      BY <3>1
    <3> DEFINE h == [n \in 0 .. m |-> IF n = m THEN Receives(g[m - 1], events[m]) ELSE g[n]]
    <3>3. ASSUME NEW n \in 0 .. m
          PROVE  h[n] = IF n = 0 THEN Untouched ELSE Receives(h[n - 1], events[n])
      <4>1. CASE n = m
        BY <2>3, <4>1
      <4>2. CASE n # m
        <5>1. n \in 0 .. m - 1
          BY <4>2
        <5>2. g[n] = IF n = 0 THEN Untouched ELSE Receives(g[n - 1], events[n])
          BY <3>2, <5>1 DEF Reading
        <5> QED
          BY <4>2, <5>1, <5>2
      <4> QED
        BY <4>1, <4>2
    <3>4. Reading(h, events, m)
      BY <3>3 DEF Reading
    <3> QED
      BY <3>4
  <2> QED
    BY <2>2, <2>3
<1> QED
  BY <1>1

Rising(s, n) == \A i, j \in 1 .. n : i < j => s[i] < s[j]

(* The events up to m, of which no two are out of order.                   *)
Prefix(so, events, m) ==
  /\ so.yielded = [i \in 1 .. m |-> events[i]]
  /\ Rising(events, m)

(* What the loop has yielded when it has received n of the events.         *)
ReadTo(so, events, n) ==
  /\ so \in [yielded : Seq(Nat), broken : BOOLEAN]
  /\ ~so.broken => Prefix(so, events, n)
  /\ so.broken => \E m \in 1 .. n - 1 : Prefix(so, events, m) /\ events[m + 1] <= events[m]

LEMMA PrefixIsSeq ==
  ASSUME NEW events \in Seq(Nat), NEW m \in 0 .. Len(events)
  PROVE  /\ [i \in 1 .. m |-> events[i]] \in Seq(Nat)
         /\ Len([i \in 1 .. m |-> events[i]]) = m
<1> DEFINE s == [i \in 1 .. m |-> events[i]]
<1>1. \A i \in 1 .. m : events[i] \in Nat
  BY LenProperties, ElementOfSeq
<1>2. s \in [1 .. m -> Nat]
  BY <1>1
<1>3. s \in Seq(Nat)
  BY <1>2, IsASeq
<1>4. Len(s) \in Nat /\ DOMAIN s = 1 .. Len(s)
  BY <1>3, LenProperties
<1> QED
  BY <1>3, <1>4

LEMMA Receive ==
  ASSUME NEW events \in Seq(Nat), NEW n \in 1 .. Len(events),
         NEW so, ReadTo(so, events, n - 1)
  PROVE  ReadTo(Receives(so, events[n]), events, n)
<1>1. /\ so \in [yielded : Seq(Nat), broken : BOOLEAN]
      /\ Len(events) \in Nat
      /\ \A i \in 1 .. Len(events) : events[i] \in Nat
  BY LenProperties, ElementOfSeq DEF ReadTo
<1>2. CASE so.broken
  <2>1. Receives(so, events[n]) = so
    BY <1>1, <1>2 DEF Receives
  <2> QED
    BY <1>2, <2>1 DEF ReadTo
<1>3. CASE ~so.broken
  <2>1. Prefix(so, events, n - 1)
    BY <1>3 DEF ReadTo
  <2>2. /\ Len(so.yielded) = n - 1
        /\ \A i \in 1 .. n - 1 : so.yielded[i] = events[i]
    BY <1>1, <2>1, PrefixIsSeq DEF Prefix
  <2>3. so.yielded = <<>> <=> n = 1
    BY <1>1, <2>2, EmptySeq
  <2>4. CASE Follows(so.yielded, events[n])
    <3>1. n > 1 => events[n - 1] < events[n]
      BY <1>1, <2>2, <2>3, <2>4 DEF Follows
    <3>2. Receives(so, events[n]) = [so EXCEPT !.yielded = Append(so.yielded, events[n])]
      BY <1>3, <2>4 DEF Receives
    <3> DEFINE new == Append(so.yielded, events[n])
    <3>3. new \in Seq(Nat)
      BY <1>1, AppendProperties
    <3>4. new = [i \in 1 .. n |-> events[i]]
      <4>1. /\ Len(new) = n
            /\ \A i \in 1 .. n : new[i] = events[i]
        BY <1>1, <2>2, AppendProperties
      <4>2. DOMAIN new = 1 .. n
        BY <3>3, <4>1, LenProperties
      <4>3. new \in [1 .. n -> Nat]
        BY <3>3, <4>1, LenProperties
      <4> HIDE DEF new
      <4> QED
        BY <4>1, <4>3
    <3> HIDE DEF new
    <3>5. Rising(events, n)
      <4> SUFFICES ASSUME NEW i \in 1 .. n, NEW j \in 1 .. n, i < j
                   PROVE  events[i] < events[j]
        BY DEF Rising
      <4>1. \A a, b \in 1 .. n - 1 : a < b => events[a] < events[b]
        BY <2>1 DEF Prefix, Rising
      <4>2. CASE j < n
        BY <4>1, <4>2
      <4>3. CASE j = n /\ i < n - 1
        <5>1. events[i] < events[n - 1] /\ events[n - 1] < events[n]
          BY <3>1, <4>1, <4>3
        <5> QED
          BY <1>1, <4>3, <5>1
      <4>4. CASE j = n /\ i = n - 1
        BY <3>1, <4>4
      <4> QED
        BY <4>2, <4>3, <4>4
    <3> DEFINE got == [so EXCEPT !.yielded = new]
    <3>6. got \in [yielded : Seq(Nat), broken : BOOLEAN] /\ got.yielded = new /\ ~got.broken
      BY <1>1, <1>3, <3>3
    <3> HIDE DEF got
    <3> QED
      BY <3>2, <3>4, <3>5, <3>6 DEF ReadTo, Prefix, new, got
  <2>5. CASE ~Follows(so.yielded, events[n])
    <3>1. n > 1 /\ events[n] <= events[n - 1]
      BY <1>1, <2>2, <2>3, <2>5 DEF Follows
    <3> DEFINE got == [so EXCEPT !.broken = TRUE]
    <3>2. Receives(so, events[n]) = got
      BY <2>5 DEF Receives
    <3>3. got \in [yielded : Seq(Nat), broken : BOOLEAN] /\ got.yielded = so.yielded /\ got.broken
      BY <1>1
    <3> HIDE DEF got
    <3>4. Prefix(got, events, n - 1) /\ n - 1 \in 1 .. n - 1 /\ events[n - 1 + 1] <= events[n - 1]
      BY <2>1, <3>1, <3>3 DEF Prefix
    <3> QED
      BY <3>2, <3>3, <3>4 DEF ReadTo
  <2> QED
    BY <2>4, <2>5
<1> QED
  BY <1>1, <1>2, <1>3

(* A stream yields its events up to the first that does not rise.          *)
LEMMA StreamRead ==
  ASSUME NEW events \in Seq(Nat)
  PROVE  ReadTo(stream_query(events), events, Len(events))
<1> DEFINE N == Len(events)
           f == CHOOSE g : Reading(g, events, N)
<1>1. N \in Nat
  BY LenProperties
<1>2. Reading(f, events, N)
  BY <1>1, ReadingExists
<1>3. stream_query(events) = f[N]
  BY DEF stream_query, Reading, Untouched
<1> HIDE DEF f
<1> DEFINE T == {n \in 0 .. N : ~ReadTo(f[n], events, n)}
<1>4. ASSUME T # {} PROVE FALSE
  <2>6. T \in SUBSET Nat
    BY <1>1
  <2> HIDE DEF T
  <2>1. PICK n \in T : \A k \in T : n <= k
    BY <1>4, <2>6, LeastNatural
  <2> USE DEF T
  <2>2. n # 0
    <3>1. f[0] = Untouched
      BY <1>1, <1>2 DEF Reading
    <3>2. Untouched.yielded = [i \in 1 .. 0 |-> events[i]]
      BY DEF Untouched
    <3>3. ReadTo(Untouched, events, 0)
      BY <3>2 DEF ReadTo, Prefix, Rising, Untouched
    <3> QED
      BY <3>1, <3>3
  <2>3. n \in 1 .. N /\ n - 1 \in 0 .. N
    BY <1>1, <2>2
  <2>4. ReadTo(f[n - 1], events, n - 1)
    BY <2>1, <2>3
  <2>5. f[n] = Receives(f[n - 1], events[n])
    BY <1>2, <2>2, <2>3 DEF Reading
  <2> QED
    BY <2>3, <2>4, <2>5, Receive
<1> QED
  BY <1>1, <1>3, <1>4

LEMMA StreamsHold ==
  ASSUME SessionInv
  PROVE  StreamsAreOrdered
<1> SUFFICES ASSUME last # None, last.response.kind = "events",
                    config.type = "rag_eval_protocol", "streaming" \in Known
             PROVE  LET events == last.response.events
                        yielded == Streamed(events)
                    IN /\ \A i, j \in 1 .. Len(yielded) : i < j => yielded[i] < yielded[j]
                       /\ yielded = SubSeq(events, 1, Len(yielded))
                       /\ last.result.returned
                            <=> \A i, j \in 1 .. Len(events) : i < j => events[i] < events[j]
  BY DEF StreamsAreOrdered
<1> DEFINE r == last.response
           events == r.events
           so == stream_query(events)
           N == Len(events)
<1>1. /\ r \in Response /\ last.op = "stream_query"
      /\ last.result = Result(config, last.op, r, Known)
  BY RepliedTypes, Replied DEF Possible
<1>2. events \in Seq(Nat)
  BY <1>1 DEF Response
<1>3. /\ N \in Nat /\ \A i \in 1 .. N : events[i] \in Nat
  BY <1>2, LenProperties, ElementOfSeq
<1>4. ReadTo(so, events, N)
  BY <1>2, StreamRead
<1>5. last.result = IF so.broken THEN TargetProtocolError ELSE Returned({})
  <2>1. Needs("stream_query") = {"streaming"}
    BY DEF Needs
  <2>2. _require_capability("stream_query", Known) /\ ~IsFault(r)
    BY <2>1 DEF _require_capability, IsFault
  <2>3. HttpResult("stream_query", r, Known)
          = IF so.broken THEN TargetProtocolError ELSE Returned({})
    BY <2>2 DEF HttpResult
  <2> QED
    BY <1>1, <2>3, ResultOf
<1>6. last.result.returned <=> ~so.broken
  <2>1. so.broken \in BOOLEAN
    BY <1>4 DEF ReadTo
  <2> QED
    BY <1>5, <2>1 DEF TargetProtocolError, TargetAdapterError, Raised, Returned
<1>7. PICK m \in 0 .. N : Prefix(so, events, m)
  BY <1>3, <1>4 DEF ReadTo
<1>8. so.broken <=> ~Rising(events, N)
  <2>1. ASSUME so.broken PROVE ~Rising(events, N)
    <3>1. PICK k \in 1 .. N - 1 : events[k + 1] <= events[k]
      BY <1>4, <2>1 DEF ReadTo
    <3>2. k \in 1 .. N /\ k + 1 \in 1 .. N /\ ~(events[k] < events[k + 1])
      BY <1>3, <3>1
    <3> QED
      BY <3>2 DEF Rising
  <2> QED
    BY <1>4, <2>1 DEF ReadTo, Prefix
<1>9. /\ so.yielded = [i \in 1 .. m |-> events[i]] /\ Len(so.yielded) = m
  BY <1>2, <1>7, PrefixIsSeq DEF Prefix
<1>10. SubSeq(events, 1, m) = [i \in 1 .. m |-> events[i]]
  <2>1. /\ SubSeq(events, 1, m) \in Seq(Nat)
        /\ Len(SubSeq(events, 1, m)) = m
        /\ \A i \in 1 .. m : SubSeq(events, 1, m)[i] = events[i]
    BY <1>2, <1>3, <1>7, SubSeqProperties
  <2>2. SubSeq(events, 1, m) \in [1 .. m -> Nat]
    BY <2>1, LenProperties
  <2> QED
    BY <2>1, <2>2
<1> HIDE DEF so, r
<1> QED
  BY <1>6, <1>7, <1>8, <1>9, <1>10 DEF Prefix, Rising, Streamed, so, r

(* A result without an error, or a record: what a caller expects of a call. *)
Recorded(result) ==
  \/ result.returned /\ result.error = None
  \/ result.error \in ErrorRecord

LEMMA ErrorRecorded ==
  ASSUME NEW category \in ErrorCategory, NEW retryable \in BOOLEAN,
         NEW status \in Nat \cup {None}, NEW after \in Nat \cup {None}
  PROVE  Recorded(TargetAdapterError(category, retryable, status, after))
BY DEF Recorded, TargetAdapterError, Raised, ErrorRecord

LEMMA KnownRecorded ==
  /\ Recorded(UnsupportedCapabilityError)
  /\ Recorded(TargetProtocolError)
  /\ \A observed : Recorded(Returned(observed))
<1>1. Recorded(UnsupportedCapabilityError)
  BY ErrorRecorded DEF UnsupportedCapabilityError, ErrorCategory
<1>2. Recorded(TargetProtocolError)
  BY ErrorRecorded DEF TargetProtocolError, ErrorCategory
<1>3. ASSUME NEW observed PROVE Recorded(Returned(observed))
  BY DEF Recorded, Returned
<1> QED
  BY <1>1, <1>2, <1>3

LEMMA FaultRecorded ==
  ASSUME NEW r \in Response, IsFault(r)
  PROVE  Recorded(_network_error(r.kind)) /\ Recorded(FlaggedFault(r.kind))
<1>1. FaultCategory(r.kind) \in ErrorCategory
  BY DEF FaultCategory, IsFault, ErrorCategory
<1>2. (r.kind # "transport") \in BOOLEAN
  OBVIOUS
<1> QED
  BY <1>1, <1>2, ErrorRecorded DEF _network_error, FlaggedFault

LEMMA StatusTypes ==
  ASSUME NEW status
  PROVE  /\ _STATUS_CATEGORIES(status) \in ErrorCategory
         /\ OpenAIStatus(status) \in ErrorCategory
         /\ GenericStatus(status) \in ErrorCategory
         /\ Transient(status) \in BOOLEAN
<1>1. OpenAIStatus(status) \in ErrorCategory
  BY DEF OpenAIStatus, ErrorCategory
<1>2. GenericStatus(status) \in ErrorCategory
  BY <1>1 DEF GenericStatus, ErrorCategory
<1>3. _STATUS_CATEGORIES(status) \in ErrorCategory
  BY DEF _STATUS_CATEGORIES, ErrorCategory
<1> QED
  BY <1>1, <1>2, <1>3 DEF Transient

LEMMA OwnTypes ==
  ASSUME NEW r \in Response
  PROVE  /\ r.status \in Nat \cup {None} /\ r.after \in Nat \cup {None}
         /\ r.own # None => /\ r.own.category \in ErrorCategory
                            /\ r.own.retryable \in BOOLEAN
                            /\ r.own.after \in Nat \cup {None}
BY DEF Response

LEMMA HttpRecorded ==
  ASSUME NEW op, NEW r \in Response, NEW advertised, r.kind # "raises"
  PROVE  Recorded(HttpResult(op, r, advertised))
<1>1. CASE _require_capability(op, advertised) /\ r.kind = "status"
  <2>1. HttpResult(op, r, advertised) = _raise_http_error(r)
    BY <1>1 DEF HttpResult, IsFault
  <2>2. CASE r.own # None
    <3> DEFINE after == IF r.own.after \notin {None, 0} THEN r.own.after ELSE r.after
    <3>1. after \in Nat \cup {None}
      BY <2>2, OwnTypes
    <3> HIDE DEF after
    <3>2. Recorded(TargetAdapterError(r.own.category, r.own.retryable, r.status, after))
      BY <2>2, <3>1, OwnTypes, ErrorRecorded
    <3> QED
      BY <2>1, <2>2, <3>2 DEF _raise_http_error, after
  <2>3. CASE r.own = None
    <3>1. Recorded(TargetAdapterError(_STATUS_CATEGORIES(r.status), Transient(r.status),
                                      r.status, r.after))
      BY OwnTypes, StatusTypes, ErrorRecorded
    <3> QED
      BY <2>1, <2>3, <3>1 DEF _raise_http_error
  <2> QED
    BY <2>2, <2>3
<1>2. CASE _require_capability(op, advertised) /\ IsFault(r)
  BY <1>2, FaultRecorded DEF HttpResult
<1>3. CASE ~_require_capability(op, advertised) \/ ~(IsFault(r) \/ r.kind = "status")
  <2>1. HttpResult(op, r, advertised)
          \in {UnsupportedCapabilityError, TargetProtocolError, Returned({}), Returned(Fields)}
    BY <1>3 DEF HttpResult
  <2> QED
    BY <2>1, KnownRecorded
<1> QED
  BY <1>1, <1>2, <1>3

LEMMA PythonRecorded ==
  ASSUME NEW c, NEW op, NEW r \in Response, NEW advertised
  PROVE  Recorded(PythonResult(c, op, r, advertised))
<1> DEFINE own == TargetAdapterError(r.own.category, r.own.retryable, r.status, r.own.after)
           internal == TargetAdapterError("INTERNAL", FALSE, None, None)
<1>1. Recorded(internal)
  BY ErrorRecorded DEF ErrorCategory
<1>2. r.own # None => Recorded(own)
  BY OwnTypes, ErrorRecorded
<1>3. \/ PythonResult(c, op, r, advertised)
           \in {UnsupportedCapabilityError, TargetProtocolError, Returned({}),
                Returned(Fields), internal}
      \/ r.own # None /\ PythonResult(c, op, r, advertised) = own
  BY DEF PythonResult
<1> HIDE DEF own, internal
<1> QED
  BY <1>1, <1>2, <1>3, KnownRecorded

LEMMA OpenAIRecorded ==
  ASSUME NEW op, NEW r \in Response
  PROVE  Recorded(OpenAIResult(op, r))
<1> DEFINE refused == TargetAdapterError(OpenAIStatus(r.status), Transient(r.status),
                                         r.status, None)
<1>1. Recorded(refused)
  BY OwnTypes, StatusTypes, ErrorRecorded
<1>2. \/ IsFault(r) /\ OpenAIResult(op, r) = FlaggedFault(r.kind)
      \/ OpenAIResult(op, r) \in {UnsupportedCapabilityError, TargetProtocolError, refused}
      \/ \E observed : OpenAIResult(op, r) = Returned(observed)
  BY DEF OpenAIResult, _extract_answer
<1> HIDE DEF refused
<1> QED
  BY <1>1, <1>2, FaultRecorded, KnownRecorded

(* A mapping that does not validate leaves the adapter without a record.   *)
LEMMA UnwrappedMapping ==
  ASSUME NEW r \in Response, NEW f, Mapped(f, ValueAt(r, f)) = "unwrapped"
  PROVE  r.field \in Mappings
<1>1. ValueAt(r, f) # "good" /\ f \in Mappings
  BY DEF Mapped, Mappings
<1> QED
  BY <1>1 DEF ValueAt

LEMMA GenericRecorded ==
  ASSUME NEW c, NEW op, NEW r \in Response
  PROVE  \/ Recorded(GenericResult(c, op, r))
         \/ GenericResult(c, op, r) = Unwrapped /\ r.field \in Mappings
<1> DEFINE refused == TargetAdapterError(GenericStatus(r.status), Transient(r.status),
                                         r.status, None)
<1>1. Recorded(refused)
  BY OwnTypes, StatusTypes, ErrorRecorded
<1>2. \/ IsFault(r) /\ GenericResult(c, op, r) = FlaggedFault(r.kind)
      \/ GenericResult(c, op, r) \in {UnsupportedCapabilityError, TargetProtocolError, refused,
                                      GenericQuery(c, r), GenericRetrieve(c, r)}
  BY DEF GenericResult
<1>3. \/ Recorded(GenericQuery(c, r))
      \/ GenericQuery(c, r) = Unwrapped /\ r.field \in Mappings
  <2>1. \/ GenericQuery(c, r) = TargetProtocolError
        \/ \E observed : GenericQuery(c, r) = Returned(observed)
        \/ /\ GenericQuery(c, r) = Unwrapped
           /\ \E f \in c.fields : Mapped(f, ValueAt(r, f)) = "unwrapped"
    BY DEF GenericQuery
  <2> QED
    BY <2>1, KnownRecorded, UnwrappedMapping
<1>4. \/ Recorded(GenericRetrieve(c, r))
      \/ GenericRetrieve(c, r) = Unwrapped /\ r.field \in Mappings
  <2>1. \/ GenericRetrieve(c, r) = TargetProtocolError
        \/ \E observed : GenericRetrieve(c, r) = Returned(observed)
        \/ /\ GenericRetrieve(c, r) = Unwrapped
           /\ \E f : Mapped(f, ValueAt(r, f)) = "unwrapped"
    BY DEF GenericRetrieve
  <2> QED
    BY <2>1, KnownRecorded, UnwrappedMapping
<1> HIDE DEF refused
<1> QED
  BY <1>1, <1>2, <1>3, <1>4, FaultRecorded, KnownRecorded

LEMMA RepliesRecorded ==
  ASSUME SessionInv, last # None
  PROVE  \/ Recorded(last.result)
         \/ /\ last.result = Unwrapped
            /\ config.type = "generic_http" /\ last.response.field \in Mappings
<1> DEFINE r == last.response
<1>1. PICK c, advertised :
        last.result = Result(c, last.op, r, advertised) /\ c.type = config.type
  BY Replied
<1>2. config.type \in Kinds /\ r \in Response /\ Possible(last.op, r)
  BY RepliedTypes
<1> HIDE DEF r
<1>3. CASE config.type = "rag_eval_protocol"
  <2>1. r.kind # "raises"
    BY <1>2, <1>3 DEF Possible
  <2> QED
    BY <1>1, <1>2, <1>3, <2>1, ResultOf, HttpRecorded
<1>4. CASE config.type = "python"
  BY <1>1, <1>2, <1>4, ResultOf, PythonRecorded
<1>5. CASE config.type = "openai_compatible"
  BY <1>1, <1>2, <1>5, ResultOf, OpenAIRecorded
<1>6. CASE config.type = "generic_http"
  BY <1>1, <1>2, <1>6, ResultOf, GenericRecorded DEF r
<1> QED
  BY <1>2, <1>3, <1>4, <1>5, <1>6 DEF Kinds

LEMMA RecordsHold ==
  ASSUME SessionInv
  PROVE  FailuresHaveRecords
BY RepliesRecorded, SessionAssumption DEF FailuresHaveRecords, Recorded

(* A fault, and a status without a record of the target's own, become an   *)
(* error that differs between adapters in nothing the retry policy reads.  *)
Meets(result, r) ==
  \/ /\ IsFault(r)
     /\ \E retryable \in BOOLEAN :
          result = TargetAdapterError(FaultCategory(r.kind), retryable, None, None)
  \/ /\ ~IsFault(r)
     /\ \E category, after :
          result = TargetAdapterError(category, Transient(r.status), r.status, after)

Plainly(r) == IsFault(r) \/ (r.kind = "status" /\ r.own = None)

(* Every network adapter meets them so, unless it does not let the         *)
(* operation out.                                                          *)
LEMMA AdaptersMeet ==
  ASSUME NEW c, c.type \in Network, NEW op, NEW r, Plainly(r), NEW advertised
  PROVE  \/ Meets(Result(c, op, r, advertised), r)
         \/ /\ Result(c, op, r, advertised) = UnsupportedCapabilityError
            /\ op = "query" =>
                 \/ "query" \notin advertised
                 \/ c.type = "generic_http" /\ "query" \notin c.protocol
<1>1. CASE c.type = "rag_eval_protocol"
  <2>1. Result(c, op, r, advertised) = HttpResult(op, r, advertised)
    BY <1>1, ResultOf
  <2>2. CASE ~_require_capability(op, advertised)
    <3>1. op = "query" => "query" \notin advertised
      BY <2>2 DEF _require_capability, Needs
    <3> QED
      BY <2>1, <2>2, <3>1 DEF HttpResult
  <2>3. CASE _require_capability(op, advertised) /\ IsFault(r)
    <3>1. HttpResult(op, r, advertised)
            = TargetAdapterError(FaultCategory(r.kind), FALSE, None, None)
      BY <2>3 DEF HttpResult, _network_error
    <3> QED
      BY <2>1, <2>3, <3>1 DEF Meets
  <2>4. CASE _require_capability(op, advertised) /\ ~IsFault(r)
    <3>1. HttpResult(op, r, advertised)
            = TargetAdapterError(_STATUS_CATEGORIES(r.status), Transient(r.status),
                                 r.status, r.after)
      BY <2>4 DEF HttpResult, _raise_http_error, Plainly
    <3> QED
      BY <2>1, <2>4, <3>1 DEF Meets
  <2> QED
    BY <2>2, <2>3, <2>4
<1>2. ASSUME IsFault(r) PROVE Meets(FlaggedFault(r.kind), r)
  <2>1. (r.kind # "transport") \in BOOLEAN
    OBVIOUS
  <2> QED
    BY <1>2, <2>1 DEF Meets, FlaggedFault
<1>3. CASE c.type = "generic_http"
  <2>1. Result(c, op, r, advertised) = GenericResult(c, op, r)
    BY <1>3, ResultOf
  <2>2. CASE op \in GenericUnsupported \/ op \notin c.protocol
    <3>1. op = "query" => "query" \notin c.protocol
      BY <2>2 DEF GenericUnsupported
    <3> QED
      BY <1>3, <2>1, <2>2, <3>1 DEF GenericResult
  <2>3. CASE ~(op \in GenericUnsupported \/ op \notin c.protocol) /\ IsFault(r)
    BY <1>2, <2>1, <2>3 DEF GenericResult
  <2>4. CASE ~(op \in GenericUnsupported \/ op \notin c.protocol) /\ ~IsFault(r)
    <3>1. GenericResult(c, op, r)
            = TargetAdapterError(GenericStatus(r.status), Transient(r.status), r.status, None)
      BY <2>4 DEF GenericResult, Plainly
    <3> QED
      BY <2>1, <2>4, <3>1 DEF Meets
  <2> QED
    BY <2>2, <2>3, <2>4
<1>4. CASE c.type = "openai_compatible"
  <2>1. Result(c, op, r, advertised) = OpenAIResult(op, r)
    BY <1>4, ResultOf
  <2>2. CASE op \in OpenAIUnsupported
    <3>1. op # "query"
      BY <2>2 DEF OpenAIUnsupported, GenericUnsupported
    <3> QED
      BY <2>1, <2>2, <3>1 DEF OpenAIResult
  <2>3. CASE op \notin OpenAIUnsupported /\ IsFault(r)
    BY <1>2, <2>1, <2>3 DEF OpenAIResult
  <2>4. CASE op \notin OpenAIUnsupported /\ ~IsFault(r)
    <3>1. OpenAIResult(op, r)
            = TargetAdapterError(OpenAIStatus(r.status), Transient(r.status), r.status, None)
      BY <2>4 DEF OpenAIResult, Plainly
    <3> QED
      BY <2>1, <2>4, <3>1 DEF Meets
  <2> QED
    BY <2>2, <2>3, <2>4
<1> QED
  BY <1>1, <1>3, <1>4 DEF Network

(* When the policy retries such an error.                                  *)
LEMMA RetriedMeets ==
  ASSUME NEW result, NEW r, Meets(result, r), NEW policy, ~IsFault(r) => r.status # None
  PROVE  Retried(result.error, policy)
           = (IsFault(r) \/ Transient(r.status) \/ r.status \in policy.statuses)
<1>1. CASE IsFault(r)
  <2>1. PICK retryable \in BOOLEAN :
          result = TargetAdapterError(FaultCategory(r.kind), retryable, None, None)
    BY <1>1 DEF Meets
  <2>2. _is_retryable_category(FaultCategory(r.kind), policy)
    BY <1>1 DEF FaultCategory, IsFault, _is_retryable_category
  <2>3. /\ result.error.category = FaultCategory(r.kind)
        /\ result.error.http_status = None
        /\ result.error.retryable = retryable
    BY <2>1 DEF TargetAdapterError, Raised
  <2>4. /\ Seen(result.error, policy).http_status = "none"
        /\ Seen(result.error, policy).category = "retryable"
    BY <2>2, <2>3 DEF Seen
  <2>5. Retried(result.error, policy)
    BY <2>4 DEF Retried, IsRetryable
  <2>6. Retried(result.error, policy) \in BOOLEAN
    BY DEF Retried, IsRetryable
  <2> QED
    BY <1>1, <2>5, <2>6
<1>2. CASE ~IsFault(r)
  <2>1. PICK category, after :
          result = TargetAdapterError(category, Transient(r.status), r.status, after)
    BY <1>2 DEF Meets
  <2>2. result.error.http_status = r.status /\ result.error.retryable = Transient(r.status)
    BY <2>1 DEF TargetAdapterError, Raised
  <2>3. /\ Seen(result.error, policy).http_status
             = (IF r.status \in policy.statuses THEN "retryable" ELSE "other")
        /\ Seen(result.error, policy).retryable = Transient(r.status)
    BY <1>2, <2>2 DEF Seen
  <2> HIDE <2>1, <2>2
  <2> QED
    BY <1>2, <2>3 DEF Retried, IsRetryable
<1> QED
  BY <1>1, <1>2

LEMMA FaultsHold ==
  ASSUME SessionInv
  PROVE  FaultsAreRetriedAlike
<1> SUFFICES ASSUME Failed, config.type \in Network, Error.category # "UNSUPPORTED_CAPABILITY",
                    Plainly(last.response),
                    NEW c \in Configs, NEW policy \in Policies, c.type \in Network,
                    c.type = "generic_http" => "query" \in c.protocol
             PROVE  Retried(Error, policy)
                      = Retried(Result(c, "query", last.response, Capabilities).error, policy)
  BY DEF FaultsAreRetriedAlike, Plainly
<1> DEFINE r == last.response
           other == Result(c, "query", r, Capabilities)
<1>1. PICK d, advertised :
        last.result = Result(d, last.op, r, advertised) /\ d.type = config.type
  BY Replied DEF Failed
<1>2. ~IsFault(r) => r.status # None
  BY RepliedTypes, SessionAssumption DEF Failed, Plainly
<1>3. last.result # UnsupportedCapabilityError
  BY DEF Error, UnsupportedCapabilityError, TargetAdapterError, Raised
<1>4. Meets(last.result, r)
  BY <1>1, <1>3, AdaptersMeet
<1>5. Meets(other, r)
  <2>1. "query" \in Capabilities
    BY DEF Capabilities
  <2> QED
    BY <2>1, AdaptersMeet
<1> HIDE DEF r, other
<1>6. Retried(last.result.error, policy) = Retried(other.error, policy)
  BY <1>2, <1>4, <1>5, RetriedMeets
<1> QED
  BY <1>6 DEF r, other, Error

(* Delays: the cap bounds all but the jitter, which adds a quarter.         *)
LEMMA Powers ==
  ASSUME NEW n \in Int PROVE 2 ^ n \in Int
BY SMT

LEMMA CappedBelow ==
  ASSUME NEW policy, policy.maximum \in Nat, NEW delay \in Int
  PROVE  Capped(delay, policy) \in Int /\ Capped(delay, policy) <= policy.maximum
BY DEF Capped

LEMMA Jitter ==
  ASSUME NEW top \in Nat, NEW base \in Int, base <= top
  PROVE  /\ top <= top + top \div 4
         /\ base + base \div 4 \in Int /\ base - base \div 4 \in Int
         /\ base + base \div 4 <= top + top \div 4
OBVIOUS

LEMMA DelaysBelow ==
  ASSUME NEW policy \in Policies, NEW number \in Nat, NEW after \in Nat \cup {None}
  PROVE  \A d \in _calculate_delay(number, after, policy) :
           d <= policy.maximum + policy.maximum \div 4
<1> DEFINE base == Capped(policy.initial * 2 ^ (number - 1), policy)
           top == policy.maximum
<1>1. policy.initial \in Nat /\ top \in Nat /\ policy.initial <= top
  BY SessionAssumption
<1>2. base \in Int /\ base <= top
  <2>1. 2 ^ (number - 1) \in Int
    BY Powers
  <2>2. policy.initial * 2 ^ (number - 1) \in Int
    BY <1>1, <2>1
  <2> QED
    BY <1>1, <2>2, CappedBelow
<1>3. /\ after \notin {None, 0} => Capped(after, policy) <= top /\ Capped(after, policy) \in Int
      /\ Capped(policy.initial * number, policy) <= top
      /\ Capped(policy.initial * number, policy) \in Int
  <2>1. policy.initial * number \in Int
    BY <1>1
  <2> QED
    BY <1>1, <2>1, CappedBelow
<1>4. _calculate_delay(number, after, policy)
        = IF after \notin {None, 0} THEN {Capped(after, policy)}
          ELSE IF policy.strategy = "exponential_jitter"
          THEN (base - base \div 4) .. (base + base \div 4)
          ELSE IF policy.strategy = "linear" THEN {Capped(policy.initial * number, policy)}
          ELSE {policy.initial}
  BY DEF _calculate_delay
<1> HIDE DEF base
<1> SUFFICES ASSUME NEW d \in _calculate_delay(number, after, policy)
             PROVE  d <= top + top \div 4
  BY DEF top
<1> HIDE DEF top
<1>5. /\ top <= top + top \div 4 /\ top \div 4 \in Int
      /\ base + base \div 4 \in Int /\ base - base \div 4 \in Int
      /\ base + base \div 4 <= top + top \div 4
  BY <1>1, <1>2, Jitter
<1>6. CASE d \in (base - base \div 4) .. (base + base \div 4)
  BY <1>1, <1>5, <1>6
<1>7. CASE d \in Int /\ d <= top
  BY <1>1, <1>5, <1>7
<1>8. \/ d \in (base - base \div 4) .. (base + base \div 4)
      \/ d \in Int /\ d <= top
  BY <1>1, <1>3, <1>4
<1> QED
  BY <1>6, <1>7, <1>8

(* A failure has a record of the right type.                                *)
LEMMA ErrorTyped ==
  ASSUME SessionInv, Failed
  PROVE  Error \in ErrorRecord
<1>1. last.result.error # None /\ last # None
  BY DEF Failed
<1>2. CASE Recorded(last.result)
  BY <1>1, <1>2 DEF Recorded, Error
<1>3. last.result # Unwrapped
  BY <1>1 DEF Unwrapped, Raised
<1> QED
  BY <1>1, <1>2, <1>3, RepliesRecorded

LEMMA PacedHolds ==
  ASSUME SessionInv
  PROVE  RetriesArePaced
<1> SUFFICES ASSUME Failed, NEW policy \in Policies, NEW n \in 1 .. policy.attempts
             PROVE  /\ \A d \in Delays(Error, n, policy) :
                         d <= policy.maximum + policy.maximum \div 4
                    /\ /\ config.type = "rag_eval_protocol"
                       /\ Error.http_status # None /\ last.response.own = None
                       /\ Transient(last.response.status)
                       /\ last.response.after \notin {None, 0}
                       => Delays(Error, n, policy) = {Capped(last.response.after, policy)}
  BY DEF RetriesArePaced
<1>1. Error \in ErrorRecord
  BY ErrorTyped
<1>2. \A d \in Delays(Error, n, policy) : d <= policy.maximum + policy.maximum \div 4
  <2> DEFINE after == IF Error.retryable THEN Error.retry_after ELSE None
  <2>1. after \in Nat \cup {None}
    BY <1>1 DEF ErrorRecord
  <2>2. n \in Nat
    BY SessionAssumption
  <2>3. Delays(Error, n, policy) = _calculate_delay(n, after, policy)
    BY DEF Delays
  <2> HIDE DEF after
  <2> QED
    BY <2>1, <2>2, <2>3, DelaysBelow
<1>3. ASSUME config.type = "rag_eval_protocol", Error.http_status # None,
             last.response.own = None, Transient(last.response.status),
             last.response.after \notin {None, 0}
      PROVE  Delays(Error, n, policy) = {Capped(last.response.after, policy)}
  <2> DEFINE r == last.response
  <2>1. PICK c, advertised :
          last.result = HttpResult(last.op, r, advertised)
    BY <1>3, Replied, ResultOf DEF Failed
  <2>2. last.result = TargetAdapterError(_STATUS_CATEGORIES(r.status), Transient(r.status),
                                         r.status, r.after)
    <3>1. \/ last.result \in {UnsupportedCapabilityError, TargetProtocolError,
                              _network_error(r.kind), Returned({}), Returned(Fields)}
          \/ last.result = _raise_http_error(r)
      BY <2>1 DEF HttpResult
    <3>2. ASSUME last.result \in {UnsupportedCapabilityError, TargetProtocolError,
                                  _network_error(r.kind)}
          PROVE  FALSE
      BY <1>3, <3>2 DEF Error, UnsupportedCapabilityError, TargetProtocolError,
                        _network_error, TargetAdapterError, Raised
    <3>3. ASSUME last.result \in {Returned({}), Returned(Fields)}
          PROVE  FALSE
      BY <3>3, Returns DEF Failed
    <3> QED
      BY <1>3, <3>1, <3>2, <3>3 DEF _raise_http_error
  <2>3. Error.retryable /\ Error.retry_after = r.after
    BY <1>3, <2>2 DEF Error, TargetAdapterError, Raised
  <2> QED
    BY <1>3, <2>3 DEF Delays, _calculate_delay
<1> QED
  BY <1>2, <1>3

LEMMA SessionHolds == Spec => [](SessionTypeOK /\ SessionInv)
<1>1. Init => SessionTypeOK /\ SessionInv
  BY InitHolds DEF IInv, Init, SessionInit, SessionInv, Opened, Answered, Wrapped
<1>2. SessionTypeOK /\ SessionInv /\ [Next]_vars => (SessionTypeOK /\ SessionInv)'
  BY SessionStays, SessionInvKept
<1> QED
  BY <1>1, <1>2, PTL DEF Spec

(* Whatever the configuration, the secrets and the answers of a target: an *)
(* adapter calls unsupported only what it does not advertise or the target *)
(* itself so records, delivers what it advertises, leaves no failure but   *)
(* an unvalidated mapping without a record, has the same faults retried as *)
(* the other adapters do and after a delay that is bounded, yields the     *)
(* events of a stream in order, and sends the secrets it was given.        *)
THEOREM AdaptersCorrect == Spec => []AdaptersKeepTheirWord
<1>1. ASSUME SessionTypeOK /\ SessionInv
      PROVE  AdaptersKeepTheirWord
  BY <1>1, UnsupportedHolds, DeliveredHolds, RecordsHold, FaultsHold, PacedHolds,
     StreamsHold, SecretsHold
  DEF AdaptersKeepTheirWord
<1> QED
  BY <1>1, SessionHolds, PTL

=============================================================================
