------------------------- MODULE RunExecutionProofs -------------------------
(***************************************************************************)
(* Theorems about RunExecution for any number of cases, commands, faults   *)
(* and crashes and any target. ConcurrencyCorrect, VerdictCorrect and      *)
(* RegenerationCorrect assume patient operators, who restart a run only    *)
(* when nothing goes on (Patient), and the last also that stored responses *)
(* can be read (~ReadFaults); the others hold for any operator.            *)
(***************************************************************************)
EXTENDS RunExecution, TLAPS, SequenceTheorems, FiniteSetTheorems

-----------------------------------------------------------------------------
(* Updates of the rows *)

(* An amended attempt is in its place, and nothing else has changed. *)
LEMMA AmendRow ==
  ASSUME attempts \in [Cases -> Seq(AttemptRow)],
         NEW c \in Cases, NEW n \in 1..Len(attempts[c]), NEW row \in AttemptRow,
         Amend(c, n, row)
  PROVE  /\ attempts' \in [Cases -> Seq(AttemptRow)]
         /\ \A d \in Cases : Len(attempts'[d]) = Len(attempts[d])
         /\ attempts'[c][n] = row
         /\ \A d \in Cases : \A m \in 1..Len(attempts[d]) :
              d # c \/ m # n => attempts'[d][m] = attempts[d][m]
<1>1. attempts' = [attempts EXCEPT ![c] = [attempts[c] EXCEPT ![n] = row]]
  BY DEF Amend
<1>2. attempts[c] \in Seq(AttemptRow)
  OBVIOUS
<1>3. /\ [attempts[c] EXCEPT ![n] = row] \in Seq(AttemptRow)
      /\ Len([attempts[c] EXCEPT ![n] = row]) = Len(attempts[c])
      /\ \A m \in 1..Len(attempts[c]) :
           [attempts[c] EXCEPT ![n] = row][m] = IF m = n THEN row ELSE attempts[c][m]
  BY <1>2, ExceptSeq
<1> QED
  BY <1>1, <1>3

(* A new attempt has the next number, and nothing else has changed. *)
LEMMA AppendRow ==
  ASSUME attempts \in [Cases -> Seq(AttemptRow)],
         NEW c \in Cases, NEW row \in AttemptRow,
         attempts' = [attempts EXCEPT ![c] = Append(@, row)]
  PROVE  /\ attempts' \in [Cases -> Seq(AttemptRow)]
         /\ \A d \in Cases \ {c} : attempts'[d] = attempts[d]
         /\ Len(attempts'[c]) = Len(attempts[c]) + 1
         /\ attempts'[c][Len(attempts[c]) + 1] = row
         /\ \A m \in 1..Len(attempts[c]) : attempts'[c][m] = attempts[c][m]
<1>1. attempts'[c] = Append(attempts[c], row)
  OBVIOUS
<1>2. attempts[c] \in Seq(AttemptRow)
  OBVIOUS
<1>3. Append(attempts[c], row) \in Seq(AttemptRow)
  BY <1>2, AppendProperties
<1>4. attempts' \in [Cases -> Seq(AttemptRow)]
  BY <1>3
<1>5. /\ Len(attempts'[c]) = Len(attempts[c]) + 1
      /\ attempts'[c][Len(attempts[c]) + 1] = row
      /\ \A m \in 1..Len(attempts[c]) : attempts'[c][m] = attempts[c][m]
  BY <1>1, <1>2, AppendProperties
<1> QED
  BY <1>4, <1>5

(* One coroutine has moved, and every other one is where it was. *)
LEMMA StepMoves ==
  ASSUME work \in [Tasks -> [Cases -> Worker]],
         NEW t \in Tasks, NEW c \in Cases, NEW pc \in WorkerPcs, NEW att \in Nat,
         Step(t, c, pc, att)
  PROVE  /\ work' \in [Tasks -> [Cases -> Worker]]
         /\ work'[t][c].pc = pc
         /\ work'[t][c].att = att
         /\ \A u \in Tasks, d \in Cases : u # t \/ d # c => work'[u][d] = work[u][d]
  BY DEF Step, Worker

-----------------------------------------------------------------------------
(* Type correctness *)

USE DEF Tasks

LEMMA RewriteTyped ==
  ASSUME caseStatus \in [Cases -> CaseStatuses],
         NEW cs, NEW status \in CaseStatuses, Rewrite(cs, status)
  PROVE  caseStatus' \in [Cases -> CaseStatuses]
BY DEF Rewrite

LEMMA GotoTyped ==
  ASSUME exec \in [Tasks -> Task], NEW t \in Tasks,
         NEW pc \in {"claim", "select", "run", "settle", "aggregate", "failing",
                     "marking", "done"},
         Goto(t, pc)
  PROVE  exec' \in [Tasks -> Task]
BY DEF Goto, Task

LEMMA SettleTyped ==
  ASSUME exec \in [Tasks -> Task], NEW t \in Tasks, NEW verdict \in RunStatuses,
         exec' = [exec EXCEPT ![t].pc = "settle", ![t].verdict = verdict]
  PROVE  exec' \in [Tasks -> Task]
<1> DEFINE e == [exec[t] EXCEPT !.pc = "settle", !.verdict = verdict]
<1>1. e \in Task
  BY DEF Task
<1>2. exec' = [exec EXCEPT ![t] = e]
  OBVIOUS
<1> QED
  BY <1>1, <1>2

LEMMA FailedTyped ==
  ASSUME exec \in [Tasks -> Task], NEW t \in Tasks,
         exec' = [exec EXCEPT ![t].failed = TRUE]
  PROVE  exec' \in [Tasks -> Task]
<1>1. \A e \in Task, failed \in BOOLEAN : [e EXCEPT !.failed = failed] \in Task
  BY DEF Task
<1>2. exec[t] \in Task
  OBVIOUS
<1>3. exec' = [exec EXCEPT ![t] = [exec[t] EXCEPT !.failed = TRUE]]
  OBVIOUS
<1> QED
  BY <1>1, <1>2, <1>3

LEMMA SpawnTyped ==
  ASSUME exec \in [Tasks -> Task], NEW r \in Requests,
         NEW scope \in SUBSET Cases, NEW only \in BOOLEAN,
         Spawn(r, scope, only)
  PROVE  exec' \in [Tasks -> Task]
BY DEF Spawn, NoTask, Task, RunStatuses

LEMMA TaskStops == \A e \in Task : [e EXCEPT !.pc = "done"] \in Task
BY DEF Task

LEMMA HandlerMoves ==
  \A h \in Handler, pc \in {"locked", "open", "done"}, victims \in SUBSET Cases :
    /\ [h EXCEPT !.pc = pc] \in Handler
    /\ [h EXCEPT !.pc = pc, !.victims = victims] \in Handler
BY DEF Handler

LEMMA CloseTyped ==
  ASSUME handler \in [Requests -> Handler], NEW r \in Requests, Close(r)
  PROVE  handler' \in [Requests -> Handler]
<1> DEFINE h == [handler[r] EXCEPT !.pc = "done"]
<1>1. handler' = [handler EXCEPT ![r] = h]
  BY DEF Close
<1>2. h \in Handler
  BY HandlerMoves
<1> HIDE DEF h
<1> QED
  BY <1>1, <1>2

(* The commands keep every variable in its type. *)
LEMMA CommandTypes ==
  ASSUME TypeOK, NEW r \in Requests,
         (\E kind \in Kinds : ReadRun(r, kind)) \/ Answer(r)
  PROVE  TypeOK'
<1> USE DEF TypeOK, dbVars, envVars
<1>1. CASE \E kind \in Kinds : ReadRun(r, kind)
  <2> PICK kind \in Kinds : ReadRun(r, kind)
    BY <1>1
  <2>1. Victims(kind) \in SUBSET Cases
    BY DEF Victims, CasesIn
  <2>2. kind \in AllKinds
    BY KindsAssumption
  <2>3. handler' \in [Requests -> Handler]
    BY <2>1, <2>2 DEF ReadRun, Handler
  <2> QED
    BY <2>3 DEF ReadRun
<1>2. CASE CommitPause(r)
  BY <1>2, CloseTyped DEF CommitPause, RunStatuses
<1>3. CASE LockForCancel(r)
  <2>1. Victims("cancel") \in SUBSET Cases
    BY DEF Victims, CasesIn
  <2> DEFINE h == [handler[r] EXCEPT !.pc = "locked", !.victims = Victims("cancel")]
  <2>2. handler' = [handler EXCEPT ![r] = h]
    BY <1>3 DEF LockForCancel
  <2>3. h \in Handler
    BY <2>1, HandlerMoves
  <2>4. handler' \in [Requests -> Handler]
    BY <2>2, <2>3
  <2> QED
    BY <1>3, <2>4 DEF LockForCancel
<1>4. CASE CommitCancel(r)
  BY <1>4, CloseTyped, RewriteTyped DEF CommitCancel, RunStatuses, CaseStatuses
<1>5. CASE CommitRetry(r)
  <2>1. handler[r].victims \in SUBSET Cases
    BY DEF Handler
  <2> QED
    BY <1>5, <2>1, CloseTyped, RewriteTyped, SpawnTyped
    DEF CommitRetry, RunStatuses, CaseStatuses
<1>6. CASE CommitResume(r)
  BY <1>6, CloseTyped, RewriteTyped, SpawnTyped
  DEF CommitResume, RunStatuses, CaseStatuses
<1>7. CASE OpenResume(r)
  <2> DEFINE h == [handler[r] EXCEPT !.pc = "open"]
  <2>1. handler' = [handler EXCEPT ![r] = h]
    BY <1>7 DEF OpenResume
  <2>2. h \in Handler
    BY HandlerMoves
  <2>3. handler' \in [Requests -> Handler]
    <3> HIDE DEF h
    <3> QED
      BY <2>1, <2>2
  <2> QED
    BY <1>7, <2>3, SpawnTyped DEF OpenResume
<1>8. CASE RollBackResume(r)
  BY <1>8, CloseTyped DEF RollBackResume
<1> QED
  BY <1>1, <1>2, <1>3, <1>4, <1>5, <1>6, <1>7, <1>8 DEF Answer

(* So do the steps of execute_run outside the worker pool. *)
LEMMA TaskTypes ==
  ASSUME TypeOK, NEW t \in Tasks,
         \/ CheckRun(t) \/ ClaimRun(t) \/ SelectCases(t) \/ FinishRead(t)
         \/ FinishWrite(t) \/ AggregateRun(t) \/ TaskFails(t)
         \/ InspectFailedRun(t) \/ MarkRunFailed(t)
  PROVE  TypeOK'
<1> USE DEF TypeOK, dbVars, envVars
<1>1. CASE CheckRun(t)
  BY <1>1, GotoTyped DEF CheckRun
<1>2. CASE ClaimRun(t)
  BY <1>2, GotoTyped DEF ClaimRun, RunStatuses
<1>3. CASE SelectCases(t)
  <2>1. work' \in [Tasks -> [Cases -> Worker]]
    BY <1>3 DEF SelectCases, Worker, WorkerPcs
  <2> QED
    BY <1>3, <2>1, GotoTyped DEF SelectCases
<1>4. CASE FinishRead(t)
  <2>1. Verdict(exec[t].failed) \in RunStatuses
    BY DEF Verdict, RunStatuses
  <2>2. exec' \in [Tasks -> Task]
    BY <1>4, <2>1, SettleTyped DEF FinishRead
  <2> QED
    BY <1>4, <2>2 DEF FinishRead
<1>5. CASE FinishWrite(t)
  <2>1. exec[t].verdict \in RunStatuses
    BY DEF Task
  <2> QED
    BY <1>5, <2>1, GotoTyped DEF FinishWrite
<1>6. CASE AggregateRun(t)
  BY <1>6, GotoTyped DEF AggregateRun
<1>7. CASE TaskFails(t)
  <2>1. exec' \in [Tasks -> Task]
    BY <1>7, GotoTyped DEF TaskFails
  <2>2. faults' \in Nat
    BY <1>7 DEF TaskFails, Fault
  <2> QED
    BY <1>7, <2>1, <2>2 DEF TaskFails
<1>8. CASE InspectFailedRun(t)
  BY <1>8, GotoTyped DEF InspectFailedRun
<1>9. CASE MarkRunFailed(t)
  BY <1>9, GotoTyped, BoundsAssumption DEF MarkRunFailed, Fault, NoFault, RunStatuses
<1> QED
  BY <1>1, <1>2, <1>3, <1>4, <1>5, <1>6, <1>7, <1>8, <1>9

LEMMA FailTyped ==
  ASSUME attempts \in [Cases -> Seq(AttemptRow)],
         NEW c \in Cases, NEW n \in Nat, FailAttempt(c, n)
  PROVE  /\ attempts' \in [Cases -> Seq(AttemptRow)]
         /\ \A d \in Cases : Len(attempts'[d]) = Len(attempts[d])
         /\ \A d \in Cases : \A m \in 1..Len(attempts[d]) :
              /\ attempts'[d][m].raw = attempts[d][m].raw
              /\ attempts'[d][m].observed = attempts[d][m].observed
<1> DEFINE row == [attempts[c][n] EXCEPT !.status = "PERMANENT_FAILURE"]
<1>1. CASE n \in 1..Len(attempts[c])
  <2>1. attempts[c] \in Seq(AttemptRow) /\ n \in DOMAIN attempts[c]
    BY <1>1
  <2>2. attempts[c][n] \in AttemptRow
    BY <1>1, <2>1
  <2>3. /\ row \in AttemptRow
        /\ row.raw = attempts[c][n].raw
        /\ row.observed = attempts[c][n].observed
    BY <2>2 DEF AttemptRow
  <2>4. Amend(c, n, row)
    BY <2>1 DEF FailAttempt
  <2> HIDE DEF row
  <2> QED
    BY <1>1, <2>3, <2>4, AmendRow
<1>2. CASE n \notin 1..Len(attempts[c])
  <2>1. attempts[c] \in Seq(AttemptRow)
    OBVIOUS
  <2>2. n \notin DOMAIN attempts[c]
    BY <1>2, <2>1
  <2> QED
    BY <2>2 DEF FailAttempt
<1> QED
  BY <1>1, <1>2

LEMMA RowTyped ==
  ASSUME attempts \in [Cases -> Seq(AttemptRow)],
         NEW c \in Cases, NEW n \in 1..Len(attempts[c])
  PROVE  attempts[c][n] \in AttemptRow
<1>1. attempts[c] \in Seq(AttemptRow)
  OBVIOUS
<1> QED
  BY <1>1

(* The row that _persist_raw_response leaves. *)
LEMMA StoredRow ==
  ASSUME NEW row \in AttemptRow, NEW raw \in {"good", "bad"}
  PROVE  /\ [row EXCEPT !.raw = raw] \in AttemptRow
         /\ [row EXCEPT !.raw = raw].observed = row.observed
BY DEF AttemptRow

(* The row that _complete_case_execution leaves. *)
LEMMA ObservedRow ==
  ASSUME NEW row \in AttemptRow
  PROVE  LET after == [row EXCEPT !.observed = TRUE, !.status = "RESPONSE_RECEIVED"]
         IN /\ after \in AttemptRow
            /\ after.observed = TRUE
            /\ after.raw = row.raw
BY DEF AttemptRow

(* A coroutine of the worker pool keeps every variable in its type. *)
LEMMA CaseTypes ==
  ASSUME TypeOK, KnownAttempts, NEW t \in Tasks, NEW c \in Cases, CaseStep(t, c)
  PROVE  TypeOK'
<1> USE DEF TypeOK, dbVars, envVars
<1>0. Att(t, c) \in Nat /\ Len(attempts[c]) \in Nat
  BY DEF Att, Worker
<1>1. CASE DecideCase(t, c)
  <2>1. \E pc \in WorkerPcs, att \in Nat : Step(t, c, pc, att)
    BY <1>0, <1>1 DEF DecideCase, WorkerPcs
  <2>2. work' \in [Tasks -> [Cases -> Worker]]
    BY <2>1, StepMoves
  <2>3. faults' \in Nat
    BY <1>1 DEF DecideCase, Fault, NoFault
  <2> QED
    BY <1>1, <2>2, <2>3 DEF DecideCase
<1>2. CASE InspectForReset(t, c)
  BY <1>2, StepMoves DEF InspectForReset, WorkerPcs
<1>3. CASE ResetCase(t, c)
  <2>1. work' \in [Tasks -> [Cases -> Worker]]
    BY <1>3, StepMoves DEF ResetCase, WorkerPcs
  <2>2. caseStatus' \in [Cases -> CaseStatuses]
    BY <1>3 DEF ResetCase, CaseStatuses
  <2> QED
    BY <1>3, <2>1, <2>2 DEF ResetCase
<1>4. CASE NumberAttempt(t, c)
  <2>1. Len(attempts[c]) + 1 \in Nat
    BY <1>0
  <2>2. work' \in [Tasks -> [Cases -> Worker]]
    BY <1>4, <2>1, StepMoves DEF NumberAttempt, WorkerPcs
  <2> QED
    BY <1>4, <2>2 DEF NumberAttempt
<1>5. CASE InspectForRegister(t, c)
  BY <1>5, <1>0, StepMoves DEF InspectForRegister, WorkerPcs
<1>6. CASE RegisterAttempt(t, c)
  <2>1. work' \in [Tasks -> [Cases -> Worker]]
    BY <1>6, <1>0, StepMoves DEF RegisterAttempt, WorkerPcs
  <2>2. NewAttempt \in AttemptRow
    BY DEF NewAttempt, AttemptRow
  <2>3. attempts' \in [Cases -> Seq(AttemptRow)]
    BY <1>6, <2>2, AppendRow DEF RegisterAttempt
  <2>4. caseStatus' \in [Cases -> CaseStatuses]
    BY <1>6 DEF RegisterAttempt, CaseStatuses
  <2> QED
    BY <1>6, <2>1, <2>3, <2>4 DEF RegisterAttempt
<1>7. CASE CallTarget(t, c)
  <2>1. work' \in [Tasks -> [Cases -> Worker]]
    BY <1>7, <1>0, StepMoves DEF CallTarget, WorkerPcs
  <2>2. called' \subseteq Cases \X Nat
    BY <1>7, <1>0 DEF CallTarget
  <2>3. faults' \in Nat
    BY <1>7 DEF CallTarget, Fault, NoFault
  <2> QED
    BY <1>7, <2>1, <2>2, <2>3 DEF CallTarget
<1>8. CASE PersistResponse(t, c)
  <2>1. Att(t, c) \in 1..Len(attempts[c])
    BY <1>8 DEF PersistResponse, Working, KnownAttempts, Att
  <2>2. work' \in [Tasks -> [Cases -> Worker]]
    BY <1>8, <1>0, StepMoves DEF PersistResponse, WorkerPcs
  <2>3. attempts' \in [Cases -> Seq(AttemptRow)]
    BY <1>8, <2>1, RowTyped, StoredRow, AmendRow DEF PersistResponse
  <2>4. faults' \in Nat
    BY <1>8 DEF PersistResponse, Fault, NoFault
  <2> QED
    BY <1>8, <2>2, <2>3, <2>4 DEF PersistResponse
<1>9. CASE CompleteCase(t, c)
  <2>1. Att(t, c) \in 1..Len(attempts[c])
    BY <1>9 DEF CompleteCase, Working, KnownAttempts, Att
  <2>2. work' \in [Tasks -> [Cases -> Worker]]
    BY <1>9, <1>0, StepMoves DEF CompleteCase, WorkerPcs
  <2>3. attempts' \in [Cases -> Seq(AttemptRow)]
    BY <1>9, <2>1, RowTyped, ObservedRow, AmendRow DEF CompleteCase, ObserveAttempt
  <2>4. caseStatus' \in [Cases -> CaseStatuses]
    BY <1>9 DEF CompleteCase, CaseStatuses
  <2> QED
    BY <1>9, <2>2, <2>3, <2>4 DEF CompleteCase
<1>10. CASE WorkFails(t, c)
  <2>1. work' \in [Tasks -> [Cases -> Worker]]
    BY <1>10, <1>0, StepMoves DEF WorkFails, WorkerPcs
  <2>2. faults' \in Nat
    BY <1>10 DEF WorkFails, Fault
  <2> QED
    BY <1>10, <2>1, <2>2 DEF WorkFails
<1>11. CASE RecordFailure(t, c)
  <2>1. work' \in [Tasks -> [Cases -> Worker]]
    BY <1>11, <1>0, StepMoves DEF RecordFailure, WorkerPcs
  <2>2. attempts' \in [Cases -> Seq(AttemptRow)]
    BY <1>11, <1>0, FailTyped DEF RecordFailure
  <2>3. caseStatus' \in [Cases -> CaseStatuses]
    BY <1>11 DEF RecordFailure, CaseStatuses
  <2>4. exec' \in [Tasks -> Task]
    BY <1>11, FailedTyped DEF RecordFailure
  <2>5. errors' \subseteq Cases \X Nat /\ faults' \in Nat
    BY <1>11, <1>0 DEF RecordFailure, Fault, NoFault
  <2> QED
    BY <1>11, <2>1, <2>2, <2>3, <2>4, <2>5 DEF RecordFailure
<1> QED
  BY <1>1, <1>2, <1>3, <1>4, <1>5, <1>6, <1>7, <1>8, <1>9, <1>10, <1>11
  DEF CaseStep

(* A crash, and the mark that somebody sets after one. *)
LEMMA ServerTypes ==
  ASSUME TypeOK, Crash \/ MarkInterrupted
  PROVE  TypeOK'
<1> USE DEF TypeOK, dbVars, envVars, procVars
<1>1. CASE Crash
  <2>1. handler' \in [Requests -> Handler]
    <3>1. \A r \in Requests : [handler[r] EXCEPT !.pc = "done"] \in Handler
      BY HandlerMoves
    <3> QED
      BY <1>1, <3>1 DEF Crash
  <2>2. exec' \in [Tasks -> Task]
    <3>1. \A u \in Tasks : [exec[u] EXCEPT !.pc = "done"] \in Task
      BY TaskStops
    <3> QED
      BY <1>1, <3>1 DEF Crash
  <2>3. work' \in [Tasks -> [Cases -> Worker]]
    BY <1>1 DEF Crash, NoWork, Worker, WorkerPcs
  <2>4. InFlight \subseteq Cases \X Nat
    BY DEF InFlight, Att, Worker
  <2>5. called' \subseteq Cases \X Nat
    BY <1>1, <2>4 DEF Crash
  <2>6. crashes' \in Nat /\ runLock' = NoOne
    BY <1>1 DEF Crash
  <2> QED
    BY <1>1, <2>1, <2>2, <2>3, <2>5, <2>6 DEF Crash
<1>2. CASE MarkInterrupted
  BY <1>2 DEF MarkInterrupted, RunStatuses
<1> QED
  BY <1>1, <1>2

(* Every step keeps the types, given that coroutines know their attempts.  *)
LEMMA NextTypes ==
  ASSUME TypeOK, KnownAttempts, [Next]_vars
  PROVE  TypeOK'
<1>1. CASE \E r \in Requests, kind \in Kinds : ReadRun(r, kind)
  BY <1>1, CommandTypes
<1>2. CASE \E r \in Requests : Answer(r)
  BY <1>2, CommandTypes
<1>3. CASE \E t \in Tasks : TaskStep(t)
  <2> PICK t \in Tasks : TaskStep(t)
    BY <1>3
  <2> QED
    BY TaskTypes, CaseTypes DEF TaskStep
<1>4. CASE Crash \/ MarkInterrupted
  BY <1>4, ServerTypes
<1>5. CASE UNCHANGED vars
  BY <1>5 DEF TypeOK, vars
<1> QED
  BY <1>1, <1>2, <1>3, <1>4, <1>5 DEF Next

-----------------------------------------------------------------------------
(* The ledger of attempts *)

(* No attempt is added, and no response or observation changes. *)
SameResults ==
  \A d \in Cases :
    /\ Len(attempts'[d]) = Len(attempts[d])
    /\ \A m \in 1..Len(attempts[d]) :
         /\ attempts'[d][m].raw = attempts[d][m].raw
         /\ attempts'[d][m].observed = attempts[d][m].observed

(* Where a coroutine may be after a step without touching the ledger. *)
Harmless(u, d) ==
  /\ work'[u][d].pc \notin {"call", "persist"}
  /\ work'[u][d].pc = "complete" =>
       /\ work'[u][d].att \in 1..Len(attempts[d])
       /\ <<d, work'[u][d].att>> \in called
  /\ work'[u][d].pc \in {"register", "open"} =>
       work'[u][d].att \in 1..(Len(attempts[d]) + 1)

LEMMA AttemptDomain ==
  ASSUME attempts \in [Cases -> Seq(AttemptRow)], NEW c \in Cases
  PROVE  DOMAIN attempts[c] = 1..Len(attempts[c]) /\ Len(attempts[c]) \in Nat
<1>1. attempts[c] \in Seq(AttemptRow)
  OBVIOUS
<1> QED
  BY <1>1

(* The steps that leave attempts and calls alone keep the ledger. *)
LEMMA LedgerFrame ==
  ASSUME TypeOK, TypeOK', LedgerInv, SameResults, UNCHANGED called,
         \A u \in Tasks, d \in Cases : work'[u][d] = work[u][d] \/ Harmless(u, d)
  PROVE  /\ KnownAttempts'
         /\ CalledAreAttempts'
         /\ OneOwner'
         /\ NothingStoredYet'
         /\ ResultsWereServed'
<1>1. KnownAttempts'
  BY DEF KnownAttempts, LedgerInv, SameResults, Harmless
<1>2. CalledAreAttempts'
  <2> SUFFICES ASSUME NEW request \in called
               PROVE  request[2] \in 1..Len(attempts'[request[1]])
    BY DEF CalledAreAttempts
  <2>1. request[1] \in Cases
    BY DEF TypeOK
  <2>2. request[2] \in 1..Len(attempts[request[1]])
    BY DEF LedgerInv, CalledAreAttempts
  <2> QED
    BY <2>1, <2>2 DEF SameResults
<1>3. OneOwner'
  BY DEF OneOwner, LedgerInv, Harmless
<1>4. NothingStoredYet'
  <2> SUFFICES ASSUME NEW u \in Tasks, NEW d \in Cases,
                      work'[u][d].pc \in {"call", "persist"}
               PROVE  /\ work'[u][d].pc = "call" => <<d, work'[u][d].att>> \notin called'
                      /\ attempts'[d][work'[u][d].att].raw = "none"
    BY DEF NothingStoredYet
  <2>1. work'[u][d] = work[u][d]
    BY DEF Harmless
  <2>2. work[u][d].att \in 1..Len(attempts[d])
    BY <2>1 DEF LedgerInv, KnownAttempts
  <2> QED
    BY <2>1, <2>2 DEF LedgerInv, NothingStoredYet, SameResults
<1>5. ResultsWereServed'
  BY DEF ResultsWereServed, LedgerInv, SameResults, Harmless
<1> QED
  BY <1>1, <1>2, <1>3, <1>4, <1>5

(* A case that is not completed by a step needs nothing new. *)
LEMMA ObservationsStay ==
  ASSUME TypeOK, TypeOK', CompleteIsObserved,
         \A d \in Cases : caseStatus'[d] = "COMPLETE" => caseStatus[d] = "COMPLETE",
         \A d \in Cases :
           /\ Len(attempts'[d]) >= Len(attempts[d])
           /\ \A m \in 1..Len(attempts[d]) :
                attempts[d][m].observed => attempts'[d][m].observed
  PROVE  CompleteIsObserved'
<1> SUFFICES ASSUME NEW d \in Cases, caseStatus'[d] = "COMPLETE"
             PROVE  Observed(d)'
  BY DEF CompleteIsObserved
<1>1. Observed(d)
  BY DEF CompleteIsObserved
<1>2. DOMAIN attempts[d] = 1..Len(attempts[d]) /\ Len(attempts[d]) \in Nat
  BY AttemptDomain DEF TypeOK
<1>3. attempts'[d] \in Seq(AttemptRow)
  BY DEF TypeOK
<1>4. DOMAIN attempts'[d] = 1..Len(attempts'[d]) /\ Len(attempts'[d]) \in Nat
  BY <1>3
<1> QED
  BY <1>1, <1>2, <1>4 DEF Observed

(* The commands keep the ledger. *)
LEMMA CommandLedger ==
  ASSUME TypeOK, TypeOK', LedgerInv, NEW r \in Requests,
         (\E kind \in Kinds : ReadRun(r, kind)) \/ Answer(r)
  PROVE  LedgerInv'
<1>1. UNCHANGED <<attempts, work, called>>
  BY DEF ReadRun, Answer, CommitPause, LockForCancel, CommitCancel, CommitRetry,
         CommitResume, OpenResume, RollBackResume, dbVars, envVars
<1>2. \A d \in Cases : caseStatus'[d] = "COMPLETE" => caseStatus[d] = "COMPLETE"
  BY DEF ReadRun, Answer, CommitPause, LockForCancel, CommitCancel, CommitRetry,
         CommitResume, OpenResume, RollBackResume, Rewrite, dbVars
<1>3. SameResults
  BY <1>1 DEF SameResults
<1>4. \A d \in Cases : Len(attempts[d]) \in Nat
  BY AttemptDomain DEF TypeOK
<1>5. CompleteIsObserved'
  BY <1>1, <1>2, <1>4, ObservationsStay DEF LedgerInv
<1> QED
  BY <1>1, <1>3, <1>5, LedgerFrame DEF LedgerInv

(* So do the steps of execute_run outside the worker pool. *)
LEMMA TaskLedger ==
  ASSUME TypeOK, TypeOK', LedgerInv, NEW t \in Tasks,
         \/ CheckRun(t) \/ ClaimRun(t) \/ SelectCases(t) \/ FinishRead(t)
         \/ FinishWrite(t) \/ AggregateRun(t) \/ TaskFails(t)
         \/ InspectFailedRun(t) \/ MarkRunFailed(t)
  PROVE  LedgerInv'
<1>1. UNCHANGED <<caseStatus, attempts, called>>
  BY DEF CheckRun, ClaimRun, SelectCases, FinishRead, FinishWrite, AggregateRun,
         TaskFails, InspectFailedRun, MarkRunFailed, dbVars, envVars
<1>2. \A u \in Tasks, d \in Cases : work'[u][d] = work[u][d] \/ Harmless(u, d)
  <2>1. CASE SelectCases(t)
    BY <2>1 DEF SelectCases, Harmless, TypeOK
  <2>2. CASE UNCHANGED work
    BY <2>2
  <2> QED
    BY <2>1, <2>2
    DEF CheckRun, ClaimRun, FinishRead, FinishWrite, AggregateRun, TaskFails,
        InspectFailedRun, MarkRunFailed
<1>3. SameResults
  BY <1>1 DEF SameResults
<1>4. \A d \in Cases : Len(attempts[d]) \in Nat
  BY AttemptDomain DEF TypeOK
<1>5. CompleteIsObserved'
  BY <1>1, <1>4, ObservationsStay DEF LedgerInv
<1> QED
  BY <1>1, <1>2, <1>3, <1>5, LedgerFrame DEF LedgerInv

(* After a crash only the ledger is left, and the calls in flight were of  *)
(* registered attempts.                                                    *)
LEMMA ServerLedger ==
  ASSUME TypeOK, TypeOK', LedgerInv, Crash \/ MarkInterrupted
  PROVE  LedgerInv'
<1>1. CASE Crash
  <2>1. UNCHANGED <<caseStatus, attempts>>
    BY <1>1 DEF Crash, dbVars
  <2>2. \A u \in Tasks, d \in Cases : work'[u][d].pc = "none"
    BY <1>1 DEF Crash, NoWork
  <2>3. /\ called \subseteq called'
        /\ called' \subseteq called \cup InFlight
    BY <1>1 DEF Crash
  <2>4. \A request \in InFlight : request[2] \in 1..Len(attempts[request[1]])
    BY DEF InFlight, Working, Att, LedgerInv, KnownAttempts
  <2>5. CalledAreAttempts'
    BY <2>1, <2>3, <2>4 DEF CalledAreAttempts, LedgerInv
  <2>6. KnownAttempts' /\ OneOwner' /\ NothingStoredYet'
    BY <2>2 DEF KnownAttempts, OneOwner, NothingStoredYet
  <2>7. ResultsWereServed'
    BY <2>1, <2>2, <2>3 DEF ResultsWereServed, LedgerInv
  <2>8. CompleteIsObserved'
    BY <2>1 DEF CompleteIsObserved, Observed, LedgerInv
  <2> QED
    BY <2>5, <2>6, <2>7, <2>8 DEF LedgerInv
<1>2. CASE MarkInterrupted
  <2>1. UNCHANGED <<caseStatus, attempts, work, called>>
    BY <1>2 DEF MarkInterrupted, procVars, envVars
  <2> QED
    BY <2>1 DEF LedgerInv, KnownAttempts, CalledAreAttempts, OneOwner,
                NothingStoredYet, ResultsWereServed, CompleteIsObserved, Observed
<1> QED
  BY <1>1, <1>2

(* A coroutine that goes to a harmless place keeps the ledger. *)
LEMMA HarmlessMove ==
  ASSUME TypeOK, TypeOK', LedgerInv, SameResults, UNCHANGED called,
         NEW t \in Tasks, NEW c \in Cases, NEW pc \in WorkerPcs, NEW att \in Nat,
         Step(t, c, pc, att),
         pc \notin {"call", "persist"},
         pc = "complete" => att \in 1..Len(attempts[c]) /\ <<c, att>> \in called,
         pc \in {"register", "open"} => att \in 1..(Len(attempts[c]) + 1),
         \A d \in Cases : caseStatus'[d] = "COMPLETE" => caseStatus[d] = "COMPLETE"
  PROVE  LedgerInv'
<1>1. /\ work'[t][c].pc = pc
      /\ work'[t][c].att = att
      /\ \A u \in Tasks, d \in Cases : u # t \/ d # c => work'[u][d] = work[u][d]
  BY StepMoves DEF TypeOK
<1>2. \A u \in Tasks, d \in Cases : work'[u][d] = work[u][d] \/ Harmless(u, d)
  BY <1>1 DEF Harmless
<1>3. \A d \in Cases : Len(attempts[d]) \in Nat
  BY AttemptDomain DEF TypeOK
<1>4. CompleteIsObserved'
  BY <1>3, ObservationsStay DEF LedgerInv, SameResults
<1> QED
  BY <1>2, <1>4, LedgerFrame DEF LedgerInv

(* What a worker decides to complete without a call has been served. *)
LEMMA DecideLedger ==
  ASSUME TypeOK, TypeOK', LedgerInv, NEW t \in Tasks, NEW c \in Cases,
         DecideCase(t, c)
  PROVE  LedgerInv'
<1> DEFINE latest == Len(attempts[c])
<1>1. UNCHANGED <<caseStatus, attempts, called>>
  BY DEF DecideCase, dbVars
<1>2. SameResults /\ latest \in Nat
  BY <1>1, AttemptDomain DEF SameResults, TypeOK
<1>3. PICK readable, stale \in BOOLEAN :
        LET action == DecideRecovery(caseStatus[c],
                                     LatestEvidence(c, readable, stale), Caps)
        IN \/ Step(t, c, "done", 0)
           \/ /\ \/ action \in {"REUSE_OBSERVATION", "RENORMALIZE_RAW"}
                 \/ /\ action = "RECOVER_REQUEST"
                    /\ RecoverableFromTarget(c, latest)
              /\ Step(t, c, "complete", latest)
           \/ Step(t, c, "reset", 0)
  BY DEF DecideCase
<1> DEFINE evidence == LatestEvidence(c, readable, stale)
           action == DecideRecovery(caseStatus[c], evidence, Caps)
<1>4. CASE Step(t, c, "done", 0)
  BY <1>1, <1>2, <1>4, HarmlessMove DEF WorkerPcs
<1>5. CASE Step(t, c, "reset", 0)
  BY <1>1, <1>2, <1>5, HarmlessMove DEF WorkerPcs
<1>6. CASE /\ \/ action \in {"REUSE_OBSERVATION", "RENORMALIZE_RAW"}
              \/ action = "RECOVER_REQUEST" /\ RecoverableFromTarget(c, latest)
           /\ Step(t, c, "complete", latest)
  <2>1. evidence.exists <=> latest > 0
    BY DEF LatestEvidence
  <2>2. action \in {"REUSE_OBSERVATION", "RENORMALIZE_RAW"} =>
          evidence.exists /\ (evidence.observed \/ evidence.renormalizes)
    BY DEF DecideRecovery, UncertainAction, FallbackAction
  <2>3. action = "RECOVER_REQUEST" => evidence.exists
    BY DEF DecideRecovery, UncertainAction, FallbackAction
  <2>4. latest \in 1..latest
    BY <1>2, <1>6, <2>1, <2>2, <2>3
  <2>5. evidence.observed => attempts[c][latest].observed
    BY DEF LatestEvidence
  <2>6. evidence.renormalizes => attempts[c][latest].raw = "good"
    BY DEF LatestEvidence
  <2>7. <<c, latest>> \in called
    <3>1. CASE action \in {"REUSE_OBSERVATION", "RENORMALIZE_RAW"}
      BY <2>2, <2>4, <2>5, <2>6, <3>1 DEF LedgerInv, ResultsWereServed
    <3>2. CASE RecoverableFromTarget(c, latest)
      BY <3>2 DEF RecoverableFromTarget
    <3> QED
      BY <1>6, <3>1, <3>2
  <2> QED
    BY <1>1, <1>2, <1>6, <2>4, <2>7, HarmlessMove DEF WorkerPcs
<1> QED
  BY <1>3, <1>4, <1>5, <1>6

(* The steps before the attempt is open touch no result. *)
LEMMA PrepareLedger ==
  ASSUME TypeOK, TypeOK', LedgerInv, NEW t \in Tasks, NEW c \in Cases,
         \/ InspectForReset(t, c) \/ ResetCase(t, c) \/ NumberAttempt(t, c)
         \/ InspectForRegister(t, c) \/ WorkFails(t, c)
  PROVE  LedgerInv'
<1>1. UNCHANGED <<attempts, called>>
  BY DEF InspectForReset, ResetCase, NumberAttempt, InspectForRegister, WorkFails,
         dbVars, envVars
<1>2. SameResults /\ Len(attempts[c]) \in Nat
  BY <1>1, AttemptDomain DEF SameResults, TypeOK
<1>3. Att(t, c) \in Nat
  BY DEF Att, TypeOK, Worker
<1>4. \A d \in Cases : caseStatus'[d] = "COMPLETE" => caseStatus[d] = "COMPLETE"
  BY DEF InspectForReset, ResetCase, NumberAttempt, InspectForRegister, WorkFails,
         dbVars, TypeOK
<1>5. CASE InspectForReset(t, c)
  <2>1. Step(t, c, "number", 0) \/ Step(t, c, "rewind", 0)
    BY <1>5 DEF InspectForReset
  <2> QED
    BY <1>1, <1>2, <1>4, <2>1, HarmlessMove DEF WorkerPcs
<1>6. CASE ResetCase(t, c)
  <2>1. Step(t, c, "number", 0)
    BY <1>6 DEF ResetCase
  <2> QED
    BY <1>1, <1>2, <1>4, <2>1, HarmlessMove DEF WorkerPcs
<1>7. CASE NumberAttempt(t, c)
  <2>1. Step(t, c, "register", Len(attempts[c]) + 1)
    BY <1>7 DEF NumberAttempt
  <2>2. Len(attempts[c]) + 1 \in 1..(Len(attempts[c]) + 1)
    BY <1>2
  <2> QED
    BY <1>1, <1>2, <1>4, <2>1, <2>2, HarmlessMove DEF WorkerPcs
<1>8. CASE InspectForRegister(t, c)
  <2>1. Step(t, c, "open", Att(t, c)) \/ Step(t, c, "done", Att(t, c))
    BY <1>8 DEF InspectForRegister
  <2>2. Att(t, c) \in 1..(Len(attempts[c]) + 1)
    BY <1>8 DEF InspectForRegister, Working, Att, LedgerInv, KnownAttempts
  <2> QED
    BY <1>1, <1>2, <1>3, <1>4, <2>1, <2>2, HarmlessMove DEF WorkerPcs
<1>9. CASE WorkFails(t, c)
  <2>1. Step(t, c, "fail", Att(t, c))
    BY <1>9 DEF WorkFails
  <2> QED
    BY <1>1, <1>2, <1>3, <1>4, <2>1, HarmlessMove DEF WorkerPcs
<1> QED
  BY <1>5, <1>6, <1>7, <1>8, <1>9

(* A new attempt has no response, is unknown to the target and belongs to  *)
(* the one coroutine that opened it.                                       *)
LEMMA RegisterLedger ==
  ASSUME TypeOK, TypeOK', LedgerInv, NEW t \in Tasks, NEW c \in Cases,
         RegisterAttempt(t, c)
  PROVE  LedgerInv'
<1> DEFINE n == Att(t, c)
<1>1. /\ n \in 1..(Len(attempts[c]) + 1)
      /\ UNCHANGED called
  BY DEF RegisterAttempt, Working, Att, LedgerInv, KnownAttempts, envVars
<1>2. \A d \in Cases : Len(attempts[d]) \in Nat
  BY AttemptDomain DEF TypeOK
<1>3. CASE Step(t, c, "fail", n) /\ UNCHANGED <<caseStatus, attempts>>
  <2>1. SameResults /\ n \in Nat
    BY <1>1, <1>3 DEF SameResults
  <2> QED
    BY <1>1, <1>3, <2>1, HarmlessMove DEF WorkerPcs
<1>4. CASE /\ ~Collides(c, n)
           /\ caseStatus' = [caseStatus EXCEPT ![c] = "RUNNING"]
           /\ attempts' = [attempts EXCEPT ![c] = Append(@, NewAttempt)]
           /\ Step(t, c, "call", n)
  <2>1. n = Len(attempts[c]) + 1
    BY <1>1, <1>2, <1>4 DEF Collides
  <2>2. /\ \A d \in Cases \ {c} : attempts'[d] = attempts[d]
        /\ Len(attempts'[c]) = n
        /\ attempts'[c][n] = NewAttempt
        /\ \A m \in 1..Len(attempts[c]) : attempts'[c][m] = attempts[c][m]
    BY <1>4, <2>1, AppendRow DEF TypeOK, NewAttempt, AttemptRow
  <2>3. /\ work'[t][c].pc = "call"
        /\ work'[t][c].att = n
        /\ \A u \in Tasks, d \in Cases : u # t \/ d # c => work'[u][d] = work[u][d]
    BY <1>1, <1>2, <1>4, StepMoves DEF TypeOK, WorkerPcs
  <2>4. KnownAttempts'
    <3> SUFFICES ASSUME NEW u \in Tasks, NEW d \in Cases
                 PROVE  /\ work'[u][d].pc \in {"call", "persist", "complete"} =>
                             work'[u][d].att \in 1..Len(attempts'[d])
                        /\ work'[u][d].pc \in {"register", "open"} =>
                             work'[u][d].att \in 1..(Len(attempts'[d]) + 1)
      BY DEF KnownAttempts
    <3>1. CASE u = t /\ d = c
      BY <1>2, <2>1, <2>2, <2>3, <3>1
    <3>2. CASE (u # t \/ d # c) /\ d = c
      BY <1>2, <2>1, <2>2, <2>3, <3>2 DEF LedgerInv, KnownAttempts
    <3>3. CASE d # c
      BY <2>2, <2>3, <3>3 DEF LedgerInv, KnownAttempts
    <3> QED
      BY <3>1, <3>2, <3>3
  <2>5. CalledAreAttempts'
    <3> SUFFICES ASSUME NEW request \in called
                 PROVE  request[2] \in 1..Len(attempts'[request[1]])
      BY <1>1 DEF CalledAreAttempts
    <3>1. request[1] \in Cases /\ request[2] \in 1..Len(attempts[request[1]])
      BY DEF TypeOK, LedgerInv, CalledAreAttempts
    <3> QED
      BY <1>2, <2>1, <2>2, <3>1
  <2>6. <<c, n>> \notin called
    BY <1>2, <2>1 DEF LedgerInv, CalledAreAttempts
  <2>7. \A u \in Tasks : work[u][c].pc \in {"call", "persist"} => work[u][c].att # n
    BY <1>2, <2>1 DEF LedgerInv, KnownAttempts
  <2>8. OneOwner'
    BY <2>3, <2>7 DEF OneOwner, LedgerInv
  <2>9. NothingStoredYet'
    <3> SUFFICES ASSUME NEW u \in Tasks, NEW d \in Cases,
                        work'[u][d].pc \in {"call", "persist"}
                 PROVE  /\ work'[u][d].pc = "call" => <<d, work'[u][d].att>> \notin called'
                        /\ attempts'[d][work'[u][d].att].raw = "none"
      BY DEF NothingStoredYet
    <3>1. CASE u = t /\ d = c
      BY <1>1, <2>2, <2>3, <2>6, <3>1 DEF NewAttempt
    <3>2. CASE u # t \/ d # c
      <4>1. work[u][d].att \in 1..Len(attempts[d])
        BY <2>3, <3>2 DEF LedgerInv, KnownAttempts
      <4>2. attempts'[d][work[u][d].att] = attempts[d][work[u][d].att]
        BY <2>2, <4>1
      <4> QED
        BY <1>1, <2>3, <3>2, <4>2 DEF LedgerInv, NothingStoredYet
    <3> QED
      BY <3>1, <3>2
  <2>10. ResultsWereServed'
    <3>1. \A u \in Tasks, d \in Cases :
            work'[u][d].pc \in {"persist", "complete"} =>
              <<d, work'[u][d].att>> \in called'
      BY <1>1, <2>3 DEF LedgerInv, ResultsWereServed
    <3>2. ASSUME NEW d \in Cases, NEW m \in 1..Len(attempts'[d]),
                 attempts'[d][m].raw # "none" \/ attempts'[d][m].observed
          PROVE  <<d, m>> \in called'
      <4>1. m \in 1..Len(attempts[d])
        BY <1>2, <2>1, <2>2, <3>2 DEF NewAttempt
      <4>2. attempts'[d][m] = attempts[d][m]
        BY <2>2, <4>1
      <4> QED
        BY <1>1, <3>2, <4>1, <4>2 DEF LedgerInv, ResultsWereServed
    <3> QED
      BY <3>1, <3>2 DEF ResultsWereServed
  <2>11. CompleteIsObserved'
    <3>1. \A d \in Cases : caseStatus'[d] = "COMPLETE" => caseStatus[d] = "COMPLETE"
      BY <1>4 DEF TypeOK
    <3>2. \A d \in Cases :
            /\ Len(attempts'[d]) >= Len(attempts[d])
            /\ \A m \in 1..Len(attempts[d]) :
                 attempts[d][m].observed => attempts'[d][m].observed
      BY <1>2, <2>1, <2>2
    <3> QED
      BY <3>1, <3>2, ObservationsStay DEF LedgerInv
  <2> QED
    BY <2>4, <2>5, <2>8, <2>9, <2>10, <2>11 DEF LedgerInv
<1> QED
  BY <1>3, <1>4 DEF RegisterAttempt

(* A call is made once: the caller leaves the call for good, and nobody    *)
(* else owns the attempt.                                                  *)
LEMMA CallLedger ==
  ASSUME TypeOK, TypeOK', LedgerInv, NEW t \in Tasks, NEW c \in Cases,
         CallTarget(t, c)
  PROVE  LedgerInv'
<1> DEFINE n == Att(t, c)
<1>1. /\ work[t][c].pc = "call"
      /\ n = work[t][c].att
      /\ n \in 1..Len(attempts[c])
      /\ n \in Nat
      /\ UNCHANGED <<caseStatus, attempts>>
      /\ called \subseteq called'
      /\ called' \subseteq called \cup {<<c, n>>}
  BY DEF CallTarget, Working, Att, LedgerInv, KnownAttempts, TypeOK, Worker, dbVars
<1>2. PICK pc \in {"persist", "fail"} :
        /\ Step(t, c, pc, n)
        /\ pc = "persist" => <<c, n>> \in called'
  BY DEF CallTarget
<1>3. /\ work'[t][c].pc = pc
      /\ work'[t][c].att = n
      /\ \A u \in Tasks, d \in Cases : u # t \/ d # c => work'[u][d] = work[u][d]
  <2>1. work \in [Tasks -> [Cases -> Worker]]
    BY DEF TypeOK
  <2>2. pc \in WorkerPcs
    BY DEF WorkerPcs
  <2>3. n \in Nat /\ Step(t, c, pc, n)
    BY <1>1, <1>2
  <2> HIDE DEF n
  <2> QED
    BY <2>1, <2>2, <2>3, StepMoves
<1>4. KnownAttempts'
  BY <1>1, <1>2, <1>3 DEF KnownAttempts, LedgerInv
<1>5. CalledAreAttempts'
  BY <1>1 DEF CalledAreAttempts, LedgerInv
<1>6. OneOwner'
  BY <1>1, <1>2, <1>3 DEF OneOwner, LedgerInv
<1>7. NothingStoredYet'
  <2> SUFFICES ASSUME NEW u \in Tasks, NEW d \in Cases,
                      work'[u][d].pc \in {"call", "persist"}
               PROVE  /\ work'[u][d].pc = "call" => <<d, work'[u][d].att>> \notin called'
                      /\ attempts'[d][work'[u][d].att].raw = "none"
    BY DEF NothingStoredYet
  <2>1. CASE u = t /\ d = c
    BY <1>1, <1>2, <1>3, <2>1 DEF LedgerInv, NothingStoredYet
  <2>2. CASE u # t \/ d # c
    <3>1. work'[u][d] = work[u][d]
      BY <1>3, <2>2
    <3>2. <<d, work[u][d].att>> # <<c, n>>
      BY <1>1, <2>2, <3>1 DEF LedgerInv, OneOwner
    <3> QED
      BY <1>1, <3>1, <3>2 DEF LedgerInv, NothingStoredYet
  <2> QED
    BY <2>1, <2>2
<1>8. ResultsWereServed'
  BY <1>1, <1>2, <1>3 DEF ResultsWereServed, LedgerInv
<1>9. CompleteIsObserved'
  BY <1>1 DEF CompleteIsObserved, Observed, LedgerInv
<1> QED
  BY <1>4, <1>5, <1>6, <1>7, <1>8, <1>9 DEF LedgerInv

(* The owner of a call stores its response once, and gives the attempt up. *)
LEMMA PersistLedger ==
  ASSUME TypeOK, TypeOK', LedgerInv, NEW t \in Tasks, NEW c \in Cases,
         PersistResponse(t, c)
  PROVE  LedgerInv'
<1> DEFINE n == Att(t, c)
<1>1. /\ work[t][c].pc = "persist"
      /\ n = work[t][c].att
      /\ n \in 1..Len(attempts[c])
      /\ n \in Nat
      /\ <<c, n>> \in called
      /\ UNCHANGED <<caseStatus, called>>
  BY DEF PersistResponse, Working, Att, LedgerInv, KnownAttempts, ResultsWereServed,
         TypeOK, Worker
<1>2. PICK pc \in {"complete", "fail"}, raw \in {"good", "bad"} :
        /\ Amend(c, n, [attempts[c][n] EXCEPT !.raw = raw])
        /\ Step(t, c, pc, n)
  <2>1. CASE /\ Amend(c, n, [attempts[c][n] EXCEPT !.raw = "good"])
             /\ Step(t, c, "complete", n)
    BY <2>1
  <2>2. CASE /\ Amend(c, n, [attempts[c][n] EXCEPT !.raw = "bad"])
             /\ Step(t, c, "fail", n)
    BY <2>2
  <2> QED
    BY <2>1, <2>2 DEF PersistResponse
<1>3. /\ work'[t][c].pc = pc
      /\ work'[t][c].att = n
      /\ \A u \in Tasks, d \in Cases : u # t \/ d # c => work'[u][d] = work[u][d]
  <2>1. work \in [Tasks -> [Cases -> Worker]]
    BY DEF TypeOK
  <2>2. pc \in WorkerPcs
    BY DEF WorkerPcs
  <2>3. n \in Nat /\ Step(t, c, pc, n)
    BY <1>1, <1>2
  <2> HIDE DEF n
  <2> QED
    BY <2>1, <2>2, <2>3, StepMoves
<1> DEFINE row == [attempts[c][n] EXCEPT !.raw = raw]
<1>4. /\ row \in AttemptRow
      /\ row.observed = attempts[c][n].observed
  <2>1. attempts[c][n] \in AttemptRow
    BY <1>1, RowTyped DEF TypeOK
  <2> QED
    BY <2>1, StoredRow
<1>5. Amend(c, n, row)
  BY <1>2
<1> HIDE DEF row
<1>6. /\ \A d \in Cases : Len(attempts'[d]) = Len(attempts[d])
      /\ attempts'[c][n] = row
      /\ \A d \in Cases : \A m \in 1..Len(attempts[d]) :
           d # c \/ m # n => attempts'[d][m] = attempts[d][m]
  BY <1>1, <1>4, <1>5, AmendRow DEF TypeOK
<1>7. KnownAttempts'
  <2> SUFFICES ASSUME NEW u \in Tasks, NEW d \in Cases
               PROVE  /\ work'[u][d].pc \in {"call", "persist", "complete"} =>
                           work'[u][d].att \in 1..Len(attempts'[d])
                      /\ work'[u][d].pc \in {"register", "open"} =>
                           work'[u][d].att \in 1..(Len(attempts'[d]) + 1)
    BY DEF KnownAttempts
  <2>1. CASE u = t /\ d = c
    BY <1>1, <1>2, <1>3, <1>6, <2>1
  <2>2. CASE u # t \/ d # c
    BY <1>3, <1>6, <2>2 DEF LedgerInv, KnownAttempts
  <2> QED
    BY <2>1, <2>2
<1>8. CalledAreAttempts'
  <2> SUFFICES ASSUME NEW request \in called
               PROVE  request[2] \in 1..Len(attempts'[request[1]])
    BY <1>1 DEF CalledAreAttempts
  <2>1. request[1] \in Cases /\ request[2] \in 1..Len(attempts[request[1]])
    BY DEF TypeOK, LedgerInv, CalledAreAttempts
  <2> QED
    BY <1>6, <2>1
<1>9. OneOwner'
  BY <1>1, <1>2, <1>3 DEF OneOwner, LedgerInv
<1>10. NothingStoredYet'
  <2> SUFFICES ASSUME NEW u \in Tasks, NEW d \in Cases,
                      work'[u][d].pc \in {"call", "persist"}
               PROVE  /\ work'[u][d].pc = "call" => <<d, work'[u][d].att>> \notin called'
                      /\ attempts'[d][work'[u][d].att].raw = "none"
    BY DEF NothingStoredYet
  <2>1. work'[u][d] = work[u][d] /\ (u # t \/ d # c)
    BY <1>2, <1>3
  <2>2. work[u][d].att \in 1..Len(attempts[d])
    BY <2>1 DEF LedgerInv, KnownAttempts
  <2>3. d # c \/ work[u][d].att # n
    BY <1>1, <2>1 DEF LedgerInv, OneOwner
  <2> QED
    BY <1>1, <1>6, <2>1, <2>2, <2>3 DEF LedgerInv, NothingStoredYet
<1>11. ResultsWereServed'
  <2>1. \A u \in Tasks, d \in Cases :
          work'[u][d].pc \in {"persist", "complete"} => <<d, work'[u][d].att>> \in called'
    BY <1>1, <1>3 DEF LedgerInv, ResultsWereServed
  <2>2. ASSUME NEW d \in Cases, NEW m \in 1..Len(attempts'[d]),
               attempts'[d][m].raw # "none" \/ attempts'[d][m].observed
        PROVE  <<d, m>> \in called'
    <3>1. CASE d = c /\ m = n
      BY <1>1, <3>1
    <3>2. CASE d # c \/ m # n
      BY <1>1, <1>6, <2>2, <3>2 DEF LedgerInv, ResultsWereServed
    <3> QED
      BY <3>1, <3>2
  <2> QED
    BY <2>1, <2>2 DEF ResultsWereServed
<1>12. CompleteIsObserved'
  <2>1. \A d \in Cases : Len(attempts[d]) \in Nat
    BY AttemptDomain DEF TypeOK
  <2>2. \A d \in Cases : \A m \in 1..Len(attempts[d]) :
          attempts[d][m].observed => attempts'[d][m].observed
    BY <1>4, <1>6
  <2> QED
    BY <1>1, <1>6, <2>1, <2>2, ObservationsStay DEF LedgerInv
<1> QED
  BY <1>7, <1>8, <1>9, <1>10, <1>11, <1>12 DEF LedgerInv

(* A case is completed together with the observation of its attempt. *)
LEMMA CompleteLedger ==
  ASSUME TypeOK, TypeOK', LedgerInv, NEW t \in Tasks, NEW c \in Cases,
         CompleteCase(t, c)
  PROVE  LedgerInv'
<1> DEFINE n == Att(t, c)
           row == [attempts[c][n] EXCEPT !.observed = TRUE,
                                         !.status = "RESPONSE_RECEIVED"]
<1>1. /\ n = work[t][c].att
      /\ n \in 1..Len(attempts[c])
      /\ n \in Nat
      /\ <<c, n>> \in called
      /\ UNCHANGED called
      /\ Step(t, c, "done", n)
  BY DEF CompleteCase, Working, Att, LedgerInv, KnownAttempts, ResultsWereServed,
         TypeOK, Worker, envVars
<1>2. /\ work'[t][c].pc = "done"
      /\ \A u \in Tasks, d \in Cases : u # t \/ d # c => work'[u][d] = work[u][d]
  BY <1>1, StepMoves DEF TypeOK, WorkerPcs
<1>3. /\ row \in AttemptRow
      /\ row.observed = TRUE
      /\ row.raw = attempts[c][n].raw
  <2>1. attempts[c][n] \in AttemptRow
    BY <1>1, RowTyped DEF TypeOK
  <2> QED
    BY <2>1, ObservedRow
<1>4. Amend(c, n, row)
  BY DEF CompleteCase, ObserveAttempt
<1> HIDE DEF row
<1>5. /\ \A d \in Cases : Len(attempts'[d]) = Len(attempts[d])
      /\ attempts'[c][n] = row
      /\ \A d \in Cases : \A m \in 1..Len(attempts[d]) :
           d # c \/ m # n => attempts'[d][m] = attempts[d][m]
  BY <1>1, <1>3, <1>4, AmendRow DEF TypeOK
<1>6. KnownAttempts'
  BY <1>2, <1>5 DEF KnownAttempts, LedgerInv
<1>7. CalledAreAttempts'
  <2> SUFFICES ASSUME NEW request \in called
               PROVE  request[2] \in 1..Len(attempts'[request[1]])
    BY <1>1 DEF CalledAreAttempts
  <2>1. request[1] \in Cases /\ request[2] \in 1..Len(attempts[request[1]])
    BY DEF TypeOK, LedgerInv, CalledAreAttempts
  <2> QED
    BY <1>5, <2>1
<1>8. OneOwner'
  BY <1>2 DEF OneOwner, LedgerInv
<1>9. NothingStoredYet'
  <2> SUFFICES ASSUME NEW u \in Tasks, NEW d \in Cases,
                      work'[u][d].pc \in {"call", "persist"}
               PROVE  /\ work'[u][d].pc = "call" => <<d, work'[u][d].att>> \notin called'
                      /\ attempts'[d][work'[u][d].att].raw = "none"
    BY DEF NothingStoredYet
  <2>1. work'[u][d] = work[u][d]
    BY <1>2
  <2>2. work[u][d].att \in 1..Len(attempts[d])
    BY <2>1 DEF LedgerInv, KnownAttempts
  <2>3. attempts'[d][work[u][d].att].raw = attempts[d][work[u][d].att].raw
    BY <1>3, <1>5, <2>2
  <2> QED
    BY <1>1, <2>1, <2>3 DEF LedgerInv, NothingStoredYet
<1>10. ResultsWereServed'
  <2>1. \A u \in Tasks, d \in Cases :
          work'[u][d].pc \in {"persist", "complete"} => <<d, work'[u][d].att>> \in called'
    BY <1>1, <1>2 DEF LedgerInv, ResultsWereServed
  <2>2. ASSUME NEW d \in Cases, NEW m \in 1..Len(attempts'[d]),
               attempts'[d][m].raw # "none" \/ attempts'[d][m].observed
        PROVE  <<d, m>> \in called'
    <3>1. CASE d = c /\ m = n
      BY <1>1, <3>1
    <3>2. CASE d # c \/ m # n
      BY <1>1, <1>5, <2>2, <3>2 DEF LedgerInv, ResultsWereServed
    <3> QED
      BY <3>1, <3>2
  <2> QED
    BY <2>1, <2>2 DEF ResultsWereServed
<1>11. CompleteIsObserved'
  <2>0. ASSUME NEW d \in Cases
        PROVE  DOMAIN attempts'[d] = 1..Len(attempts'[d])
    <3>1. attempts'[d] \in Seq(AttemptRow)
      BY DEF TypeOK
    <3> QED
      BY <3>1
  <2> SUFFICES ASSUME NEW d \in Cases, caseStatus'[d] = "COMPLETE"
               PROVE  \E m \in 1..Len(attempts'[d]) : attempts'[d][m].observed
    BY <2>0 DEF CompleteIsObserved, Observed
  <2>1. CASE d = c
    BY <1>1, <1>3, <1>5, <2>1
  <2>2. CASE d # c
    <3>1. caseStatus[d] = "COMPLETE"
      BY <2>2 DEF CompleteCase, TypeOK
    <3>2. PICK m \in 1..Len(attempts[d]) : attempts[d][m].observed
      BY <3>1, AttemptDomain DEF LedgerInv, CompleteIsObserved, Observed, TypeOK
    <3> QED
      BY <1>5, <2>2, <3>2
  <2> QED
    BY <2>1, <2>2
<1> QED
  BY <1>6, <1>7, <1>8, <1>9, <1>10, <1>11 DEF LedgerInv

(* A failure changes states only. *)
LEMMA FailureLedger ==
  ASSUME TypeOK, TypeOK', LedgerInv, NEW t \in Tasks, NEW c \in Cases,
         RecordFailure(t, c)
  PROVE  LedgerInv'
<1>1. Att(t, c) \in Nat
  BY DEF Att, TypeOK, Worker
<1>2. UNCHANGED attempts \/ FailAttempt(c, Att(t, c))
  BY DEF RecordFailure
<1>3. SameResults
  BY <1>1, <1>2, FailTyped DEF SameResults, TypeOK
<1>4. \A d \in Cases : caseStatus'[d] = "COMPLETE" => caseStatus[d] = "COMPLETE"
  BY DEF RecordFailure, TypeOK
<1>5. Step(t, c, "done", Att(t, c)) /\ UNCHANGED called
  BY DEF RecordFailure
<1> QED
  BY <1>1, <1>3, <1>4, <1>5, HarmlessMove DEF WorkerPcs

-----------------------------------------------------------------------------
(* The invariant *)

Inv == TypeOK /\ LedgerInv

LEMMA InitInv == Init => Inv
<1> SUFFICES ASSUME Init PROVE Inv
  OBVIOUS
<1>1. TypeOK
  <2>1. handler \in [Requests -> Handler]
    BY DEF Init, Handler, AllKinds, RunStatuses
  <2>2. exec \in [Tasks -> Task]
    BY DEF Init, NoTask, Task, RunStatuses
  <2>3. work \in [Tasks -> [Cases -> Worker]]
    BY DEF Init, NoWork, Worker, WorkerPcs
  <2> QED
    BY <2>1, <2>2, <2>3 DEF Init, TypeOK, RunStatuses, CaseStatuses
<1>2. LedgerInv
  <2>1. \A t \in Tasks, c \in Cases : work[t][c].pc = "none"
    BY DEF Init, NoWork
  <2>2. \A c \in Cases : Len(attempts[c]) = 0 /\ caseStatus[c] # "COMPLETE"
    BY DEF Init
  <2>3. called = {}
    BY DEF Init
  <2> QED
    BY <2>1, <2>2, <2>3
    DEF LedgerInv, KnownAttempts, CalledAreAttempts, OneOwner, NothingStoredYet,
        ResultsWereServed, CompleteIsObserved
<1> QED
  BY <1>1, <1>2 DEF Inv

LEMMA NextInv == Inv /\ [Next]_vars => Inv'
<1> SUFFICES ASSUME Inv, [Next]_vars PROVE Inv'
  OBVIOUS
<1>1. TypeOK /\ LedgerInv /\ KnownAttempts
  BY DEF Inv, LedgerInv
<1>2. TypeOK'
  BY <1>1, NextTypes
<1>3. LedgerInv'
  <2>1. CASE \E r \in Requests, kind \in Kinds : ReadRun(r, kind)
    BY <1>1, <1>2, <2>1, CommandLedger
  <2>2. CASE \E r \in Requests : Answer(r)
    BY <1>1, <1>2, <2>2, CommandLedger
  <2>3. CASE \E t \in Tasks : TaskStep(t)
    <3> PICK t \in Tasks : TaskStep(t)
      BY <2>3
    <3>1. CASE \E c \in Cases : CaseStep(t, c)
      <4> PICK c \in Cases : CaseStep(t, c)
        BY <3>1
      <4> QED
        BY <1>1, <1>2, DecideLedger, PrepareLedger, RegisterLedger, CallLedger,
           PersistLedger, CompleteLedger, FailureLedger
        DEF CaseStep
    <3> QED
      BY <1>1, <1>2, <3>1, TaskLedger DEF TaskStep
  <2>4. CASE Crash \/ MarkInterrupted
    BY <1>1, <1>2, <2>4, ServerLedger
  <2>5. CASE UNCHANGED vars
    BY <1>1, <2>5
    DEF vars, LedgerInv, KnownAttempts, CalledAreAttempts, OneOwner, NothingStoredYet,
        ResultsWereServed, CompleteIsObserved, Observed
  <2> QED
    BY <2>1, <2>2, <2>3, <2>4, <2>5 DEF Next
<1> QED
  BY <1>2, <1>3 DEF Inv

LEMMA Invariance == Spec => []Inv
BY InitInv, NextInv, PTL DEF Spec

-----------------------------------------------------------------------------
(* The results *)

(* Every variable keeps its type, and in particular no coroutine addresses *)
(* an attempt that does not exist.                                         *)
THEOREM TypeCorrect == Spec => []TypeOK
<1>1. Inv => TypeOK
  BY DEF Inv
<1> QED
  BY <1>1, Invariance, PTL

(* The ledger invariant of the module that the runs check.                 *)
THEOREM LedgerCorrect == Spec => []LedgerInv
<1>1. Inv => LedgerInv
  BY DEF Inv
<1> QED
  BY <1>1, Invariance, PTL

(* A COMPLETE case has a stored observation (_complete_case_execution).    *)
THEOREM CompletionCorrect == Spec => []CompleteIsObserved
<1>1. Inv => CompleteIsObserved
  BY DEF Inv, LedgerInv
<1> QED
  BY <1>1, Invariance, PTL

(* No request reaches the target twice, however many pools there are.      *)
THEOREM CallsCorrect == Spec => []CalledAtMostOnce
<1>1. Inv => CalledAtMostOnce
  <2> SUFFICES ASSUME Inv, NEW t \in Tasks, NEW c \in Cases, work[t][c].pc = "call"
               PROVE  /\ <<c, Att(t, c)>> \notin called
                      /\ \A u \in Tasks \ {t} :
                           work[u][c].pc \in {"call", "persist"} => Att(u, c) # Att(t, c)
    BY DEF CalledAtMostOnce
  <2> QED
    BY DEF Inv, LedgerInv, NothingStoredYet, OneOwner, Att
<1> QED
  BY <1>1, Invariance, PTL

(* Every observation was served by the target, recovered ones included.    *)
THEOREM ObservationsCorrect == Spec => []ObservedWasCalled
<1>1. Inv => ObservedWasCalled
  <2> SUFFICES ASSUME Inv, NEW c \in Cases, NEW n \in DOMAIN attempts[c],
                      attempts[c][n].observed
               PROVE  <<c, n>> \in called
    BY DEF ObservedWasCalled
  <2>1. n \in 1..Len(attempts[c])
    BY AttemptDomain DEF Inv, TypeOK
  <2> QED
    BY <2>1 DEF Inv, LedgerInv, ResultsWereServed
<1> QED
  BY <1>1, Invariance, PTL

-----------------------------------------------------------------------------
(* The history of a case *)

(* What execute_run does outside the worker pool. *)
RunSteps(t) ==
  \/ CheckRun(t) \/ ClaimRun(t) \/ SelectCases(t) \/ FinishRead(t)
  \/ FinishWrite(t) \/ AggregateRun(t) \/ TaskFails(t)
  \/ InspectFailedRun(t) \/ MarkRunFailed(t)

(* Only four steps of a case touch the attempts. *)
LEMMA AttemptWriters ==
  ASSUME [Next]_vars, attempts' # attempts
  PROVE  \E t \in Tasks, c \in Cases :
           RegisterAttempt(t, c) \/ PersistResponse(t, c) \/ CompleteCase(t, c)
             \/ RecordFailure(t, c)
<1>1. ~ UNCHANGED vars /\ ~ Crash /\ ~ MarkInterrupted
  BY DEF vars, Crash, MarkInterrupted, dbVars
<1>2. ASSUME NEW r \in Requests PROVE ~ Answer(r) /\ \A kind \in Kinds : ~ ReadRun(r, kind)
  BY DEF Answer, ReadRun, CommitPause, LockForCancel, CommitCancel, CommitRetry,
         CommitResume, OpenResume, RollBackResume, dbVars
<1> PICK t \in Tasks : TaskStep(t)
  BY <1>1, <1>2 DEF Next
<1>3. ~ RunSteps(t)
  BY DEF RunSteps, CheckRun, ClaimRun, SelectCases, FinishRead, FinishWrite, AggregateRun,
         TaskFails, InspectFailedRun, MarkRunFailed, dbVars
<1> PICK c \in Cases : CaseStep(t, c)
  BY <1>3 DEF TaskStep, RunSteps
<1>4. ~ (\/ DecideCase(t, c) \/ InspectForReset(t, c) \/ ResetCase(t, c)
         \/ NumberAttempt(t, c) \/ InspectForRegister(t, c) \/ CallTarget(t, c)
         \/ WorkFails(t, c))
  BY DEF DecideCase, InspectForReset, ResetCase, NumberAttempt, InspectForRegister,
         CallTarget, WorkFails, dbVars
<1> QED
  BY <1>4 DEF CaseStep

(* One step keeps the attempts when they stay in place with their results. *)
LEMMA KeptByRange ==
  ASSUME TypeOK, TypeOK',
         \A d \in Cases :
           /\ Len(attempts'[d]) >= Len(attempts[d])
           /\ \A m \in 1..Len(attempts[d]) :
                /\ attempts[d][m].raw # "none" => attempts'[d][m].raw = attempts[d][m].raw
                /\ attempts[d][m].observed => attempts'[d][m].observed
  PROVE  Kept
<1> SUFFICES ASSUME NEW c \in Cases, NEW n \in DOMAIN attempts[c]
             PROVE  /\ n \in DOMAIN attempts'[c]
                    /\ attempts[c][n].raw # "none" => attempts'[c][n].raw = attempts[c][n].raw
                    /\ attempts[c][n].observed => attempts'[c][n].observed
  BY DEF Kept
<1>1. n \in 1..Len(attempts[c]) /\ Len(attempts[c]) \in Nat
  BY AttemptDomain DEF TypeOK
<1>2. attempts'[c] \in Seq(AttemptRow)
  BY DEF TypeOK
<1>3. DOMAIN attempts'[c] = 1..Len(attempts'[c]) /\ Len(attempts'[c]) \in Nat
  BY <1>2
<1> QED
  BY <1>1, <1>3

LEMMA KeptByStep == Inv /\ [Next]_vars => [Kept]_attempts
<1> SUFFICES ASSUME Inv, [Next]_vars, attempts' # attempts PROVE Kept
  OBVIOUS
<1>1. TypeOK /\ LedgerInv /\ TypeOK'
  BY NextInv DEF Inv
<1>2. \A d \in Cases : Len(attempts[d]) \in Nat
  BY <1>1, AttemptDomain DEF TypeOK
<1> PICK t \in Tasks, c \in Cases :
       RegisterAttempt(t, c) \/ PersistResponse(t, c) \/ CompleteCase(t, c)
         \/ RecordFailure(t, c)
  BY AttemptWriters
<1> DEFINE n == Att(t, c)
<1>4. n \in Nat
  <2>1. work[t][c] \in Worker
    BY <1>1 DEF TypeOK
  <2> QED
    BY <2>1 DEF Att, Worker
<1>5. CASE RegisterAttempt(t, c)
  <2>1. attempts' = [attempts EXCEPT ![c] = Append(@, NewAttempt)]
    BY <1>5 DEF RegisterAttempt
  <2>2. \A d \in Cases :
          /\ Len(attempts'[d]) >= Len(attempts[d])
          /\ \A m \in 1..Len(attempts[d]) : attempts'[d][m] = attempts[d][m]
    BY <1>1, <1>2, <2>1, AppendRow DEF TypeOK, NewAttempt, AttemptRow
  <2> QED
    BY <1>1, <2>2, KeptByRange
<1>6. CASE PersistResponse(t, c)
  <2>1. n \in 1..Len(attempts[c]) /\ attempts[c][n].raw = "none"
    BY <1>1, <1>6
    DEF PersistResponse, Working, Att, LedgerInv, KnownAttempts, NothingStoredYet
  <2>2. PICK raw \in {"good", "bad"} : Amend(c, n, [attempts[c][n] EXCEPT !.raw = raw])
    BY <1>6 DEF PersistResponse
  <2>3. attempts[c][n] \in AttemptRow
    BY <1>1, <2>1, RowTyped DEF TypeOK
  <2> DEFINE row == [attempts[c][n] EXCEPT !.raw = raw]
  <2>4. row \in AttemptRow /\ row.observed = attempts[c][n].observed
    BY <2>3, StoredRow
  <2>5. Amend(c, n, row)
    BY <2>2
  <2> HIDE DEF row
  <2>6. /\ \A d \in Cases : Len(attempts'[d]) = Len(attempts[d])
        /\ attempts'[c][n] = row
        /\ \A d \in Cases : \A m \in 1..Len(attempts[d]) :
             d # c \/ m # n => attempts'[d][m] = attempts[d][m]
    BY <1>1, <2>1, <2>4, <2>5, AmendRow DEF TypeOK
  <2> QED
    BY <1>1, <1>2, <2>1, <2>4, <2>6, KeptByRange
<1>7. CASE CompleteCase(t, c)
  <2>1. n \in 1..Len(attempts[c])
    BY <1>1, <1>7 DEF CompleteCase, Working, Att, LedgerInv, KnownAttempts
  <2>2. attempts[c][n] \in AttemptRow
    BY <1>1, <2>1, RowTyped DEF TypeOK
  <2> DEFINE row == [attempts[c][n] EXCEPT !.observed = TRUE,
                                           !.status = "RESPONSE_RECEIVED"]
  <2>3. row \in AttemptRow /\ row.observed = TRUE /\ row.raw = attempts[c][n].raw
    BY <2>2, ObservedRow
  <2>4. Amend(c, n, row)
    BY <1>7 DEF CompleteCase, ObserveAttempt
  <2> HIDE DEF row
  <2>5. /\ \A d \in Cases : Len(attempts'[d]) = Len(attempts[d])
        /\ attempts'[c][n] = row
        /\ \A d \in Cases : \A m \in 1..Len(attempts[d]) :
             d # c \/ m # n => attempts'[d][m] = attempts[d][m]
    BY <1>1, <2>1, <2>3, <2>4, AmendRow DEF TypeOK
  <2> QED
    BY <1>1, <1>2, <2>3, <2>5, KeptByRange
<1>8. CASE RecordFailure(t, c)
  <2>1. FailAttempt(c, n)
    BY <1>8 DEF RecordFailure
  <2>2. \A d \in Cases :
          /\ Len(attempts'[d]) = Len(attempts[d])
          /\ \A m \in 1..Len(attempts[d]) :
               /\ attempts'[d][m].raw = attempts[d][m].raw
               /\ attempts'[d][m].observed = attempts[d][m].observed
    BY <1>1, <1>4, <2>1, FailTyped DEF TypeOK
  <2> QED
    BY <1>1, <1>2, <2>2, KeptByRange
<1> QED
  BY <1>5, <1>6, <1>7, <1>8

(* The history of a case is append-only and never loses a result, whatever *)
(* commands, crashes, failures and pools there are.                        *)
THEOREM HistoryCorrect == Spec => HistoryIsKept
BY Invariance, KeptByStep, PTL DEF Spec, HistoryIsKept

-----------------------------------------------------------------------------
(* How the steps move the tasks and the commands *)

LEMMA GotoMoves ==
  ASSUME exec \in [Tasks -> Task], NEW t \in Tasks, NEW pc, Goto(t, pc)
  PROVE  /\ exec'[t].pc = pc /\ exec'[t].verdict = exec[t].verdict
         /\ \A u \in Tasks \ {t} : exec'[u] = exec[u]
<1> DEFINE e == [exec[t] EXCEPT !.pc = pc]
<1>1. e.pc = pc /\ e.verdict = exec[t].verdict
  BY DEF Task
<1>2. exec' = [exec EXCEPT ![t] = e]
  BY DEF Goto
<1> HIDE DEF e
<1> QED
  BY <1>1, <1>2

LEMMA SpawnMoves ==
  ASSUME exec \in [Tasks -> Task], NEW r \in Requests, NEW scope, NEW only,
         Spawn(r, scope, only)
  PROVE  /\ exec'[r].pc = "check"
         /\ \A u \in Tasks \ {r} : exec'[u] = exec[u]
<1> DEFINE e == [NoTask EXCEPT !.pc = "check", !.scope = scope, !.only = only]
<1>1. e.pc = "check"
  BY DEF NoTask
<1>2. exec' = [exec EXCEPT ![r] = e]
  BY DEF Spawn
<1> HIDE DEF e
<1> QED
  BY <1>1, <1>2

(* A command moves on and stays the command that it is. *)
HandlerAt(r, pc) ==
  /\ handler'[r].pc = pc /\ handler'[r].kind = handler[r].kind
  /\ \A q \in Requests \ {r} : handler'[q] = handler[q]

LEMMA CloseMoves ==
  ASSUME handler \in [Requests -> Handler], NEW r \in Requests, Close(r)
  PROVE  HandlerAt(r, "done")
<1> DEFINE h == [handler[r] EXCEPT !.pc = "done"]
<1>1. h.pc = "done" /\ h.kind = handler[r].kind
  BY DEF Handler
<1>2. handler' = [handler EXCEPT ![r] = h]
  BY DEF Close
<1> HIDE DEF h
<1> QED
  BY <1>1, <1>2 DEF HandlerAt

LEMMA LockMoves ==
  ASSUME handler \in [Requests -> Handler], NEW r \in Requests, LockForCancel(r)
  PROVE  HandlerAt(r, "locked")
<1> DEFINE h == [handler[r] EXCEPT !.pc = "locked", !.victims = Victims("cancel")]
<1>1. h.pc = "locked" /\ h.kind = handler[r].kind
  BY DEF Handler
<1>2. handler' = [handler EXCEPT ![r] = h]
  BY DEF LockForCancel
<1> HIDE DEF h
<1> QED
  BY <1>1, <1>2 DEF HandlerAt

LEMMA OpenMoves ==
  ASSUME handler \in [Requests -> Handler], NEW r \in Requests, OpenResume(r)
  PROVE  HandlerAt(r, "open")
<1> DEFINE h == [handler[r] EXCEPT !.pc = "open"]
<1>1. h.pc = "open" /\ h.kind = handler[r].kind
  BY DEF Handler
<1>2. handler' = [handler EXCEPT ![r] = h]
  BY DEF OpenResume
<1> HIDE DEF h
<1> QED
  BY <1>1, <1>2 DEF HandlerAt

(* Before it has claimed the run, or after it has given up. *)
Outside == {"check", "claim", "failing", "marking", "done"}

LEMMA RunMoves ==
  ASSUME TypeOK, NEW t \in Tasks, RunSteps(t)
  PROVE  /\ UNCHANGED <<handler, runLock, caseStatus, attempts>>
         /\ Live(t)
         /\ \A u \in Tasks \ {t} : exec'[u] = exec[u]
         /\ exec[t].pc \in Outside /\ ~Unlocked => exec'[t].pc \in Outside
         /\ \/ runStatus' \in {runStatus, "RUNNING", "FAILED"}
            \/ At(t, "settle") /\ runStatus' = exec[t].verdict
         /\ exec'[t].pc \in {"select", "run", "settle"} =>
              \/ runStatus' = "RUNNING"
              \/ runStatus' = runStatus /\ exec[t].pc \in {"select", "run"}
         /\ exec'[t].pc = "settle" => exec'[t].verdict = Verdict(exec[t].failed)
<1>1. exec \in [Tasks -> Task]
  BY DEF TypeOK
<1> USE DEF At, Live, dbVars, Outside
<1>2. CASE CheckRun(t)
  <2>1. Goto(t, "claim") \/ Goto(t, "failing")
    BY <1>2 DEF CheckRun
  <2> QED
    BY <1>1, <1>2, <2>1, GotoMoves DEF CheckRun
<1>3. CASE ClaimRun(t)
  BY <1>1, <1>3, GotoMoves DEF ClaimRun
<1>4. CASE SelectCases(t)
  BY <1>1, <1>4, GotoMoves DEF SelectCases
<1>5. CASE FinishRead(t)
  <2> DEFINE e == [exec[t] EXCEPT !.pc = "settle", !.verdict = Verdict(exec[t].failed)]
  <2>1. e.pc = "settle" /\ e.verdict = Verdict(exec[t].failed)
    BY <1>1 DEF Task
  <2>2. exec' = [exec EXCEPT ![t] = e]
    BY <1>1, <1>5 DEF FinishRead
  <2> HIDE DEF e
  <2> QED
    BY <1>1, <1>5, <2>1, <2>2 DEF FinishRead
<1>6. CASE FinishWrite(t)
  BY <1>1, <1>6, GotoMoves DEF FinishWrite
<1>7. CASE AggregateRun(t)
  BY <1>1, <1>7, GotoMoves DEF AggregateRun
<1>8. CASE TaskFails(t)
  BY <1>1, <1>8, GotoMoves DEF TaskFails
<1>9. CASE InspectFailedRun(t)
  <2>1. Goto(t, "done") \/ Goto(t, "marking")
    BY <1>9 DEF InspectFailedRun
  <2> QED
    BY <1>1, <1>9, <2>1, GotoMoves DEF InspectFailedRun
<1>10. CASE MarkRunFailed(t)
  BY <1>1, <1>10, GotoMoves DEF MarkRunFailed
<1> QED
  BY <1>2, <1>3, <1>4, <1>5, <1>6, <1>7, <1>8, <1>9, <1>10 DEF RunSteps

(* A coroutine of the pool changes its case, and the task only learns of a *)
(* failure.                                                                *)
LEMMA CaseMoves ==
  ASSUME TypeOK, NEW t \in Tasks, NEW c \in Cases, CaseStep(t, c)
  PROVE  /\ UNCHANGED <<handler, runLock, runStatus>>
         /\ At(t, "run")
         /\ \A u \in Tasks : exec'[u].pc = exec[u].pc /\ exec'[u].verdict = exec[u].verdict
<1>1. UNCHANGED <<handler, runLock, runStatus>> /\ At(t, "run")
  BY DEF CaseStep, DecideCase, InspectForReset, ResetCase, NumberAttempt,
         InspectForRegister, RegisterAttempt, CallTarget, PersistResponse, CompleteCase,
         WorkFails, RecordFailure, Working, At, dbVars
<1>2. exec \in [Tasks -> Task]
  BY DEF TypeOK
<1>3. CASE UNCHANGED exec
  BY <1>1, <1>3
<1>4. CASE exec' = [exec EXCEPT ![t].failed = TRUE]
  <2> DEFINE e == [exec[t] EXCEPT !.failed = TRUE]
  <2>1. e.pc = exec[t].pc /\ e.verdict = exec[t].verdict
    BY <1>2 DEF Task
  <2>2. exec' = [exec EXCEPT ![t] = e]
    BY <1>2, <1>4
  <2> HIDE DEF e
  <2> QED
    BY <1>1, <1>2, <2>1, <2>2
<1> QED
  BY <1>3, <1>4
  DEF CaseStep, DecideCase, InspectForReset, ResetCase, NumberAttempt,
      InspectForRegister, RegisterAttempt, CallTarget, PersistResponse, CompleteCase,
      WorkFails, RecordFailure

LEMMA CrashMoves ==
  ASSUME TypeOK, Crash
  PROVE  /\ UNCHANGED <<runStatus, caseStatus, attempts>>
         /\ \A r \in Requests : handler'[r].kind = handler[r].kind /\ ~InProgress(r)'
         /\ \A r \in Requests : handler[r].pc = "idle" <=> handler'[r].pc = "idle"
         /\ \A t \in Tasks : ~Live(t)'
         /\ work' = [t \in Tasks |-> NoWork]
<1>1. \A r \in Requests : [handler[r] EXCEPT !.pc = "done"].pc = "done"
                            /\ [handler[r] EXCEPT !.pc = "done"].kind = handler[r].kind
  BY DEF TypeOK, Handler
<1>2. \A t \in Tasks : [exec[t] EXCEPT !.pc = "done"].pc = "done"
  BY DEF TypeOK, Task
<1>3. \A r \in Requests : handler'[r].kind = handler[r].kind /\ ~InProgress(r)'
        /\ (handler[r].pc = "idle" <=> handler'[r].pc = "idle")
  BY <1>1 DEF Crash, InProgress
<1>4. \A t \in Tasks : ~Live(t)'
  BY <1>2 DEF Crash, Live
<1> QED
  BY <1>3, <1>4 DEF Crash, dbVars

-----------------------------------------------------------------------------
(* Nothing runs on the strength of an open transaction *)

(* The row lock of the run: its holder is the one command that is in the   *)
(* middle of its transaction.                                              *)
LockInv ==
  /\ \A r \in Requests :
       /\ handler[r].pc \in {"locked", "open"} => runLock = r
       /\ handler[r].pc = "locked" => handler[r].kind = "cancel"
       /\ handler[r].pc = "open" => exec[r].pc \in Outside

LEMMA LockInvKept ==
  ASSUME TypeOK, LockInv, [Next]_vars
  PROVE  LockInv'
<1>1. ASSUME NEW r \in Requests, NEW pc \in {"read", "done"}, HandlerAt(r, pc),
             runLock' = runLock \/ (runLock = r /\ runLock' = NoOne),
             \A q \in Requests \ {r} : exec'[q] = exec[q]
      PROVE  LockInv'
  <2> SUFFICES ASSUME NEW q \in Requests, handler'[q].pc \in {"locked", "open"}
               PROVE  /\ runLock' = q
                      /\ handler'[q].pc = "locked" => handler'[q].kind = "cancel"
                      /\ handler'[q].pc = "open" => exec'[q].pc \in Outside
    BY DEF LockInv
  <2>1. q # r /\ handler'[q] = handler[q] /\ exec'[q] = exec[q]
    BY <1>1 DEF HandlerAt
  <2> QED
    BY <1>1, <2>1 DEF LockInv
<1>2. ASSUME NEW r \in Requests, NEW pc \in {"locked", "open"}, HandlerAt(r, pc),
             Unlocked, runLock' = r,
             pc = "locked" => handler[r].kind = "cancel",
             pc = "open" => exec'[r].pc \in Outside
      PROVE  LockInv'
  <2> SUFFICES ASSUME NEW q \in Requests, handler'[q].pc \in {"locked", "open"}
               PROVE  /\ runLock' = q
                      /\ handler'[q].pc = "locked" => handler'[q].kind = "cancel"
                      /\ handler'[q].pc = "open" => exec'[q].pc \in Outside
    BY DEF LockInv
  <2>1. q = r
    BY <1>2, RequestsAssumption DEF LockInv, HandlerAt, Unlocked
  <2> QED
    BY <1>2, <2>1 DEF HandlerAt
<1>3. handler \in [Requests -> Handler] /\ exec \in [Tasks -> Task]
  BY DEF TypeOK
<1>4. ASSUME NEW r \in Requests, NEW kind \in Kinds, ReadRun(r, kind) PROVE LockInv'
  <2>1. /\ handler'[r].pc = "read" /\ UNCHANGED <<runLock, exec>>
        /\ \A q \in Requests \ {r} : handler'[q] = handler[q]
    BY <1>3, <1>4 DEF ReadRun
  <2> QED
    BY <2>1 DEF LockInv
<1>5. ASSUME NEW r \in Requests, Answer(r) PROVE LockInv'
  <2>1. CASE CommitPause(r)
    BY <1>1, <1>3, <2>1, CloseMoves DEF CommitPause
  <2>2. CASE LockForCancel(r)
    BY <1>2, <1>3, <2>2, LockMoves DEF LockForCancel, Ready
  <2>3. CASE CommitCancel(r)
    BY <1>1, <1>3, <2>3, CloseMoves DEF CommitCancel, LockInv
  <2>4. CASE CommitRetry(r)
    BY <1>1, <1>3, <2>4, CloseMoves, SpawnMoves DEF CommitRetry
  <2>5. CASE CommitResume(r)
    BY <1>1, <1>3, <2>5, CloseMoves, SpawnMoves DEF CommitResume
  <2>6. CASE OpenResume(r)
    <3>1. HandlerAt(r, "open") /\ exec'[r].pc = "check"
      BY <1>3, <2>6, OpenMoves, SpawnMoves DEF OpenResume
    <3> QED
      BY <1>2, <2>6, <3>1 DEF OpenResume, Ready, Outside
  <2>7. CASE RollBackResume(r)
    BY <1>1, <1>3, <2>7, CloseMoves DEF RollBackResume, LockInv
  <2> QED
    BY <1>5, <2>1, <2>2, <2>3, <2>4, <2>5, <2>6, <2>7 DEF Answer
<1>6. ASSUME NEW t \in Tasks, RunSteps(t) PROVE LockInv'
  <2>1. /\ UNCHANGED <<handler, runLock>>
        /\ \A u \in Tasks \ {t} : exec'[u] = exec[u]
        /\ exec[t].pc \in Outside /\ ~Unlocked => exec'[t].pc \in Outside
    BY <1>6, RunMoves
  <2>2. ASSUME NEW r \in Requests, handler[r].pc = "open" PROVE exec'[r].pc \in Outside
    <3>1. ~Unlocked /\ exec[r].pc \in Outside
      BY <2>2, RequestsAssumption DEF LockInv, Unlocked
    <3> QED
      BY <2>1, <3>1
  <2> QED
    BY <2>1, <2>2 DEF LockInv
<1>7. ASSUME NEW t \in Tasks, NEW c \in Cases, CaseStep(t, c) PROVE LockInv'
  BY <1>7, CaseMoves DEF LockInv
<1>8. CASE Crash
  BY <1>8, CrashMoves DEF LockInv, InProgress
<1>9. CASE MarkInterrupted \/ UNCHANGED vars
  BY <1>9 DEF LockInv, MarkInterrupted, procVars, vars
<1> QED
  BY <1>4, <1>5, <1>6, <1>7, <1>8, <1>9 DEF Next, TaskStep, RunSteps

LEMMA LockInvAlways == Spec => []LockInv
<1>1. Init => LockInv
  BY DEF Init, LockInv
<1>2. Inv /\ LockInv /\ [Next]_vars => LockInv'
  BY LockInvKept DEF Inv
<1> QED
  BY <1>1, <1>2, Invariance, PTL DEF Spec

(* test_service.py: a task that was started from an open transaction never *)
(* gets past claiming the run, for any number of commands and tasks: the   *)
(* row lock that its own request holds keeps it from committing.           *)
THEOREM UncommittedCorrect == Spec => []UncommittedNeverExecutes
<1>1. LockInv => UncommittedNeverExecutes
  BY DEF LockInv, UncommittedNeverExecutes, Outside
<1> QED
  BY <1>1, LockInvAlways, PTL

-----------------------------------------------------------------------------
(* Patient operators never have two pools *)

Spawners == {"retry", "resume", "recover"}
Spawning(r) == InProgress(r) /\ handler[r].kind \in Spawners

(* At most one background task is alive, and none while a command that     *)
(* will start one is in progress, but for the task of an open transaction. *)
SoleInv ==
  /\ \A t, u \in Tasks : Live(t) /\ Live(u) => t = u
  /\ \A r \in Requests : Spawning(r) =>
       /\ \A q \in Requests : Spawning(q) => q = r
       /\ \A t \in Tasks : Live(t) => handler[r].pc = "open" /\ t = r

LEMMA CalmerKeepsSole ==
  ASSUME SoleInv,
         \A q \in Requests : Spawning(q)' => Spawning(q) /\ handler'[q].pc = handler[q].pc,
         \A t \in Tasks : Live(t)' => Live(t)
  PROVE  SoleInv'
BY DEF SoleInv

LEMMA SoleKept ==
  ASSUME Patient, TypeOK, SoleInv, [Next]_vars
  PROVE  SoleInv'
<1>1. handler \in [Requests -> Handler] /\ exec \in [Tasks -> Task]
  BY DEF TypeOK
<1>2. ASSUME NEW r \in Requests, HandlerAt(r, "done"), UNCHANGED exec
      PROVE  SoleInv'
  BY <1>2, CalmerKeepsSole DEF HandlerAt, Spawning, InProgress, Live
<1>3. ASSUME NEW r \in Requests, Spawning(r), exec'[r].pc = "check",
             \A u \in Tasks \ {r} : exec'[u] = exec[u],
             \/ handler[r].pc = "read" /\ HandlerAt(r, "done")
             \/ handler[r].pc = "read" /\ HandlerAt(r, "open")
      PROVE  SoleInv'
  <2>1. \A t \in Tasks : Live(t)' => t = r
    BY <1>3 DEF SoleInv, Live
  <2>2. \A q \in Requests : Spawning(q)' => q = r /\ handler'[r].pc = "open"
    BY <1>3 DEF SoleInv, HandlerAt, Spawning, InProgress
  <2> QED
    BY <2>1, <2>2 DEF SoleInv
<1>4. ASSUME NEW r \in Requests, NEW kind \in Kinds, ReadRun(r, kind) PROVE SoleInv'
  <2>1. /\ handler'[r].pc = "read" /\ handler'[r].kind = kind /\ UNCHANGED exec
        /\ \A q \in Requests \ {r} : handler'[q] = handler[q]
    BY <1>1, <1>4 DEF ReadRun
  <2>2. CASE kind \in Spawners
    <3>1. /\ \A q \in Requests : ~InProgress(q)
          /\ \A t \in Tasks : ~Live(t)
      BY <1>4, <2>2 DEF ReadRun, Spawners, Quiet
    <3> QED
      BY <2>1, <3>1 DEF SoleInv, Spawning, InProgress, Live
  <2>3. CASE kind \notin Spawners
    BY <2>1, <2>3, CalmerKeepsSole DEF Spawning, InProgress, Live
  <2> QED
    BY <2>2, <2>3
<1>5. ASSUME NEW r \in Requests, Answer(r) PROVE SoleInv'
  <2>1. CASE CommitPause(r)
    BY <1>1, <1>2, <2>1, CloseMoves DEF CommitPause
  <2>2. CASE LockForCancel(r)
    <3>1. HandlerAt(r, "locked") /\ handler[r].kind = "cancel" /\ UNCHANGED exec
      BY <1>1, <2>2, LockMoves DEF LockForCancel, Ready
    <3> QED
      BY <3>1, CalmerKeepsSole DEF HandlerAt, Spawning, InProgress, Live, Spawners
  <2>3. CASE CommitCancel(r)
    BY <1>1, <1>2, <2>3, CloseMoves DEF CommitCancel
  <2>4. CASE CommitRetry(r)
    <3>1. Spawning(r) /\ handler[r].pc = "read"
      BY <2>4 DEF CommitRetry, Ready, Spawning, InProgress, Spawners
    <3> QED
      BY <1>1, <1>3, <2>4, <3>1, CloseMoves, SpawnMoves DEF CommitRetry
  <2>5. CASE CommitResume(r)
    <3>1. Spawning(r) /\ handler[r].pc = "read"
      BY <2>5 DEF CommitResume, Ready, Spawning, InProgress, Spawners
    <3> QED
      BY <1>1, <1>3, <2>5, <3>1, CloseMoves, SpawnMoves DEF CommitResume
  <2>6. CASE OpenResume(r)
    <3>1. Spawning(r) /\ handler[r].pc = "read"
      BY <2>6 DEF OpenResume, Ready, Spawning, InProgress, Spawners
    <3> QED
      BY <1>1, <1>3, <2>6, <3>1, OpenMoves, SpawnMoves DEF OpenResume
  <2>7. CASE RollBackResume(r)
    BY <1>1, <1>2, <2>7, CloseMoves DEF RollBackResume
  <2> QED
    BY <1>5, <2>1, <2>2, <2>3, <2>4, <2>5, <2>6, <2>7 DEF Answer
<1>6. ASSUME NEW t \in Tasks, RunSteps(t) PROVE SoleInv'
  <2>1. /\ UNCHANGED handler /\ Live(t)
        /\ \A u \in Tasks \ {t} : exec'[u] = exec[u]
    BY <1>6, RunMoves
  <2> QED
    BY <2>1, CalmerKeepsSole DEF Spawning, InProgress, Live
<1>7. ASSUME NEW t \in Tasks, NEW c \in Cases, CaseStep(t, c) PROVE SoleInv'
  BY <1>7, CaseMoves, CalmerKeepsSole DEF Spawning, InProgress, Live
<1>8. CASE Crash
  BY <1>8, CrashMoves, CalmerKeepsSole DEF Spawning
<1>9. CASE MarkInterrupted \/ UNCHANGED vars
  BY <1>9, CalmerKeepsSole
  DEF MarkInterrupted, procVars, vars, Spawning, InProgress, Live
<1> QED
  BY <1>4, <1>5, <1>6, <1>7, <1>8, <1>9 DEF Next, TaskStep, RunSteps

LEMMA SoleAlways == ASSUME Patient PROVE Spec => []SoleInv
<1>1. Init => SoleInv
  <2> SUFFICES ASSUME Init PROVE SoleInv
    OBVIOUS
  <2>1. \A t \in Tasks : Live(t) => t = Start
    BY DEF Init, Live, NoTask
  <2>2. \A r \in Requests : ~InProgress(r)
    BY DEF Init, InProgress
  <2> QED
    BY <2>1, <2>2 DEF SoleInv, Spawning
<1>2. Inv /\ SoleInv /\ [Next]_vars => SoleInv'
  BY SoleKept DEF Inv
<1> QED
  BY <1>1, <1>2, Invariance, PTL DEF Spec

-----------------------------------------------------------------------------
(* The worker pool is bounded *)

PoolInv == \A t \in Tasks : Cardinality(Busy(t)) <= Concurrency

LEMMA BusyIsFinite ==
  ASSUME NEW t \in Tasks
  PROVE  IsFiniteSet(Busy(t)) /\ Cardinality(Busy(t)) \in Nat
<1>1. Busy(t) \subseteq Cases
  BY DEF Busy
<1>2. IsFiniteSet(Busy(t))
  BY <1>1, CasesAssumption, FS_Subset
<1> QED
  BY <1>2, FS_CardinalityType

LEMMA PoolKept ==
  ASSUME TypeOK, PoolInv, [Next]_vars
  PROVE  PoolInv'
<1>1. CASE UNCHANGED work
  BY <1>1 DEF PoolInv, Busy
<1>2. ASSUME NEW t \in Tasks, SelectCases(t) PROVE PoolInv'
  <2>1. work \in [Tasks -> [Cases -> Worker]]
    BY DEF TypeOK
  <2>2. Busy(t)' = {} /\ \A u \in Tasks \ {t} : Busy(u)' = Busy(u)
    BY <1>2, <2>1 DEF SelectCases, Busy
  <2>3. Cardinality({}) = 0
    BY FS_EmptySet
  <2> QED
    BY <2>2, <2>3, ConcurrencyAssumption DEF PoolInv
<1>3. CASE Crash
  <2>1. \A t \in Tasks : Busy(t)' = {}
    BY <1>3 DEF Crash, Busy, NoWork
  <2>2. Cardinality({}) = 0
    BY FS_EmptySet
  <2> QED
    BY <2>1, <2>2, ConcurrencyAssumption DEF PoolInv
<1>4. ASSUME NEW t \in Tasks, NEW c \in Cases, CaseStep(t, c) PROVE PoolInv'
  <2>1. work \in [Tasks -> [Cases -> Worker]] /\ Att(t, c) \in Nat /\ Len(attempts[c]) \in Nat
    BY DEF TypeOK, Worker, Att
  <2>2. PICK pc \in WorkerPcs, att \in Nat : Step(t, c, pc, att)
    BY <1>4, <2>1
    DEF CaseStep, DecideCase, InspectForReset, ResetCase, NumberAttempt,
        InspectForRegister, RegisterAttempt, CallTarget, PersistResponse, CompleteCase,
        WorkFails, RecordFailure, WorkerPcs
  <2>3. /\ work'[t][c].pc = pc
        /\ \A u \in Tasks, d \in Cases : u # t \/ d # c => work'[u][d] = work[u][d]
    BY <2>1, <2>2, StepMoves
  <2>4. \A u \in Tasks \ {t} : Busy(u)' = Busy(u)
    BY <2>3 DEF Busy
  <2>5. CASE c \in Busy(t)
    <3>1. Busy(t)' \subseteq Busy(t)
      BY <2>3, <2>5 DEF Busy
    <3>2. Cardinality(Busy(t)') <= Cardinality(Busy(t))
      BY <3>1, BusyIsFinite, FS_Subset
    <3> HIDE DEF Busy
    <3>3. Cardinality(Busy(t)') \in Nat
      BY <3>1, BusyIsFinite, FS_Subset, FS_CardinalityType
    <3>4. Cardinality(Busy(t)') <= Concurrency
      BY <3>2, <3>3, BusyIsFinite, ConcurrencyAssumption DEF PoolInv
    <3> QED
      BY <2>4, <3>4 DEF PoolInv
  <2>6. CASE c \notin Busy(t)
    <3>1. Cardinality(Busy(t)) < Concurrency
      BY <1>4, <2>6
      DEF CaseStep, DecideCase, InspectForReset, ResetCase, NumberAttempt,
          InspectForRegister, RegisterAttempt, CallTarget, PersistResponse, CompleteCase,
          WorkFails, RecordFailure, Working, Busy
    <3>2. Busy(t)' \subseteq Busy(t) \cup {c}
      BY <2>3 DEF Busy
    <3> DEFINE more == Busy(t) \cup {c}
    <3>3. IsFiniteSet(more) /\ Cardinality(more) = Cardinality(Busy(t)) + 1
      BY <2>6, BusyIsFinite, FS_AddElement
    <3>4. IsFiniteSet(Busy(t)') /\ Cardinality(Busy(t)') <= Cardinality(more)
      BY <3>2, <3>3, FS_Subset
    <3>5. Cardinality(Busy(t)') \in Nat
      BY <3>4, FS_CardinalityType
    <3>6. Cardinality(Busy(t)') <= Concurrency
      BY <3>1, <3>3, <3>4, <3>5, BusyIsFinite, ConcurrencyAssumption
    <3> QED
      BY <2>4, <3>6 DEF PoolInv
  <2> QED
    BY <2>5, <2>6
<1>5. ASSUME NEW r \in Requests, NEW kind \in Kinds, ReadRun(r, kind) PROVE UNCHANGED work
  BY <1>5 DEF ReadRun
<1>6. ASSUME NEW r \in Requests, Answer(r) PROVE UNCHANGED work
  BY <1>6 DEF Answer, CommitPause, LockForCancel, CommitCancel, CommitRetry,
              CommitResume, OpenResume, RollBackResume
<1>7. ASSUME NEW t \in Tasks, RunSteps(t) PROVE UNCHANGED work \/ SelectCases(t)
  BY <1>7 DEF RunSteps, CheckRun, ClaimRun, FinishRead, FinishWrite, AggregateRun,
              TaskFails, InspectFailedRun, MarkRunFailed
<1>8. CASE MarkInterrupted \/ UNCHANGED vars
  BY <1>1, <1>8 DEF MarkInterrupted, procVars, vars
<1> QED
  BY <1>1, <1>2, <1>3, <1>4, <1>5, <1>6, <1>7, <1>8 DEF Next, TaskStep, RunSteps

LEMMA PoolAlways == Spec => []PoolInv
<1>1. Init => PoolInv
  <2> SUFFICES ASSUME Init PROVE PoolInv
    OBVIOUS
  <2>1. \A t \in Tasks : Busy(t) = {}
    BY DEF Init, Busy, NoWork
  <2> QED
    BY <2>1, FS_EmptySet, ConcurrencyAssumption DEF PoolInv
<1>2. Inv /\ PoolInv /\ [Next]_vars => PoolInv'
  BY PoolKept DEF Inv
<1> QED
  BY <1>1, <1>2, Invariance, PTL DEF Spec

(* execution/engine.py: while operators restart a run only when nothing    *)
(* goes on, there are never more calls in flight than the configured       *)
(* concurrency, for any number of cases, restarts, faults and crashes.     *)
THEOREM ConcurrencyCorrect == ASSUME Patient PROVE Spec => []BoundedConcurrency
<1>1. SoleInv /\ PoolInv => BoundedConcurrency
  <2> SUFFICES ASSUME SoleInv, PoolInv PROVE BoundedConcurrency
    OBVIOUS
  <2> DEFINE Calls == {tc \in Tasks \X Cases : Working(tc[1], tc[2], "call")}
  <2>1. CASE Calls = {}
    BY <2>1, FS_EmptySet, ConcurrencyAssumption DEF BoundedConcurrency
  <2>2. CASE Calls # {}
    <3>1. PICK t \in Tasks, c \in Cases : Working(t, c, "call")
      BY <2>2
    <3>2. \A u \in Tasks, d \in Cases : Working(u, d, "call") => u = t /\ d \in Busy(t)
      BY <3>1 DEF SoleInv, Live, Working, Busy
    <3> DEFINE f == [d \in Busy(t) |-> <<t, d>>]
               Image == {f[d] : d \in Busy(t)}
    <3>3. Calls \subseteq Image
      BY <3>2
    <3>4. IsFiniteSet(Image) /\ Cardinality(Image) <= Cardinality(Busy(t))
      <4>1. f \in Surjection(Busy(t), Image)
        BY DEF Surjection
      <4> QED
        BY <4>1, BusyIsFinite, FS_Surjection
    <3>5. IsFiniteSet(Calls) /\ Cardinality(Calls) <= Cardinality(Image)
      BY <3>3, <3>4, FS_Subset
    <3>6. Cardinality(Calls) \in Nat /\ Cardinality(Image) \in Nat
      BY <3>4, <3>5, FS_CardinalityType
    <3> HIDE DEF Calls, Image
    <3>7. Cardinality(Calls) <= Concurrency
      BY <3>4, <3>5, <3>6, BusyIsFinite, ConcurrencyAssumption DEF PoolInv
    <3> QED
      BY <3>7 DEF BoundedConcurrency, Calls
  <2> QED
    BY <2>1, <2>2
<1> QED
  BY <1>1, SoleAlways, PoolAlways, PTL

-----------------------------------------------------------------------------
(* Verdicts agree with the cases *)

Agrees(status) ==
  /\ status = "COMPLETE" => CasesIn({"COMPLETE"}) = Cases
  /\ status = "COMPLETED_WITH_ERRORS" =>
       /\ CasesIn({"COMPLETE"}) # {}
       /\ CasesIn({"FAILED"}) # {}
       /\ CasesIn({"COMPLETE", "FAILED"}) = Cases

(* The verdict that is about to be written is as good as one that is, and  *)
(* a run with a pool has none.                                             *)
VerdictInv ==
  /\ \A t \in Tasks : exec[t].pc \in {"select", "run", "settle"} =>
       runStatus \notin {"COMPLETE", "COMPLETED_WITH_ERRORS"}
  /\ ~Sent("cancel") =>
       /\ Agrees(runStatus)
       /\ \A t \in Tasks : At(t, "settle") => Agrees(exec[t].verdict)

(* _finish_run judges by the cases it lists. *)
LEMMA VerdictAgrees == ASSUME NEW failed PROVE Agrees(Verdict(failed))
<1>1. CASE Verdict(failed) = "COMPLETE"
  <2>1. Cases \ CasesIn({"COMPLETE", "FAILED"}) = {} /\ CasesIn({"FAILED"}) = {}
    BY <1>1 DEF Verdict
  <2> QED
    BY <1>1, <2>1 DEF Agrees, CasesIn
<1>2. CASE Verdict(failed) = "COMPLETED_WITH_ERRORS"
  BY <1>2 DEF Verdict, Agrees, CasesIn
<1> QED
  BY <1>1, <1>2 DEF Agrees

LEMMA AgreesStays ==
  ASSUME UNCHANGED caseStatus, NEW status, Agrees(status)
  PROVE  Agrees(status)'
BY DEF Agrees, CasesIn

LEMMA SentStays ==
  ASSUME NEW r \in Requests, NEW pc \in {"locked", "open", "done"}, HandlerAt(r, pc),
         Sent("cancel")
  PROVE  Sent("cancel")'
BY DEF Sent, HandlerAt

LEMMA VerdictKept ==
  ASSUME TypeOK, LockInv, SoleInv, VerdictInv, [Next]_vars
  PROVE  VerdictInv'
<1>1. handler \in [Requests -> Handler] /\ exec \in [Tasks -> Task]
  BY DEF TypeOK
<1>2. ASSUME Sent("cancel") => Sent("cancel")', UNCHANGED <<runStatus, caseStatus>>,
             \A t \in Tasks :
               \/ exec'[t].pc \notin {"select", "run", "settle"}
               \/ exec'[t].pc = exec[t].pc /\ exec'[t].verdict = exec[t].verdict
      PROVE  VerdictInv'
  <2>1. \A status : Agrees(status) => Agrees(status)'
    BY <1>2, AgreesStays
  <2>2. \A status : Agrees(status)' <=>
           /\ status = "COMPLETE" => CasesIn({"COMPLETE"})' = Cases
           /\ status = "COMPLETED_WITH_ERRORS" =>
                /\ CasesIn({"COMPLETE"})' # {}
                /\ CasesIn({"FAILED"})' # {}
                /\ CasesIn({"COMPLETE", "FAILED"})' = Cases
    BY DEF Agrees
  <2> QED
    BY <1>2, <2>1, <2>2 DEF VerdictInv, At, Agrees
<1>3. ASSUME runStatus' \notin {"COMPLETE", "COMPLETED_WITH_ERRORS"},
             \A t \in Tasks : exec'[t].pc # "settle"
      PROVE  VerdictInv'
  BY <1>3 DEF VerdictInv, Agrees, At
<1>4. ASSUME NEW r \in Requests, NEW kind \in Kinds, ReadRun(r, kind) PROVE VerdictInv'
  <2>1. Sent("cancel") => Sent("cancel")'
    BY <1>1, <1>4 DEF ReadRun, Sent
  <2> QED
    BY <1>2, <1>4, <2>1 DEF ReadRun, dbVars
<1>5. ASSUME NEW r \in Requests, Answer(r) PROVE VerdictInv'
  <2>1. CASE CommitPause(r)
    <3>1. HandlerAt(r, "done") /\ runStatus' \in {"PAUSED", "PAUSING"}
          /\ UNCHANGED <<exec, caseStatus>>
      BY <1>1, <2>1, CloseMoves DEF CommitPause
    <3>2. Sent("cancel") => Sent("cancel")'
      BY <3>1, SentStays
    <3> QED
      BY <3>1, <3>2 DEF VerdictInv, Agrees, At, CasesIn
  <2>2. CASE LockForCancel(r)
    <3>1. HandlerAt(r, "locked") /\ UNCHANGED <<runStatus, exec, caseStatus>>
      BY <1>1, <2>2, LockMoves DEF LockForCancel, dbVars
    <3> QED
      BY <1>2, <3>1, SentStays
  <2>3. CASE CommitCancel(r)
    <3>1. HandlerAt(r, "done") /\ runStatus' = "CANCELLED" /\ handler[r].kind = "cancel"
      BY <1>1, <2>3, CloseMoves DEF CommitCancel, LockInv
    <3>2. Sent("cancel")'
      BY <3>1 DEF Sent, HandlerAt
    <3> QED
      BY <3>1, <3>2 DEF VerdictInv
  <2>4. CASE CommitRetry(r) \/ CommitResume(r)
    <3>1. /\ runStatus' = "PENDING" /\ exec'[r].pc = "check"
          /\ \A u \in Tasks \ {r} : exec'[u] = exec[u]
      BY <1>1, <2>4, SpawnMoves DEF CommitRetry, CommitResume
    <3>2. \A t \in Tasks : ~Live(t)
      BY <2>4 DEF CommitRetry, CommitResume, Ready, SoleInv, Spawning, InProgress, Spawners
    <3> QED
      BY <1>3, <3>1, <3>2 DEF Live
  <2>5. CASE OpenResume(r)
    <3>1. /\ HandlerAt(r, "open") /\ UNCHANGED <<runStatus, caseStatus>>
          /\ exec'[r].pc = "check"
          /\ \A u \in Tasks \ {r} : exec'[u] = exec[u]
      BY <1>1, <2>5, OpenMoves, SpawnMoves DEF OpenResume, dbVars
    <3> QED
      BY <1>2, <3>1, SentStays
  <2>6. CASE RollBackResume(r)
    <3>1. HandlerAt(r, "done") /\ UNCHANGED <<runStatus, exec, caseStatus>>
      BY <1>1, <2>6, CloseMoves DEF RollBackResume, dbVars
    <3> QED
      BY <1>2, <3>1, SentStays
  <2> QED
    BY <1>5, <2>1, <2>2, <2>3, <2>4, <2>5, <2>6 DEF Answer
<1>6. ASSUME NEW t \in Tasks, RunSteps(t) PROVE VerdictInv'
  <2>1. /\ UNCHANGED <<handler, caseStatus>>
        /\ Live(t)
        /\ \A u \in Tasks \ {t} : exec'[u] = exec[u]
        /\ \/ runStatus' \in {runStatus, "RUNNING", "FAILED"}
           \/ At(t, "settle") /\ runStatus' = exec[t].verdict
        /\ exec'[t].pc \in {"select", "run", "settle"} =>
             \/ runStatus' = "RUNNING"
             \/ runStatus' = runStatus /\ exec[t].pc \in {"select", "run"}
        /\ exec'[t].pc = "settle" => exec'[t].verdict = Verdict(exec[t].failed)
    BY <1>6, RunMoves
  <2>2. \A u \in Tasks \ {t} : exec'[u].pc \notin {"select", "run", "settle"}
    BY <2>1 DEF SoleInv, Live
  <2>3. exec'[t].pc \in {"select", "run", "settle"} =>
          runStatus' \notin {"COMPLETE", "COMPLETED_WITH_ERRORS"}
    BY <2>1 DEF VerdictInv
  <2>4. ASSUME ~Sent("cancel")' PROVE Agrees(runStatus)'
    <3>1. ~Sent("cancel")
      BY <2>1, <2>4 DEF Sent
    <3>2. Agrees(runStatus) /\ (At(t, "settle") => Agrees(exec[t].verdict))
      BY <3>1 DEF VerdictInv
    <3>3. runStatus' \in {runStatus, "RUNNING", "FAILED", exec[t].verdict}
      BY <2>1
    <3> QED
      BY <2>1, <3>2 DEF Agrees, CasesIn
  <2>5. exec'[t].pc = "settle" => Agrees(exec[t].verdict)'
    <3>1. Agrees(Verdict(exec[t].failed))
      BY VerdictAgrees
    <3> QED
      BY <2>1, <3>1 DEF Agrees, CasesIn
  <2> QED
    BY <2>2, <2>3, <2>4, <2>5 DEF VerdictInv, At
<1>7. ASSUME NEW t \in Tasks, NEW c \in Cases, CaseStep(t, c) PROVE VerdictInv'
  <2>1. /\ UNCHANGED runStatus /\ At(t, "run")
        /\ \A u \in Tasks : exec'[u].pc = exec[u].pc
    BY <1>7, CaseMoves
  <2>2. runStatus \notin {"COMPLETE", "COMPLETED_WITH_ERRORS"}
    BY <2>1 DEF VerdictInv, At
  <2>3. \A u \in Tasks : exec[u].pc # "settle"
    BY <2>1 DEF SoleInv, Live, At
  <2> QED
    BY <1>3, <2>1, <2>2, <2>3
<1>8. CASE Crash
  <2>1. /\ UNCHANGED <<runStatus, caseStatus>>
        /\ \A r \in Requests : handler'[r].kind = handler[r].kind
        /\ \A r \in Requests : handler[r].pc = "idle" <=> handler'[r].pc = "idle"
        /\ \A t \in Tasks : ~Live(t)'
    BY <1>8, CrashMoves
  <2>2. Sent("cancel") => Sent("cancel")'
    BY <2>1 DEF Sent
  <2> QED
    BY <1>2, <2>1, <2>2 DEF Live
<1>9. CASE MarkInterrupted
  <2>1. runStatus' = "INTERRUPTED" /\ \A t \in Tasks : exec'[t].pc # "settle"
    BY <1>9 DEF MarkInterrupted, procVars, Live
  <2> QED
    BY <1>3, <2>1
<1>10. CASE UNCHANGED vars
  BY <1>2, <1>10 DEF vars, Sent
<1> QED
  BY <1>4, <1>5, <1>6, <1>7, <1>8, <1>9, <1>10 DEF Next, TaskStep, RunSteps

(* test_service.py, _finish_run: COMPLETE means every case, and            *)
(* COMPLETED_WITH_ERRORS some of both and no other, after any restarts,    *)
(* faults and crashes of a run that nobody tried to cancel, while          *)
(* operators restart it only when nothing goes on.                         *)
THEOREM VerdictCorrect == ASSUME Patient PROVE Spec => []VerdictMatchesCases
<1>1. Init => VerdictInv
  <2> SUFFICES ASSUME Init PROVE VerdictInv
    OBVIOUS
  <2>1. \A t \in Tasks : exec[t].pc \in {"idle", "check"}
    BY DEF Init, NoTask
  <2> QED
    BY <2>1 DEF Init, VerdictInv, Agrees, At
<1>2. Inv /\ LockInv /\ SoleInv /\ VerdictInv /\ [Next]_vars => VerdictInv'
  BY VerdictKept DEF Inv
<1>3. VerdictInv => VerdictMatchesCases
  BY DEF VerdictInv, VerdictMatchesCases, Agrees
<1> QED
  BY <1>1, <1>2, <1>3, Invariance, LockInvAlways, SoleAlways, PTL DEF Spec

-----------------------------------------------------------------------------
(* No regeneration *)

(* Before the attempt is opened. *)
Preparing == {"reset", "rewind", "number", "register", "open"}

Usable(row) == row.observed \/ row.raw = "good"

(* Only the latest attempt of a case has a usable response, a coroutine    *)
(* that prepares an attempt has none, and one with an attempt has the      *)
(* latest.                                                                 *)
CaptureInv ==
  /\ \A c \in Cases : \A n \in 1..Len(attempts[c]) :
       n < Len(attempts[c]) => ~Usable(attempts[c][n])
  /\ \A t \in Tasks, c \in Cases : exec[t].pc = "run" =>
       /\ work[t][c].pc \in Preparing =>
            \A n \in 1..Len(attempts[c]) : ~Usable(attempts[c][n])
       /\ work[t][c].pc \in {"call", "persist", "complete"} =>
            work[t][c].att = Len(attempts[c])

LEMMA CaptureFrame ==
  ASSUME CaptureInv, UNCHANGED attempts,
         \A t \in Tasks, c \in Cases : exec'[t].pc = "run" =>
           \/ exec[t].pc = "run" /\ work'[t][c] = work[t][c]
           \/ work'[t][c].pc \in {"none", "queued"}
  PROVE  CaptureInv'
BY DEF CaptureInv, Preparing

(* What has to be shown of the case that a coroutine moves. *)
LEMMA CaptureStep ==
  ASSUME TypeOK, SoleInv, CaptureInv, NEW t \in Tasks, NEW c \in Cases, At(t, "run"),
         \A u \in Tasks : exec'[u].pc = exec[u].pc,
         NEW pc \in WorkerPcs, NEW att \in Nat, Step(t, c, pc, att),
         \A d \in Cases \ {c} : attempts'[d] = attempts[d],
         \A n \in 1..Len(attempts'[c]) : n < Len(attempts'[c]) => ~Usable(attempts'[c][n]),
         pc \in Preparing => \A n \in 1..Len(attempts'[c]) : ~Usable(attempts'[c][n]),
         pc \in {"call", "persist", "complete"} => att = Len(attempts'[c])
  PROVE  CaptureInv'
<1>1. /\ work'[t][c].pc = pc /\ work'[t][c].att = att
      /\ \A u \in Tasks, d \in Cases : u # t \/ d # c => work'[u][d] = work[u][d]
  BY StepMoves DEF TypeOK
<1>2. \A u \in Tasks : exec'[u].pc = "run" => u = t
  BY DEF SoleInv, Live, At
<1>3. \A d \in Cases : \A n \in 1..Len(attempts'[d]) :
        n < Len(attempts'[d]) => ~Usable(attempts'[d][n])
  BY DEF CaptureInv
<1>4. ASSUME NEW d \in Cases
      PROVE  /\ work'[t][d].pc \in Preparing =>
                  \A n \in 1..Len(attempts'[d]) : ~Usable(attempts'[d][n])
             /\ work'[t][d].pc \in {"call", "persist", "complete"} =>
                  work'[t][d].att = Len(attempts'[d])
  <2>1. CASE d = c
    BY <1>1, <2>1
  <2>2. CASE d # c
    BY <1>1, <2>2 DEF CaptureInv, At
  <2> QED
    BY <2>1, <2>2
<1> QED
  BY <1>2, <1>3, <1>4 DEF CaptureInv

LEMMA DecisionCaptures ==
  ASSUME ~ReadFaults, TypeOK, SoleInv, CaptureInv, NEW t \in Tasks, NEW c \in Cases,
         DecideCase(t, c)
  PROVE  CaptureInv'
<1> DEFINE latest == Len(attempts[c])
           action(stale) == DecideRecovery(caseStatus[c], LatestEvidence(c, TRUE, stale), Caps)
           Unused == \A n \in 1..latest : ~Usable(attempts[c][n])
<1>1. /\ At(t, "run") /\ UNCHANGED <<exec, attempts>> /\ latest \in Nat
      /\ Att(t, c) \in Nat
  BY AttemptDomain DEF DecideCase, Working, At, dbVars, TypeOK, Att, Worker
<1>2. ASSUME NEW stale \in BOOLEAN,
             action(stale) \in {"RECOVER_REQUEST", "IDEMPOTENT_REPLAY", "EXECUTE_NEW",
                                "MARK_UNKNOWN"}
      PROVE  Unused
  <2>1. latest > 0 => ~Usable(attempts[c][latest])
    BY <1>2 DEF DecideRecovery, LatestEvidence, Usable
  <2> QED
    BY <1>1, <2>1 DEF CaptureInv
<1> HIDE DEF action
<1>3. \E stale \in BOOLEAN :
        \/ Step(t, c, "done", 0)
        \/ Step(t, c, "complete", latest)
        \/ /\ action(stale) \in {"RECOVER_REQUEST", "IDEMPOTENT_REPLAY", "EXECUTE_NEW",
                                 "MARK_UNKNOWN"}
           /\ Step(t, c, "reset", 0)
  BY DEF DecideCase, action
<1>4. \A n \in 1..Len(attempts'[c]) : n < Len(attempts'[c]) => ~Usable(attempts'[c][n])
  BY <1>1 DEF CaptureInv
<1>5. CASE Step(t, c, "done", 0)
  BY <1>1, <1>4, <1>5, CaptureStep DEF WorkerPcs, Preparing
<1>6. CASE Step(t, c, "complete", latest)
  BY <1>1, <1>4, <1>6, CaptureStep DEF WorkerPcs, Preparing
<1>7. CASE Unused /\ Step(t, c, "reset", 0)
  BY <1>1, <1>4, <1>7, CaptureStep DEF WorkerPcs, Preparing
<1> QED
  BY <1>2, <1>3, <1>5, <1>6, <1>7

LEMMA PreparationCaptures ==
  ASSUME TypeOK, SoleInv, CaptureInv, NEW t \in Tasks, NEW c \in Cases,
         \/ InspectForReset(t, c) \/ ResetCase(t, c) \/ NumberAttempt(t, c)
         \/ InspectForRegister(t, c) \/ WorkFails(t, c) \/ CallTarget(t, c)
  PROVE  CaptureInv'
<1>1. /\ At(t, "run") /\ UNCHANGED <<exec, attempts>>
  BY DEF InspectForReset, ResetCase, NumberAttempt, InspectForRegister, WorkFails,
         CallTarget, Working, At, dbVars
<1>2. Att(t, c) \in Nat /\ Len(attempts[c]) + 1 \in Nat
  BY AttemptDomain DEF TypeOK, Att, Worker
<1>3. \E pc \in WorkerPcs, att \in Nat :
        /\ Step(t, c, pc, att)
        /\ \/ pc \in {"done", "fail"}
           \/ pc \in Preparing /\ work[t][c].pc \in Preparing
           \/ pc = "persist" /\ work[t][c].pc = "call" /\ att = work[t][c].att
  BY <1>2 DEF InspectForReset, ResetCase, NumberAttempt, InspectForRegister, WorkFails,
         CallTarget, Working, WorkerPcs, Preparing, Att
<1>4. PICK pc \in WorkerPcs, att \in Nat :
        /\ Step(t, c, pc, att)
        /\ \/ pc \in {"done", "fail"}
           \/ pc \in Preparing /\ work[t][c].pc \in Preparing
           \/ pc = "persist" /\ work[t][c].pc = "call" /\ att = work[t][c].att
  BY <1>3
<1>5. /\ \A n \in 1..Len(attempts'[c]) : n < Len(attempts'[c]) => ~Usable(attempts'[c][n])
      /\ pc \in Preparing => \A n \in 1..Len(attempts'[c]) : ~Usable(attempts'[c][n])
      /\ pc \in {"call", "persist", "complete"} => att = Len(attempts'[c])
  BY <1>1, <1>4 DEF CaptureInv, At, Preparing
<1> QED
  BY <1>1, <1>4, <1>5, CaptureStep

LEMMA RegistrationCaptures ==
  ASSUME TypeOK, KnownAttempts, SoleInv, CaptureInv, NEW t \in Tasks, NEW c \in Cases,
         RegisterAttempt(t, c)
  PROVE  CaptureInv'
<1>1. /\ At(t, "run") /\ UNCHANGED exec /\ work[t][c].pc = "open"
      /\ Len(attempts[c]) \in Nat
      /\ Att(t, c) \in 1..(Len(attempts[c]) + 1)
  BY AttemptDomain DEF RegisterAttempt, Working, At, TypeOK, KnownAttempts, Att
<1>2. \A n \in 1..Len(attempts[c]) : ~Usable(attempts[c][n])
  BY <1>1 DEF CaptureInv, At, Preparing
<1>3. CASE Step(t, c, "fail", Att(t, c)) /\ UNCHANGED attempts
  BY <1>1, <1>2, <1>3, CaptureStep DEF WorkerPcs, Preparing
<1>4. CASE /\ ~Collides(c, Att(t, c))
           /\ attempts' = [attempts EXCEPT ![c] = Append(@, NewAttempt)]
           /\ Step(t, c, "call", Att(t, c))
  <2>1. NewAttempt \in AttemptRow
    BY DEF NewAttempt, AttemptRow
  <2>2. /\ \A d \in Cases \ {c} : attempts'[d] = attempts[d]
        /\ Len(attempts'[c]) = Len(attempts[c]) + 1
        /\ \A m \in 1..Len(attempts[c]) : attempts'[c][m] = attempts[c][m]
    BY <1>4, <2>1, AppendRow DEF TypeOK
  <2>3. Att(t, c) = Len(attempts'[c]) /\ Att(t, c) \in Nat
    BY <1>1, <1>4, <2>2 DEF Collides
  <2>4. \A n \in 1..Len(attempts'[c]) : n < Len(attempts'[c]) => ~Usable(attempts'[c][n])
    BY <1>1, <1>2, <2>2
  <2> QED
    BY <1>1, <1>4, <2>2, <2>3, <2>4, CaptureStep DEF WorkerPcs, Preparing
<1> QED
  BY <1>3, <1>4 DEF RegisterAttempt

LEMMA ResultCaptures ==
  ASSUME TypeOK, KnownAttempts, SoleInv, CaptureInv, NEW t \in Tasks, NEW c \in Cases,
         PersistResponse(t, c) \/ CompleteCase(t, c)
  PROVE  CaptureInv'
<1> DEFINE n == Att(t, c)
<1>1. /\ At(t, "run") /\ UNCHANGED exec
      /\ n \in 1..Len(attempts[c]) /\ n = Len(attempts[c])
  BY DEF PersistResponse, CompleteCase, Working, At, KnownAttempts, Att, CaptureInv
<1>2. attempts[c][n] \in AttemptRow
  BY <1>1, RowTyped DEF TypeOK
<1>3. PICK row \in AttemptRow : Amend(c, n, row)
  <2>1. CASE PersistResponse(t, c)
    <3> DEFINE after(raw) == [attempts[c][n] EXCEPT !.raw = raw]
    <3>1. after("good") \in AttemptRow /\ after("bad") \in AttemptRow
      BY <1>2, StoredRow
    <3>2. Amend(c, n, after("good")) \/ Amend(c, n, after("bad"))
      BY <2>1 DEF PersistResponse
    <3> HIDE DEF after
    <3> QED
      BY <3>1, <3>2
  <2>2. CASE CompleteCase(t, c)
    <3> DEFINE after == [attempts[c][n] EXCEPT !.observed = TRUE,
                                               !.status = "RESPONSE_RECEIVED"]
    <3>1. after \in AttemptRow
      BY <1>2, ObservedRow
    <3>2. Amend(c, n, after)
      BY <2>2 DEF CompleteCase, ObserveAttempt
    <3> HIDE DEF after
    <3> QED
      BY <3>1, <3>2
  <2> QED
    BY <2>1, <2>2
<1>4. /\ attempts' \in [Cases -> Seq(AttemptRow)]
      /\ \A d \in Cases : Len(attempts'[d]) = Len(attempts[d])
      /\ \A d \in Cases : \A m \in 1..Len(attempts[d]) :
           d # c \/ m # n => attempts'[d][m] = attempts[d][m]
  BY <1>1, <1>3, AmendRow DEF TypeOK
<1>5. \A d \in Cases \ {c} : attempts'[d] = attempts[d]
  BY <1>3 DEF Amend, TypeOK
<1>6. \A m \in 1..Len(attempts'[c]) : m < Len(attempts'[c]) => ~Usable(attempts'[c][m])
  BY <1>1, <1>4 DEF CaptureInv
<1>7. \E pc \in {"complete", "fail", "done"} : Step(t, c, pc, n)
  BY DEF PersistResponse, CompleteCase
<1>8. n \in Nat /\ n = Len(attempts'[c])
  BY <1>1, <1>4
<1> HIDE DEF n
<1> QED
  BY <1>1, <1>5, <1>6, <1>7, <1>8, CaptureStep DEF WorkerPcs, Preparing

LEMMA FailureCaptures ==
  ASSUME TypeOK, SoleInv, CaptureInv, NEW t \in Tasks, NEW c \in Cases,
         RecordFailure(t, c)
  PROVE  CaptureInv'
<1>1. Att(t, c) \in Nat
  BY DEF Att, TypeOK, Worker
<1>2. /\ At(t, "run") /\ \A u \in Tasks : exec'[u].pc = exec[u].pc
      /\ Step(t, c, "done", Att(t, c))
  BY CaseMoves DEF CaseStep, RecordFailure
<1>3. UNCHANGED attempts \/ FailAttempt(c, Att(t, c))
  BY DEF RecordFailure
<1>4. \A d \in Cases :
        /\ Len(attempts'[d]) = Len(attempts[d])
        /\ \A m \in 1..Len(attempts[d]) :
             /\ attempts'[d][m].raw = attempts[d][m].raw
             /\ attempts'[d][m].observed = attempts[d][m].observed
  BY <1>1, <1>3, FailTyped DEF TypeOK
<1>5. \A d \in Cases \ {c} : attempts'[d] = attempts[d]
  BY <1>3 DEF FailAttempt, Amend, TypeOK
<1>6. \A m \in 1..Len(attempts'[c]) : m < Len(attempts'[c]) => ~Usable(attempts'[c][m])
  BY <1>4 DEF CaptureInv, Usable
<1> QED
  BY <1>1, <1>2, <1>5, <1>6, CaptureStep DEF WorkerPcs, Preparing

LEMMA CaptureKept ==
  ASSUME ~ReadFaults, Inv, SoleInv, CaptureInv, [Next]_vars
  PROVE  CaptureInv'
<1>1. TypeOK /\ KnownAttempts /\ handler \in [Requests -> Handler] /\ exec \in [Tasks -> Task]
  BY DEF Inv, TypeOK, LedgerInv
<1>2. ASSUME UNCHANGED <<attempts, work>>, \A t \in Tasks : exec'[t].pc = "run" => exec[t].pc = "run"
      PROVE  CaptureInv'
  BY <1>2, CaptureFrame
<1>3. ASSUME NEW r \in Requests, (\E kind \in Kinds : ReadRun(r, kind)) \/ Answer(r)
      PROVE  CaptureInv'
  <2>1. UNCHANGED <<attempts, work>>
    BY <1>3 DEF ReadRun, Answer, CommitPause, LockForCancel, CommitCancel, CommitRetry,
                CommitResume, OpenResume, RollBackResume, dbVars
  <2>2. UNCHANGED exec \/ \E scope, only : Spawn(r, scope, only)
    BY <1>3 DEF ReadRun, Answer, CommitPause, LockForCancel, CommitCancel, CommitRetry,
                CommitResume, OpenResume, RollBackResume
  <2> QED
    BY <1>1, <1>2, <2>1, <2>2, SpawnMoves
<1>4. ASSUME NEW t \in Tasks, RunSteps(t) PROVE CaptureInv'
  <2>1. UNCHANGED attempts /\ \A u \in Tasks \ {t} : exec'[u] = exec[u]
    BY <1>1, <1>4, RunMoves
  <2>2. CASE SelectCases(t)
    <3>1. /\ \A c \in Cases : work'[t][c].pc \in {"none", "queued"}
          /\ \A u \in Tasks \ {t} : work'[u] = work[u]
      BY <1>1, <2>2 DEF SelectCases, TypeOK
    <3> QED
      BY <2>1, <3>1, CaptureFrame
  <2>3. CASE ~SelectCases(t)
    <3>1. UNCHANGED work
      BY <1>4, <2>3 DEF RunSteps, CheckRun, ClaimRun, FinishRead, FinishWrite, AggregateRun,
                  TaskFails, InspectFailedRun, MarkRunFailed
    <3>2. exec'[t].pc # "run"
      <4>1. CASE FinishRead(t)
        <5> DEFINE e == [exec[t] EXCEPT !.pc = "settle", !.verdict = Verdict(exec[t].failed)]
        <5>1. e.pc = "settle"
          BY <1>1 DEF Task
        <5>2. exec' = [exec EXCEPT ![t] = e]
          BY <1>1, <4>1 DEF FinishRead
        <5> HIDE DEF e
        <5> QED
          BY <1>1, <5>1, <5>2
      <4>2. CASE ~FinishRead(t)
        <5>1. \E pc \in {"claim", "select", "aggregate", "failing", "marking", "done"} : Goto(t, pc)
          BY <1>4, <2>3, <4>2
          DEF RunSteps, CheckRun, ClaimRun, FinishWrite, AggregateRun, TaskFails,
              InspectFailedRun, MarkRunFailed
        <5> QED
          BY <1>1, <5>1, GotoMoves
      <4> QED
        BY <4>1, <4>2
    <3> QED
      BY <1>2, <2>1, <3>1, <3>2
  <2> QED
    BY <2>2, <2>3
<1>5. ASSUME NEW t \in Tasks, NEW c \in Cases, CaseStep(t, c) PROVE CaptureInv'
  BY <1>1, <1>5, DecisionCaptures, PreparationCaptures, RegistrationCaptures,
     ResultCaptures, FailureCaptures DEF CaseStep
<1>6. CASE Crash
  <2>1. UNCHANGED attempts /\ \A t \in Tasks : ~Live(t)'
    BY <1>1, <1>6, CrashMoves
  <2> QED
    BY <2>1, CaptureFrame DEF Live
<1>7. CASE MarkInterrupted \/ UNCHANGED vars
  BY <1>2, <1>7 DEF MarkInterrupted, procVars, vars
<1> QED
  BY <1>3, <1>4, <1>5, <1>6, <1>7 DEF Next, TaskStep, RunSteps

LEMMA CaptureAlways == ASSUME Patient, ~ReadFaults PROVE Spec => []CaptureInv
<1>1. Init => CaptureInv
  <2> SUFFICES ASSUME Init PROVE CaptureInv
    OBVIOUS
  <2>1. \A c \in Cases : Len(attempts[c]) = 0
    BY DEF Init
  <2>2. \A t \in Tasks : exec[t].pc # "run"
    BY DEF Init, NoTask
  <2> QED
    BY <2>1, <2>2 DEF CaptureInv
<1>2. Inv /\ SoleInv /\ CaptureInv /\ [Next]_vars => CaptureInv'
  BY CaptureKept
<1> QED
  BY <1>1, <1>2, Invariance, SoleAlways, PTL DEF Spec

(* The central promise of the resilience design: while operators restart a *)
(* run only when nothing goes on and stored responses can be read, no new  *)
(* attempt of a case is opened once a usable response of it is stored, for *)
(* any target, any number of cases, retries, faults and crashes.           *)
THEOREM RegenerationCorrect == ASSUME Patient, ~ReadFaults PROVE Spec => NeverRegenerates
<1> DEFINE Fresh == \A c \in Cases :
                      Len(attempts'[c]) > Len(attempts[c]) => ~Captured(c)
<1>1. Inv /\ CaptureInv /\ [Next]_vars => [Fresh]_attempts
  <2> SUFFICES ASSUME Inv, CaptureInv, [Next]_vars, attempts' # attempts PROVE Fresh
    OBVIOUS
  <2>1. TypeOK /\ KnownAttempts
    BY DEF Inv, LedgerInv
  <2>2. \A d \in Cases : Len(attempts[d]) \in Nat /\ DOMAIN attempts[d] = 1..Len(attempts[d])
    BY <2>1, AttemptDomain DEF TypeOK
  <2> PICK t \in Tasks, c \in Cases :
             RegisterAttempt(t, c) \/ PersistResponse(t, c) \/ CompleteCase(t, c)
               \/ RecordFailure(t, c)
    BY AttemptWriters
  <2>3. \A d \in Cases \ {c} : attempts'[d] = attempts[d]
    BY <2>1
    DEF RegisterAttempt, PersistResponse, CompleteCase, RecordFailure, ObserveAttempt,
        FailAttempt, Amend, TypeOK
  <2>4. CASE RegisterAttempt(t, c)
    <3>1. \A n \in 1..Len(attempts[c]) : ~Usable(attempts[c][n])
      BY <2>4 DEF RegisterAttempt, Working, CaptureInv, Preparing
    <3>2. ~Captured(c)
      BY <2>2, <3>1 DEF Captured, Usable
    <3> QED
      BY <2>2, <2>3, <3>2
  <2>5. CASE ~RegisterAttempt(t, c)
    <3>1. \E n, row : Amend(c, n, row)
      BY <2>5 DEF PersistResponse, CompleteCase, RecordFailure, ObserveAttempt, FailAttempt
    <3>2. PICK n, row : Amend(c, n, row)
      BY <3>1
    <3>3. Len(attempts'[c]) = Len(attempts[c])
      <4> DEFINE s == [attempts[c] EXCEPT ![n] = row]
      <4>1. attempts[c] \in Seq(AttemptRow \cup {row})
        BY <2>1 DEF TypeOK
      <4>2. Len(s) = Len(attempts[c])
        BY <4>1
      <4>3. attempts' = [attempts EXCEPT ![c] = s]
        BY <3>2 DEF Amend
      <4> HIDE DEF s
      <4> QED
        BY <2>1, <4>2, <4>3 DEF TypeOK
    <3> QED
      BY <2>2, <2>3, <3>3
  <2> QED
    BY <2>4, <2>5
<1> QED
  BY <1>1, Invariance, CaptureAlways, PTL DEF Spec, NeverRegenerates

-----------------------------------------------------------------------------
(* The attempts of a run are a ledger (AttemptLedger)                        *)

(* What the ledger sees of an attempt, and of all attempts of a case. *)
EntryOf(row) == [raw |-> row.raw, observed |-> row.observed]
EntriesOf(s) == [n \in DOMAIN s |-> EntryOf(s[n])]

LEMMA EntriesAppend ==
  ASSUME NEW s \in Seq(AttemptRow), NEW row \in AttemptRow
  PROVE  EntriesOf(Append(s, row)) = Append(EntriesOf(s), EntryOf(row))
<1> DEFINE R == [raw : {"none", "good", "bad"}, observed : BOOLEAN]
           t == Append(s, row)
           e == EntriesOf(s)
<1>1. /\ t \in Seq(AttemptRow) /\ Len(t) = Len(s) + 1 /\ t[Len(s) + 1] = row
      /\ \A n \in 1..Len(s) : t[n] = s[n]
  BY AppendProperties
<1>2. \A x \in AttemptRow : EntryOf(x) \in R
  BY DEF AttemptRow, EntryOf
<1>3. DOMAIN s = 1..Len(s) /\ Len(s) \in Nat /\ DOMAIN t = 1..(Len(s) + 1)
  BY <1>1
<1>4. \A n \in 1..Len(s) : EntryOf(s[n]) \in R
  BY <1>2
<1> HIDE DEF R, t
<1>5. e \in Seq(R) /\ Len(e) = Len(s) /\ \A n \in 1..Len(s) : e[n] = EntryOf(s[n])
  BY <1>3, <1>4 DEF EntriesOf
<1>6. EntryOf(row) \in R
  BY <1>2
<1> HIDE DEF e
<1> DEFINE a == Append(e, EntryOf(row))
<1>7. /\ a \in Seq(R)
      /\ Len(a) = Len(s) + 1
      /\ \A n \in 1..Len(s) : a[n] = e[n]
      /\ a[Len(s) + 1] = EntryOf(row)
  BY <1>5, <1>6, AppendProperties
<1> HIDE DEF a
<1>8. a = [n \in 1..(Len(s) + 1) |-> a[n]]
  BY <1>7
<1>9. \A n \in 1..(Len(s) + 1) : EntryOf(t[n]) = a[n]
  BY <1>1, <1>3, <1>5, <1>7
<1>10. EntriesOf(t) = [n \in 1..(Len(s) + 1) |-> EntryOf(t[n])]
  BY <1>3 DEF EntriesOf
<1> QED
  BY <1>8, <1>9, <1>10 DEF t, e, a

(* One row of a history is another one, the rest is as it was. *)
LEMMA EntriesAmend ==
  ASSUME NEW s \in Seq(AttemptRow), NEW t \in Seq(AttemptRow), Len(t) = Len(s),
         NEW n \in 1..Len(s), \A m \in 1..Len(s) : m # n => t[m] = s[m]
  PROVE  EntriesOf(t) = [EntriesOf(s) EXCEPT ![n] = EntryOf(t[n])]
<1>1. DOMAIN s = 1..Len(s) /\ DOMAIN t = 1..Len(s)
  OBVIOUS
<1> QED
  BY <1>1 DEF EntriesOf

(* The variables of the ledger. *)
History  == [c \in Cases |-> EntriesOf(attempts[c])]
Finished == CasesIn({"COMPLETE"})

LEMMA LedgerVars ==
  /\ Ledger!ledger = <<History, called, Finished>>
  /\ \A c \in Cases : TypeOK =>
       Ledger!Current(c) = IF Patient /\ ~ReadFaults THEN {Len(attempts[c])} \ {0}
                           ELSE 1..Len(attempts[c])
<1>1. Ledger!ledger = <<History, called, Finished>>
  BY DEF Ledger!ledger, History, EntriesOf, EntryOf, Finished
<1>2. ASSUME NEW c \in Cases, TypeOK
      PROVE  DOMAIN History[c] = 1..Len(attempts[c]) /\ Len(History[c]) = Len(attempts[c])
  <2>1. attempts[c] \in Seq(AttemptRow)
    BY <1>2 DEF TypeOK
  <2>2. EntriesOf(attempts[c]) = [n \in 1..Len(attempts[c]) |-> EntryOf(attempts[c][n])]
    BY <2>1 DEF EntriesOf
  <2> QED
    BY <2>1, <2>2 DEF History
<1>3. ASSUME NEW c \in Cases, TypeOK
      PROVE  Ledger!Current(c) = IF Patient /\ ~ReadFaults THEN {Len(attempts[c])} \ {0}
                                 ELSE 1..Len(attempts[c])
  <2>1. Ledger!Current(c) = IF Patient /\ ~ReadFaults THEN {Len(History[c])} \ {0}
                            ELSE DOMAIN History[c]
    BY DEF Ledger!Current, History, EntriesOf, EntryOf
  <2> QED
    BY <1>2, <1>3, <2>1
<1> QED
  BY <1>1, <1>3

LEMMA ServeAction ==
  Ledger!Serve <=>
    /\ called \subseteq called'
    /\ called' \ called \subseteq UNION {{c} \X Ledger!Current(c) : c \in Cases}
    /\ UNCHANGED <<History, Finished>>
BY DEF Ledger!Serve, Finished, History, EntriesOf, EntryOf

LEMMA OverwriteAction ==
  Ledger!Overwrite <=> Finished' \subseteq Finished /\ UNCHANGED <<History, called>>
BY DEF Ledger!Overwrite, Finished, History, EntriesOf, EntryOf

LEMMA OpenAction ==
  ASSUME NEW c \in Cases
  PROVE  Ledger!Open(c) <=>
           /\ Patient /\ ~ReadFaults => Ledger!Unusable(c)
           /\ History' = [History EXCEPT ![c] = Append(@, Ledger!Blank)]
           /\ Finished' = Finished \ {c}
           /\ UNCHANGED called
BY DEF Ledger!Open, Finished, History, EntriesOf, EntryOf

(* An entry of the ledger changes as its row does. *)
LEMMA EntryAmended ==
  ASSUME NEW row, NEW before, NEW raw, NEW observed
  PROVE  /\ row.raw = before.raw /\ row.observed = observed =>
              EntryOf(row) = [EntryOf(before) EXCEPT !.observed = observed]
         /\ row.observed = before.observed /\ row.raw = raw =>
              EntryOf(row) = [EntryOf(before) EXCEPT !.raw = raw]
BY DEF EntryOf

LEMMA CaptureAction ==
  ASSUME NEW c \in Cases, NEW n, NEW raw, NEW row, <<c, n>> \in called,
         History[c][n] = EntryOf(attempts[c][n]), attempts[c][n].raw = "none",
         row.observed = attempts[c][n].observed, row.raw = raw,
         History' = [History EXCEPT ![c][n] = EntryOf(row)], UNCHANGED <<called, Finished>>
  PROVE  Ledger!Capture(c, n, raw)
<1>1. EntryOf(row) = [History[c][n] EXCEPT !.raw = raw] /\ History[c][n].raw = "none"
  BY EntryAmended DEF EntryOf
<1>2. Ledger!Capture(c, n, raw) <=>
        /\ <<c, n>> \in called
        /\ History[c][n].raw = "none"
        /\ History' = [History EXCEPT ![c][n] = [History[c][n] EXCEPT !.raw = raw]]
        /\ UNCHANGED <<called, Finished>>
  BY DEF Ledger!Capture, Ledger!Amend, Finished, History, EntriesOf, EntryOf
<1> QED
  BY <1>1, <1>2

LEMMA CompleteAction ==
  ASSUME NEW c \in Cases, NEW n, NEW row, <<c, n>> \in called,
         History[c][n] = EntryOf(attempts[c][n]),
         row.raw = attempts[c][n].raw, row.observed = TRUE,
         History' = [History EXCEPT ![c][n] = EntryOf(row)],
         Finished' = Finished \cup {c}, UNCHANGED called
  PROVE  Ledger!Complete(c, n)
<1>1. EntryOf(row) = [History[c][n] EXCEPT !.observed = TRUE]
  BY EntryAmended
<1>2. Ledger!Complete(c, n) <=>
        /\ <<c, n>> \in called
        /\ History' = [History EXCEPT ![c][n] = [History[c][n] EXCEPT !.observed = TRUE]]
        /\ Finished' = Finished \cup {c}
        /\ UNCHANGED called
  BY DEF Ledger!Complete, Ledger!Amend, Finished, History, EntriesOf, EntryOf
<1> QED
  BY <1>1, <1>2

(* What a step has to show of the cases whose attempts it leaves alone. *)
LEMMA OverwriteStep ==
  ASSUME TypeOK, TypeOK', SameResults, UNCHANGED called,
         \A c \in Cases : caseStatus'[c] = "COMPLETE" => caseStatus[c] = "COMPLETE"
  PROVE  Ledger!Overwrite
<1>1. ASSUME NEW c \in Cases PROVE EntriesOf(attempts[c])' = EntriesOf(attempts[c])
  <2>1. attempts[c] \in Seq(AttemptRow) /\ attempts'[c] \in Seq(AttemptRow)
    BY DEF TypeOK
  <2>2. DOMAIN attempts[c] = 1..Len(attempts[c]) /\ DOMAIN attempts'[c] = 1..Len(attempts[c])
    BY <2>1 DEF SameResults
  <2> QED
    BY <2>2 DEF EntriesOf, EntryOf, SameResults
<1>2. Finished' \subseteq Finished
  BY DEF Finished, CasesIn
<1> QED
  BY <1>1, <1>2, OverwriteAction DEF History

LEMMA ServeStep ==
  ASSUME TypeOK, LedgerInv, Patient /\ ~ReadFaults => CaptureInv,
         UNCHANGED <<attempts, caseStatus>>, called \subseteq called',
         called' \ called \subseteq InFlight
  PROVE  Ledger!Serve
<1> SUFFICES ASSUME NEW request \in called' \ called
             PROVE  request \in UNION {{c} \X Ledger!Current(c) : c \in Cases}
  BY ServeAction DEF History, Finished, CasesIn
<1>1. PICK t \in Tasks, c \in Cases :
        request = <<c, work[t][c].att>> /\ exec[t].pc = "run" /\ work[t][c].pc = "call"
  <2>1. request \in InFlight
    OBVIOUS
  <2> QED
    BY <2>1 DEF InFlight, Working, Att
<1>2. work[t][c].att \in 1..Len(attempts[c])
  BY <1>1 DEF LedgerInv, KnownAttempts
<1>3. Patient /\ ~ReadFaults => work[t][c].att = Len(attempts[c])
  BY <1>1 DEF CaptureInv
<1>4. work[t][c].att \in Ledger!Current(c)
  BY <1>2, <1>3, LedgerVars
<1> QED
  BY <1>1, <1>4

LEMMA OpenStep ==
  ASSUME TypeOK, LedgerInv, Patient /\ ~ReadFaults => CaptureInv,
         NEW t \in Tasks, NEW c \in Cases, RegisterAttempt(t, c),
         ~Collides(c, Att(t, c))
  PROVE  Ledger!Open(c)
<1>1. attempts[c] \in Seq(AttemptRow) /\ NewAttempt \in AttemptRow
  BY DEF TypeOK, NewAttempt, AttemptRow
<1>2. attempts' = [attempts EXCEPT ![c] = Append(attempts[c], NewAttempt)]
      /\ caseStatus' = [caseStatus EXCEPT ![c] = "RUNNING"] /\ UNCHANGED called
  BY DEF RegisterAttempt, envVars
<1>3. EntriesOf(Append(attempts[c], NewAttempt)) = Append(History[c], Ledger!Blank)
  <2>1. EntryOf(NewAttempt) = Ledger!Blank
    BY DEF EntryOf, NewAttempt, Ledger!Blank
  <2> QED
    BY <1>1, <2>1, EntriesAppend DEF History
<1>4. History' = [History EXCEPT ![c] = Append(@, Ledger!Blank)]
  <2>1. \A d \in Cases : attempts'[d] = IF d = c THEN Append(attempts[c], NewAttempt)
                                        ELSE attempts[d]
    BY <1>2 DEF TypeOK
  <2> QED
    BY <1>3, <2>1 DEF History
<1>5. Finished' = Finished \ {c}
  BY <1>2 DEF Finished, CasesIn, TypeOK
<1>6. ASSUME Patient, ~ReadFaults PROVE Ledger!Unusable(c)
  <2>1. \A n \in 1..Len(attempts[c]) : ~Usable(attempts[c][n])
    BY <1>6 DEF RegisterAttempt, Working, CaptureInv, Preparing
  <2>2. DOMAIN History[c] = 1..Len(attempts[c])
        /\ \A n \in 1..Len(attempts[c]) : History[c][n] = EntryOf(attempts[c][n])
    BY <1>1 DEF History, EntriesOf
  <2>3. Ledger!Unusable(c) <=> \A n \in DOMAIN History[c] : ~Ledger!Usable(History[c][n])
    BY DEF Ledger!Unusable, Ledger!Usable, History, EntriesOf, EntryOf
  <2>4. ASSUME NEW n \in 1..Len(attempts[c]) PROVE ~Ledger!Usable(EntryOf(attempts[c][n]))
    <3>1. attempts[c][n] \in AttemptRow /\ ~Usable(attempts[c][n])
      BY <1>1, <2>1
    <3> QED
      BY <3>1 DEF Usable, Ledger!Usable, EntryOf, AttemptRow
  <2> QED
    BY <2>2, <2>3, <2>4
<1>7. Ledger!Open(c) <=>
        /\ Patient /\ ~ReadFaults => Ledger!Unusable(c)
        /\ History' = [History EXCEPT ![c] = Append(@, Ledger!Blank)]
        /\ Finished' = Finished \ {c}
        /\ UNCHANGED called
  BY OpenAction
<1> QED
  BY <1>2, <1>4, <1>5, <1>6, <1>7

LEMMA AmendStep ==
  ASSUME TypeOK, NEW c \in Cases, NEW n \in 1..Len(attempts[c]), NEW row \in AttemptRow,
         Amend(c, n, row)
  PROVE  /\ History' = [History EXCEPT ![c][n] = EntryOf(row)]
         /\ History[c][n] = EntryOf(attempts[c][n])
<1> DEFINE s == attempts[c]
           t == attempts'[c]
<1>1. /\ t \in Seq(AttemptRow) /\ s \in Seq(AttemptRow) /\ Len(t) = Len(s)
      /\ t[n] = row /\ \A m \in 1..Len(s) : m # n => t[m] = s[m]
  BY AmendRow DEF TypeOK
<1>2. \A d \in Cases \ {c} : attempts'[d] = attempts[d]
  BY DEF Amend, TypeOK
<1>3. History' = [History EXCEPT ![c] = EntriesOf(t)] /\ History[c] = EntriesOf(s)
  BY <1>2 DEF History
<1>4. n \in 1..Len(s)
  OBVIOUS
<1> HIDE DEF s, t
<1>5. EntriesOf(t) = [EntriesOf(s) EXCEPT ![n] = EntryOf(row)]
  <2>1. EntriesOf(t) = [EntriesOf(s) EXCEPT ![n] = EntryOf(t[n])]
    BY <1>1, <1>4, EntriesAmend
  <2> QED
    BY <1>1, <2>1
<1>6. EntriesOf(s)[n] = EntryOf(s[n])
  BY <1>1, <1>4 DEF EntriesOf
<1> QED
  BY <1>3, <1>5, <1>6 DEF s

(* What a step of a coroutine does to the ledger. *)
LEMMA WorkSteps ==
  ASSUME Inv, TypeOK', Patient /\ ~ReadFaults => CaptureInv,
         NEW t \in Tasks, NEW c \in Cases,
         RegisterAttempt(t, c) \/ PersistResponse(t, c) \/ CompleteCase(t, c)
           \/ RecordFailure(t, c)
  PROVE  Ledger!LedgerNext
<1>1. TypeOK /\ LedgerInv
  BY DEF Inv
<1>2. UNCHANGED called
  BY DEF RegisterAttempt, PersistResponse, CompleteCase, RecordFailure, envVars
<1>3. Att(t, c) \in Nat
  <2>1. work[t][c] \in Worker
    BY <1>1 DEF TypeOK
  <2> QED
    BY <2>1 DEF Att, Worker
<1>4. PICK n \in Nat : n = Att(t, c)
  BY <1>3
<1>5. CASE RegisterAttempt(t, c)
  <2>1. CASE ~Collides(c, n)
    BY <1>1, <1>5, <1>4, <2>1, OpenStep DEF Ledger!LedgerNext, Ledger!Advance
  <2>2. CASE Collides(c, n)
    <3>1. UNCHANGED <<attempts, caseStatus>>
      BY <1>5, <1>4, <2>2 DEF RegisterAttempt
    <3> QED
      BY <1>1, <1>2, <3>1, OverwriteStep DEF SameResults, Ledger!LedgerNext
  <2> QED
    BY <2>1, <2>2
<1>6. CASE PersistResponse(t, c) \/ CompleteCase(t, c)
  <2>1. /\ n \in 1..Len(attempts[c]) /\ <<c, n>> \in called
        /\ Patient /\ ~ReadFaults => n = Len(attempts[c])
    BY <1>1, <1>6, <1>4
    DEF PersistResponse, CompleteCase, Working, Att, LedgerInv, KnownAttempts,
        ResultsWereServed, CaptureInv
  <2>2. n \in Ledger!Current(c)
    BY <1>1, <2>1, LedgerVars
  <2>3. attempts[c][n] \in AttemptRow
    BY <1>1, <2>1, RowTyped DEF TypeOK
  <2>4. CASE PersistResponse(t, c)
    <3>1. attempts[c][n].raw = "none" /\ UNCHANGED caseStatus
      BY <1>1, <1>4, <2>4 DEF PersistResponse, Working, Att, LedgerInv, NothingStoredYet
    <3>2. PICK raw \in {"good", "bad"} : Amend(c, n, [attempts[c][n] EXCEPT !.raw = raw])
      BY <1>4, <2>4 DEF PersistResponse
    <3> DEFINE row == [attempts[c][n] EXCEPT !.raw = raw]
    <3>3. row \in AttemptRow /\ row.observed = attempts[c][n].observed /\ row.raw = raw
      BY <2>3, StoredRow DEF AttemptRow
    <3>4. Amend(c, n, row)
      BY <3>2
    <3> HIDE DEF row
    <3>5. /\ History' = [History EXCEPT ![c][n] = EntryOf(row)]
          /\ History[c][n] = EntryOf(attempts[c][n])
      BY <1>1, <2>1, <3>3, <3>4, AmendStep
    <3>6. UNCHANGED Finished
      BY <3>1 DEF Finished, CasesIn
    <3>7. Ledger!Capture(c, n, raw)
      BY <1>2, <2>1, <3>1, <3>3, <3>5, <3>6, CaptureAction
    <3> QED
      BY <2>2, <3>7 DEF Ledger!LedgerNext, Ledger!Advance
  <2>5. CASE CompleteCase(t, c)
    <3> DEFINE row == [attempts[c][n] EXCEPT !.observed = TRUE,
                                             !.status = "RESPONSE_RECEIVED"]
    <3>1. row \in AttemptRow /\ row.observed = TRUE /\ row.raw = attempts[c][n].raw
      BY <2>3, ObservedRow
    <3>2. Amend(c, n, row)
      BY <1>4, <2>5 DEF CompleteCase, ObserveAttempt
    <3> HIDE DEF row
    <3>3. /\ History' = [History EXCEPT ![c][n] = EntryOf(row)]
          /\ History[c][n] = EntryOf(attempts[c][n])
      BY <1>1, <2>1, <3>1, <3>2, AmendStep
    <3>4. Finished' = Finished \cup {c}
      BY <1>1, <2>5 DEF CompleteCase, Finished, CasesIn, TypeOK
    <3>5. Ledger!Complete(c, n)
      BY <1>2, <2>1, <3>1, <3>3, <3>4, CompleteAction
    <3> QED
      BY <2>2, <3>5 DEF Ledger!LedgerNext, Ledger!Advance
  <2> QED
    BY <1>6, <2>4, <2>5
<1>7. CASE RecordFailure(t, c)
  <2>1. \/ FailAttempt(c, n) /\ caseStatus' = [caseStatus EXCEPT ![c] = "FAILED"]
        \/ UNCHANGED <<attempts, caseStatus>>
    BY <1>7, <1>4 DEF RecordFailure
  <2>2. SameResults
    BY <1>1, <1>3, <2>1, FailTyped DEF SameResults, TypeOK
  <2>3. \A d \in Cases : caseStatus'[d] = "COMPLETE" => caseStatus[d] = "COMPLETE"
    BY <1>1, <2>1 DEF TypeOK
  <2> QED
    BY <1>1, <1>2, <2>2, <2>3, OverwriteStep DEF Ledger!LedgerNext
<1> QED
  BY <1>5, <1>6, <1>7

(* The other steps leave the attempts alone. *)
LEMMA OtherSteps ==
  ASSUME Inv, TypeOK', Patient /\ ~ReadFaults => CaptureInv, [Next]_vars,
         UNCHANGED attempts
  PROVE  Ledger!Serve \/ Ledger!Overwrite
         \/ \E t \in Tasks, c \in Cases : CompleteCase(t, c) \/ RegisterAttempt(t, c)
              \/ PersistResponse(t, c) \/ RecordFailure(t, c)
<1>1. TypeOK /\ LedgerInv /\ SameResults
  BY DEF Inv, SameResults
<1>2. ASSUME UNCHANGED called,
             \A d \in Cases : caseStatus'[d] = "COMPLETE" => caseStatus[d] = "COMPLETE"
      PROVE  Ledger!Overwrite
  BY <1>1, <1>2, OverwriteStep
<1>3. ASSUME NEW r \in Requests, (\E kind \in Kinds : ReadRun(r, kind)) \/ Answer(r)
      PROVE  Ledger!Overwrite
  <2>1. UNCHANGED called
    BY <1>3 DEF ReadRun, Answer, CommitPause, LockForCancel, CommitCancel, CommitRetry,
           CommitResume, OpenResume, RollBackResume, envVars
  <2>2. \A d \in Cases : caseStatus'[d] = "COMPLETE" => caseStatus[d] = "COMPLETE"
    BY <1>3 DEF ReadRun, Answer, CommitPause, LockForCancel, CommitCancel, CommitRetry,
           CommitResume, OpenResume, RollBackResume, Rewrite, dbVars
  <2> QED
    BY <1>2, <2>1, <2>2
<1>4. ASSUME NEW t \in Tasks, RunSteps(t) PROVE Ledger!Overwrite
  <2>1. UNCHANGED <<called, caseStatus>>
    BY <1>4 DEF RunSteps, CheckRun, ClaimRun, SelectCases, FinishRead, FinishWrite,
           AggregateRun, TaskFails, InspectFailedRun, MarkRunFailed, envVars, dbVars
  <2> QED
    BY <1>2, <2>1
<1>5. ASSUME NEW t \in Tasks, NEW c \in Cases,
             \/ DecideCase(t, c) \/ InspectForReset(t, c) \/ ResetCase(t, c)
             \/ NumberAttempt(t, c) \/ InspectForRegister(t, c) \/ WorkFails(t, c)
      PROVE  Ledger!Overwrite
  <2>1. UNCHANGED called
    BY <1>5 DEF DecideCase, InspectForReset, ResetCase, NumberAttempt, InspectForRegister,
           WorkFails, envVars
  <2>2. \A d \in Cases : caseStatus'[d] = "COMPLETE" => caseStatus[d] = "COMPLETE"
    BY <1>1, <1>5 DEF DecideCase, InspectForReset, ResetCase, NumberAttempt,
           InspectForRegister, WorkFails, dbVars, TypeOK
  <2> QED
    BY <1>2, <2>1, <2>2
<1>6. ASSUME NEW t \in Tasks, NEW c \in Cases, CallTarget(t, c) PROVE Ledger!Serve
  <2>1. /\ called \subseteq called' /\ called' \subseteq called \cup {<<c, Att(t, c)>>}
        /\ UNCHANGED <<attempts, caseStatus>>
    BY <1>6 DEF CallTarget, dbVars
  <2>2. <<c, Att(t, c)>> \in InFlight
    <3>1. <<t, c>> \in {p \in Tasks \X Cases : Working(p[1], p[2], "call")}
      BY <1>6 DEF CallTarget
    <3> QED
      BY <3>1 DEF InFlight
  <2> QED
    BY <1>1, <2>1, <2>2, ServeStep
<1>7. CASE Crash
  <2>1. /\ called \subseteq called' /\ called' \ called \subseteq InFlight
        /\ UNCHANGED <<attempts, caseStatus>>
    BY <1>7 DEF Crash, dbVars
  <2> QED
    BY <1>1, <2>1, ServeStep
<1>8. CASE MarkInterrupted \/ UNCHANGED vars
  <2>1. UNCHANGED <<called, caseStatus>>
    BY <1>8 DEF MarkInterrupted, vars, envVars
  <2> QED
    BY <1>2, <2>1
<1> QED
  BY <1>3, <1>4, <1>5, <1>6, <1>7, <1>8 DEF Next, TaskStep, CaseStep, RunSteps

(* Every step of a run is a step of the ledger of attempts, or none: no    *)
(* interleaving of commands, crashes, failures and pools loses or rewrites *)
(* what is stored, and with patient operators the ledger is the strict one *)
(* that closes a case to new attempts once a response of it is usable.     *)
THEOREM LedgerImplemented == Spec => KeepsLedger
<1>1. Init => Ledger!LedgerInit
  <2> SUFFICES ASSUME Init PROVE Ledger!LedgerInit
    OBVIOUS
  <2>1. History = [c \in Cases |-> <<>>]
    BY DEF Init, History, EntriesOf
  <2>2. called = {} /\ Finished = {}
    BY DEF Init, Finished, CasesIn
  <2> QED
    BY <2>1, <2>2 DEF Ledger!LedgerInit, History, EntriesOf, EntryOf, Finished
<1>2. Inv /\ Inv' /\ (Patient /\ ~ReadFaults => CaptureInv) /\ [Next]_vars
        => [Ledger!LedgerNext]_(Ledger!ledger)
  <2> SUFFICES ASSUME Inv, Inv', Patient /\ ~ReadFaults => CaptureInv, [Next]_vars
               PROVE  Ledger!LedgerNext
    OBVIOUS
  <2>1. TypeOK'
    BY DEF Inv
  <2>2. ASSUME NEW t \in Tasks, NEW c \in Cases,
               RegisterAttempt(t, c) \/ PersistResponse(t, c) \/ CompleteCase(t, c)
                 \/ RecordFailure(t, c)
        PROVE  Ledger!LedgerNext
    BY <2>1, <2>2, WorkSteps
  <2>3. CASE UNCHANGED attempts
    BY <2>1, <2>2, <2>3, OtherSteps DEF Ledger!LedgerNext
  <2>4. CASE attempts' # attempts
    BY <2>2, <2>4, AttemptWriters
  <2> QED
    BY <2>3, <2>4
<1>3. Spec => [](Patient /\ ~ReadFaults => CaptureInv)
  <2>1. CASE Patient /\ ~ReadFaults
    BY <2>1, CaptureAlways, PTL
  <2>2. CASE ~(Patient /\ ~ReadFaults)
    <3>1. Patient /\ ~ReadFaults => CaptureInv
      BY <2>2
    <3> QED
      BY <3>1, PTL
  <2> QED
    BY <2>1, <2>2
<1> QED
  BY <1>1, <1>2, <1>3, Invariance, PTL DEF Spec, KeepsLedger, Ledger!LedgerSpec

=============================================================================
