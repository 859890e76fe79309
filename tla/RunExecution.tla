---------------------------- MODULE RunExecution ----------------------------
(***************************************************************************)
(* One evaluation run: the commands of TestService (pause, resume, retry,  *)
(* recover, cancel), the background task TestService.execute_run, and the  *)
(* worker pool of BenchmarkExecutor, all of them writing the same rows of  *)
(* PostgreSQL at READ COMMITTED, with a server that may crash.             *)
(*                                                                         *)
(* One action is one read of rows that a decision rests on, one committed  *)
(* write, or one call to the target. Whatever reads, decides and writes is *)
(* several actions, so anything may happen in between.                     *)
(***************************************************************************)
EXTENDS Naturals, Sequences, FiniteSets, CaseRecovery

CONSTANTS
  Cases,          \* the benchmark cases of the run
  Requests,       \* commands the operators send; each is sent at most once
  Start,          \* the background task queued by start_test_run
  NoOne,          \* nobody holds the row lock of the run
  Kinds,          \* the commands that may be sent
  Concurrency,    \* execution_config.concurrency
  MaxFaults,      \* bound: failing calls, transactions, set-ups
  MaxCrashes,     \* bound: crashes of the server
  Caps,           \* idempotency and request_recovery of the target
  TaskOrders,     \* when the framework runs background tasks: before or after
                  \* the end of the request's session (external: FastAPI)
  Patient,        \* operators restart a run only when nothing is going on
  ReadFaults,     \* reading a stored response may fail for a while
  Supervised      \* somebody marks the run INTERRUPTED after a crash (external)

AllKinds == {"pause", "resume", "retry", "recover", "cancel"}

ASSUME CasesAssumption == IsFiniteSet(Cases) /\ Cases # {}
ASSUME RequestsAssumption == Start \notin Requests /\ NoOne \notin Requests
ASSUME KindsAssumption == Kinds \subseteq AllKinds
ASSUME ConcurrencyAssumption == Concurrency \in Nat \ {0}
ASSUME BoundsAssumption == MaxFaults \in Nat /\ MaxCrashes \in Nat
ASSUME CapsAssumption == Caps \in Capabilities
ASSUME OrdersAssumption == TaskOrders \subseteq {"afterCommit", "beforeCommit"}
ASSUME FlagsAssumption ==
  {Patient, ReadFaults, Supervised} \subseteq BOOLEAN

VARIABLES
  (* durable: rows of PostgreSQL *)
  runStatus,      \* runs.status
  caseStatus,     \* case_executions.status
  attempts,       \* the attempts of a case, in attempt_number order
  errors,         \* primary keys of errors: <<case, attempt number>>, where
                  \* 0 stands for the "-pending" attempt id
  (* volatile: the server process *)
  handler,        \* the commands being handled
  exec,           \* the background tasks running execute_run
  work,           \* per task and case, the coroutine running _execute_case
  runLock,        \* the command whose open transaction locks the run row
  (* the environment, and what has happened so far *)
  called,         \* <<case, attempt number>> of the requests the target served
  faults, crashes

dbVars   == <<runStatus, caseStatus, attempts, errors>>
procVars == <<handler, exec, work, runLock>>
envVars  == <<called, faults, crashes>>
vars     == <<runStatus, caseStatus, attempts, errors, handler, exec, work,
              runLock, called, faults, crashes>>

-----------------------------------------------------------------------------
(* Types *)

Tasks == Requests \cup {Start}

RunStatuses == {"PENDING", "RUNNING", "PAUSING", "PAUSED", "INTERRUPTED",
                "COMPLETE", "COMPLETED_WITH_ERRORS", "FAILED", "CANCELLED"}
Terminal   == {"COMPLETE", "COMPLETED_WITH_ERRORS", "FAILED", "CANCELLED"}
Executable == {"PENDING", "FAILED", "RUNNING", "INTERRUPTED",
               "COMPLETED_WITH_ERRORS"}
Claimable  == {"PENDING", "FAILED", "INTERRUPTED", "COMPLETED_WITH_ERRORS"}

(* raw is the response artifact: absent, or one that normalizes, or not. *)
AttemptRow == [status   : {"RUNNING", "RESPONSE_RECEIVED", "PERMANENT_FAILURE"},
               raw      : {"none", "good", "bad"},
               observed : BOOLEAN]

Handler == [pc      : {"idle", "read", "locked", "open", "done"},
            kind    : AllKinds,
            seen    : RunStatuses,
            victims : SUBSET Cases]

Task == [pc      : {"idle", "check", "claim", "select", "run", "settle",
                    "aggregate", "failing", "marking", "done"},
         scope   : SUBSET Cases,    \* case_execution_ids
         only    : BOOLEAN,         \* only_pending: an explicit subset
         failed  : BOOLEAN,         \* some worker caught an exception
         verdict : RunStatuses]     \* what _finish_run is about to write

WorkerPcs == {"none", "queued", "reset", "rewind", "number", "register", "open",
              "call", "persist", "complete", "fail", "done"}
Worker == [pc : WorkerPcs, att : Nat]

NoWork == [c \in Cases |-> [pc |-> "none", att |-> 0]]
NoTask == [pc |-> "idle", scope |-> {}, only |-> FALSE, failed |-> FALSE,
           verdict |-> "PENDING"]

TypeOK ==
  /\ runStatus \in RunStatuses
  /\ caseStatus \in [Cases -> CaseStatuses]
  /\ attempts \in [Cases -> Seq(AttemptRow)]
  /\ errors \subseteq Cases \X Nat
  /\ handler \in [Requests -> Handler]
  /\ exec \in [Tasks -> Task]
  /\ work \in [Tasks -> [Cases -> Worker]]
  /\ runLock \in Requests \cup {NoOne}
  /\ called \subseteq Cases \X Nat
  /\ faults \in Nat
  /\ crashes \in Nat

-----------------------------------------------------------------------------
(* start_run has committed the PENDING run with its PENDING cases, and     *)
(* start_test_run has queued its background task.                          *)

Init ==
  /\ runStatus = "PENDING"
  /\ caseStatus = [c \in Cases |-> "PENDING"]
  /\ attempts = [c \in Cases |-> <<>>]
  /\ errors = {}
  /\ handler = [r \in Requests |-> [pc |-> "idle", kind |-> "cancel",
                                    seen |-> "PENDING", victims |-> {}]]
  /\ exec = [t \in Tasks |->
               IF t = Start THEN [NoTask EXCEPT !.pc = "check", !.scope = Cases]
               ELSE NoTask]
  /\ work = [t \in Tasks |-> NoWork]
  /\ runLock = NoOne
  /\ called = {}
  /\ faults = 0
  /\ crashes = 0

NoFault == UNCHANGED faults
Fault   == faults < MaxFaults /\ faults' = faults + 1

CasesIn(statuses) == {c \in Cases : caseStatus[c] \in statuses}

-----------------------------------------------------------------------------
(* Commands *)

(* The states a command accepts; it is rejected in every other one.        *)
Admissible(kind) ==
  \/ kind = "pause"   /\ runStatus \in {"PENDING", "RUNNING"}
  \/ kind = "resume"  /\ runStatus = "PAUSED"
  \/ kind = "recover" /\ runStatus = "INTERRUPTED"
  \/ kind = "cancel"  /\ runStatus \notin {"CANCELLED", "COMPLETE"}
  \/ kind = "retry"   /\ runStatus \in {"FAILED", "COMPLETED_WITH_ERRORS"}
                      /\ CasesIn({"FAILED"}) # {}

InProgress(r) == handler[r].pc \in {"read", "locked", "open"}

Live(t) == exec[t].pc \notin {"idle", "done"}

Quiet == /\ \A q \in Requests : ~InProgress(q)
         /\ \A t \in Tasks : ~Live(t)

VictimsUnlessRecovering(kind) ==
  CASE kind = "retry"  -> CasesIn({"FAILED"})
    [] kind = "cancel" -> Cases \ CasesIn({"COMPLETE", "FAILED", "CANCELLED"})
    [] OTHER           -> {}

(* The cases a command is going to rewrite, as it reads them now. *)
Victims(kind) ==
  CASE kind = "retry"   -> CasesIn({"FAILED"})
    [] kind = "recover" -> CasesIn({"RUNNING"})
    [] kind = "cancel"  -> Cases \ CasesIn({"COMPLETE", "FAILED", "CANCELLED"})
    [] OTHER            -> {}

(* A command starts: it loads the run, and for retry and recover the cases. *)
ReadRun(r, kind) ==
  /\ handler[r].pc = "idle"
  /\ Patient /\ kind \in {"retry", "resume", "recover"} => Quiet
  /\ Admissible(kind)
  /\ handler' = [handler EXCEPT ![r] =
                   [pc |-> "read", kind |-> kind, seen |-> runStatus,
                    victims |-> IF kind = "cancel" THEN {} ELSE Victims(kind)]]
  /\ UNCHANGED <<dbVars, exec, work, runLock, envVars>>

IgnoredLock == runLock \in Requests \cup {NoOne}

(* An UPDATE of the run row waits for the transaction that locks it. *)
Unlocked == runLock = NoOne

Ready(r, kind) ==
  handler[r].pc = "read" /\ handler[r].kind = kind /\ Unlocked

Close(r) == handler' = [handler EXCEPT ![r].pc = "done"]

RewriteAsSkipped(cs, status) ==
  caseStatus' = [c \in Cases |-> IF c \in cs THEN "SKIPPED" ELSE caseStatus[c]]

Rewrite(cs, status) ==
  caseStatus' = [c \in Cases |-> IF c \in cs THEN status ELSE caseStatus[c]]

(* add_task(service.execute_run, ...) *)
Spawn(r, scope, only) ==
  exec' = [exec EXCEPT ![r] = [NoTask EXCEPT !.pc = "check",
                                             !.scope = scope, !.only = only]]

(* pause_run writes what follows from the status it read. *)
CommitPause(r) ==
  /\ Ready(r, "pause")
  /\ runStatus' = IF handler[r].seen = "PENDING" THEN "PAUSED" ELSE "PAUSING"
  /\ Close(r)
  /\ UNCHANGED <<caseStatus, attempts, errors, exec, work, runLock, envVars>>

(* cancel_run flushes the run, which locks its row, then lists the cases... *)
LockForCancel(r) ==
  /\ Ready(r, "cancel")
  /\ runLock' = r
  /\ handler' = [handler EXCEPT ![r].pc = "locked",
                                ![r].victims = Victims("cancel")]
  /\ UNCHANGED <<dbVars, exec, work, envVars>>

(* ... and cancels those that were not finished when it listed them. *)
CommitCancel(r) ==
  /\ handler[r].pc = "locked"
  /\ runStatus' = "CANCELLED"
  /\ Rewrite(handler[r].victims, "CANCELLED")
  /\ runLock' = NoOne
  /\ Close(r)
  /\ UNCHANGED <<attempts, errors, exec, work, envVars>>

(* retry_failed_cases is committed before its background task is queued. *)
CommitRetry(r) ==
  /\ Ready(r, "retry")
  /\ runStatus' = "PENDING"
  /\ Rewrite(handler[r].victims, "PENDING")
  /\ Spawn(r, handler[r].victims, TRUE)
  /\ Close(r)
  /\ UNCHANGED <<attempts, errors, work, runLock, envVars>>

(* resume_run and recover_run leave the commit to the end of the request's *)
(* session: either that precedes the background task ...                   *)
CommitResume(r) ==
  /\ "afterCommit" \in TaskOrders
  /\ Ready(r, "resume") \/ Ready(r, "recover")
  /\ runStatus' = "PENDING"
  /\ Rewrite(handler[r].victims, "INTERRUPTED")
  /\ Spawn(r, Cases, FALSE)
  /\ Close(r)
  /\ UNCHANGED <<attempts, errors, work, runLock, envVars>>

(* ... or the task runs while the transaction is open and the row locked.  *)
OpenResume(r) ==
  /\ "beforeCommit" \in TaskOrders
  /\ Ready(r, "resume") \/ Ready(r, "recover")
  /\ runLock' = r
  /\ handler' = [handler EXCEPT ![r].pc = "open"]
  /\ Spawn(r, Cases, FALSE)
  /\ UNCHANGED <<dbVars, work, envVars>>

(* The task of an open request can only end in an exception, which the     *)
(* session dependency turns into a rollback.                               *)
RollBackResume(r) ==
  /\ handler[r].pc = "open"
  /\ exec[r].pc = "done"
  /\ runLock' = NoOne
  /\ Close(r)
  /\ UNCHANGED <<dbVars, exec, work, envVars>>

Answer(r) ==
  \/ CommitPause(r)
  \/ LockForCancel(r)
  \/ CommitCancel(r)
  \/ CommitRetry(r)
  \/ CommitResume(r)
  \/ OpenResume(r)
  \/ RollBackResume(r)

-----------------------------------------------------------------------------
(* The background task *)

At(t, pc) == exec[t].pc = pc
Goto(t, pc) == exec' = [exec EXCEPT ![t].pc = pc]

(* execute_run checks the status. *)
CheckRun(t) ==
  /\ At(t, "check")
  /\ Goto(t, IF runStatus \in Executable THEN "claim" ELSE "failing")
  /\ UNCHANGED <<dbVars, handler, work, runLock, envVars>>

(* claim_run_running; a RunClaimError leaves the run as it is. *)
ClaimRun(t) ==
  /\ At(t, "claim")
  /\ Unlocked
  /\ \/ /\ runStatus \in Claimable
        /\ runStatus' = "RUNNING"
        /\ Goto(t, "select")
     \/ /\ runStatus \notin Claimable
        /\ Goto(t, "done")
        /\ UNCHANGED runStatus
  /\ UNCHANGED <<caseStatus, attempts, errors, handler, work, runLock, envVars>>

Selected(t) ==
  exec[t].scope \cap (IF exec[t].only THEN CasesIn({"PENDING"})
                      ELSE Cases \ CasesIn({"COMPLETE"}))

(* _run_workers fills the queue from one snapshot of the case states. *)
SelectCases(t) ==
  /\ At(t, "select")
  /\ work' = [work EXCEPT ![t] =
                [c \in Cases |-> [pc  |-> IF c \in Selected(t) THEN "queued"
                                          ELSE "none",
                                  att |-> 0]]]
  /\ Goto(t, "run")
  /\ UNCHANGED <<dbVars, handler, runLock, envVars>>

VerdictByCompletion(failed) ==
  IF CasesIn({"COMPLETE"}) # Cases THEN "RUNNING" ELSE "COMPLETE"

VerdictOnFailures(failed) ==
  IF CasesIn({"COMPLETE"}) # {} /\ CasesIn({"FAILED"}) # {}
    THEN "COMPLETED_WITH_ERRORS"
  ELSE IF failed \/ CasesIn({"FAILED"}) # {} THEN "FAILED"
  ELSE "COMPLETE"

(* The status that _finish_run derives from the cases it lists. *)
Verdict(failed) ==
  IF Cases \ CasesIn({"COMPLETE", "FAILED"}) # {} THEN "RUNNING"
  ELSE IF CasesIn({"COMPLETE"}) # {} /\ CasesIn({"FAILED"}) # {}
    THEN "COMPLETED_WITH_ERRORS"
  ELSE IF failed \/ CasesIn({"FAILED"}) # {} THEN "FAILED"
  ELSE "COMPLETE"

FinishRead(t) ==
  /\ At(t, "run")
  /\ \A c \in Cases : work[t][c].pc \in {"none", "done"}
  /\ exec' = [exec EXCEPT ![t].pc = "settle",
                          ![t].verdict = Verdict(exec[t].failed)]
  /\ UNCHANGED <<dbVars, handler, work, runLock, envVars>>

(* The UPDATE is only sent for a status that differs from the loaded one. *)
FinishWrite(t) ==
  /\ At(t, "settle")
  /\ Unlocked \/ runStatus = exec[t].verdict
  /\ runStatus' = exec[t].verdict
  /\ Goto(t, "aggregate")
  /\ UNCHANGED <<caseStatus, attempts, errors, handler, work, runLock, envVars>>

AggregateRun(t) ==
  /\ At(t, "aggregate")
  /\ Goto(t, "done")
  /\ UNCHANGED <<dbVars, handler, work, runLock, envVars>>

(* Any of these steps may fail, the snapshot, the adapter and the          *)
(* aggregation included; execute_run then marks the run.                   *)
TaskFails(t) ==
  /\ \/ exec[t].pc \in {"check", "claim", "select", "settle", "aggregate"}
     \/ At(t, "run") /\ \A c \in Cases : work[t][c].pc \in {"none", "done"}
  /\ Fault
  /\ Goto(t, "failing")
  /\ UNCHANGED <<dbVars, handler, work, runLock, called, crashes>>

(* _mark_run_failed leaves a terminal run alone ... *)
InspectFailedRun(t) ==
  /\ At(t, "failing")
  /\ Goto(t, IF runStatus \in Terminal THEN "done" ELSE "marking")
  /\ UNCHANGED <<dbVars, handler, work, runLock, envVars>>

(* ... and writes FAILED otherwise, unless that fails too. *)
MarkRunFailed(t) ==
  /\ At(t, "marking")
  /\ \/ Unlocked /\ NoFault /\ runStatus' = "FAILED"
     \/ Fault /\ UNCHANGED runStatus
  /\ Goto(t, "done")
  /\ UNCHANGED <<caseStatus, attempts, errors, handler, work, runLock, called,
                 crashes>>

-----------------------------------------------------------------------------
(* The worker pool *)

Working(t, c, pc) == exec[t].pc = "run" /\ work[t][c].pc = pc
Step(t, c, pc, att) ==
  work' = [work EXCEPT ![t][c] = [pc |-> pc, att |-> att]]
Att(t, c) == work[t][c].att

BusyCalling(t) == {c \in Cases : work[t][c].pc = "call"}

(* The cases some worker coroutine of the pool has taken from the queue. *)
Busy(t) == {c \in Cases : work[t][c].pc \notin {"none", "queued", "done"}}

LatestEvidence(c, readable, stale) ==
  LET n == Len(attempts[c])
  IN [exists       |-> n > 0,
      observed     |-> n > 0 /\ attempts[c][n].observed,
      renormalizes |-> n > 0 /\ attempts[c][n].raw = "good" /\ readable,
      stale        |-> stale]

RecoverableAnyway(c, n) == n > 0

(* The target can return the response of a request that it served. *)
RecoverableFromTarget(c, n) == <<c, n>> \in called

(* A worker takes a case: _decide_recovery, and request recovery with it.  *)
(* Without a recovered response the fallback applies, and every action but *)
(* SKIP leads to a new attempt.                                            *)
DecideCase(t, c) ==
  LET latest == Len(attempts[c])
      Action(readable, stale) ==
        DecideRecovery(caseStatus[c], LatestEvidence(c, readable, stale), Caps)
  IN
  /\ Working(t, c, "queued")
  /\ Cardinality(Busy(t)) < Concurrency
  /\ \E readable, stale \in BOOLEAN :
       /\ IF readable THEN NoFault ELSE ReadFaults /\ Fault
       /\ \/ /\ Action(readable, stale) = "SKIP"
             /\ Step(t, c, "done", 0)
          \/ /\ \/ Action(readable, stale)
                     \in {"REUSE_OBSERVATION", "RENORMALIZE_RAW"}
                \/ /\ Action(readable, stale) = "RECOVER_REQUEST"
                   /\ RecoverableFromTarget(c, latest)
             /\ Step(t, c, "complete", latest)
          \/ /\ Action(readable, stale) \in
                  {"RECOVER_REQUEST", "IDEMPOTENT_REPLAY", "EXECUTE_NEW",
                   "MARK_UNKNOWN"}
             /\ Step(t, c, "reset", 0)
  /\ UNCHANGED <<dbVars, handler, exec, runLock, called, crashes>>

(* _reset_case_for_new_attempt *)
InspectForReset(t, c) ==
  /\ Working(t, c, "reset")
  /\ Step(t, c, IF caseStatus[c] \in {"PENDING", "COMPLETE"} THEN "number"
                ELSE "rewind", 0)
  /\ UNCHANGED <<dbVars, handler, exec, runLock, envVars>>

ResetCase(t, c) ==
  /\ Working(t, c, "rewind")
  /\ caseStatus' = [caseStatus EXCEPT ![c] = "PENDING"]
  /\ Step(t, c, "number", 0)
  /\ UNCHANGED <<runStatus, attempts, errors, handler, exec, runLock, envVars>>

(* _next_attempt_id *)
NumberAttempt(t, c) ==
  /\ Working(t, c, "number")
  /\ Step(t, c, "register", Len(attempts[c]) + 1)
  /\ UNCHANGED <<dbVars, handler, exec, runLock, envVars>>

NewAttempt == [status |-> "RUNNING", raw |-> "none", observed |-> FALSE]

NeverCollides(c, n) == n = 0

(* attempt_id and (case, attempt_number) are unique. *)
Collides(c, n) == n <= Len(attempts[c])

(* _register_attempt skips a case that is not PENDING when it looks ... *)
InspectForRegister(t, c) ==
  /\ Working(t, c, "register")
  /\ Step(t, c, IF caseStatus[c] = "PENDING" THEN "open" ELSE "done", Att(t, c))
  /\ UNCHANGED <<dbVars, handler, exec, runLock, envVars>>

(* ... and then opens the attempt, or rolls back over an existing one.     *)
RegisterAttempt(t, c) ==
  /\ Working(t, c, "open")
  /\ \/ /\ Collides(c, Att(t, c))
        /\ Step(t, c, "fail", Att(t, c))
        /\ UNCHANGED <<caseStatus, attempts>>
     \/ /\ ~Collides(c, Att(t, c))
        /\ caseStatus' = [caseStatus EXCEPT ![c] = "RUNNING"]
        /\ attempts' = [attempts EXCEPT ![c] = Append(@, NewAttempt)]
        /\ Step(t, c, "call", Att(t, c))
  /\ UNCHANGED <<runStatus, errors, handler, exec, runLock, envVars>>

(* The target call: answered, or failed or timed out although the target   *)
(* may have served it.                                                     *)
CallTarget(t, c) ==
  /\ Working(t, c, "call")
  /\ \/ /\ called' = called \cup {<<c, Att(t, c)>>}
        /\ NoFault
        /\ Step(t, c, "persist", Att(t, c))
     \/ /\ called' \in {called, called \cup {<<c, Att(t, c)>>}}
        /\ Fault
        /\ Step(t, c, "fail", Att(t, c))
  /\ UNCHANGED <<dbVars, handler, exec, runLock, crashes>>

(* An UPDATE of the row of one attempt. *)
Amend(c, n, row) == attempts' = [attempts EXCEPT ![c][n] = row]

(* _persist_raw_response, then normalization in memory: a response that    *)
(* does not normalize counts as a fault of the target.                     *)
PersistResponse(t, c) ==
  /\ Working(t, c, "persist")
  /\ \/ /\ NoFault
        /\ Amend(c, Att(t, c), [attempts[c][Att(t, c)] EXCEPT !.raw = "good"])
        /\ Step(t, c, "complete", Att(t, c))
     \/ /\ Fault
        /\ Amend(c, Att(t, c), [attempts[c][Att(t, c)] EXCEPT !.raw = "bad"])
        /\ Step(t, c, "fail", Att(t, c))
  /\ UNCHANGED <<runStatus, caseStatus, errors, handler, exec, runLock, called,
                 crashes>>

ObserveRunning(c, n) ==
  Amend(c, n, [attempts[c][n] EXCEPT !.observed = (@ \/ attempts[c][n].status = "RUNNING"),
                                     !.status = "RESPONSE_RECEIVED"])

ObserveAttempt(c, n) ==
  Amend(c, n, [attempts[c][n] EXCEPT !.observed = TRUE,
                                     !.status = "RESPONSE_RECEIVED"])

(* _complete_case_execution: observation, metrics and both states commit   *)
(* together, whatever the case has become since.                           *)
CompleteCase(t, c) ==
  /\ Working(t, c, "complete")
  /\ ObserveAttempt(c, Att(t, c))
  /\ caseStatus' = [caseStatus EXCEPT ![c] = "COMPLETE"]
  /\ Step(t, c, "done", Att(t, c))
  /\ UNCHANGED <<runStatus, errors, handler, exec, runLock, envVars>>

(* Any of these transactions may fail and roll back. *)
WorkFails(t, c) ==
  /\ exec[t].pc = "run"
  /\ \/ work[t][c].pc \in {"reset", "rewind", "number", "register", "open",
                          "persist", "complete"}
     \/ work[t][c].pc = "queued" /\ Cardinality(Busy(t)) < Concurrency
  /\ Fault
  /\ Step(t, c, "fail", Att(t, c))
  /\ UNCHANGED <<dbVars, handler, exec, runLock, called, crashes>>

FailAndClearAttempt(c, n) ==
  IF n \in DOMAIN attempts[c]
  THEN Amend(c, n, [attempts[c][n] EXCEPT !.status = "PERMANENT_FAILURE",
                                          !.raw = "none"])
  ELSE UNCHANGED attempts

FailAttempt(c, n) ==
  IF n \in DOMAIN attempts[c]
  THEN Amend(c, n, [attempts[c][n] EXCEPT !.status = "PERMANENT_FAILURE"])
  ELSE UNCHANGED attempts

(* _fail_case_execution: one error row per attempt id, so the insert fails *)
(* when the same attempt id fails again, and so does the transaction.      *)
RecordFailure(t, c) ==
  LET key == <<c, Att(t, c)>>
  IN
  /\ Working(t, c, "fail")
  /\ \/ /\ key \notin errors
        /\ NoFault
        /\ errors' = errors \cup {key}
        /\ FailAttempt(c, Att(t, c))
        /\ caseStatus' = [caseStatus EXCEPT ![c] = "FAILED"]
     \/ /\ IF key \in errors THEN NoFault ELSE Fault
        /\ UNCHANGED <<errors, attempts, caseStatus>>
  /\ exec' = [exec EXCEPT ![t].failed = TRUE]
  /\ Step(t, c, "done", Att(t, c))
  /\ UNCHANGED <<runStatus, handler, runLock, called, crashes>>

-----------------------------------------------------------------------------
(* The server *)

(* The requests that some coroutine is waiting for. *)
InFlight == {<<tc[2], Att(tc[1], tc[2])>> :
               tc \in {p \in Tasks \X Cases : Working(p[1], p[2], "call")}}

(* Everything in memory is gone, open transactions roll back, and nothing  *)
(* is queued again at start-up. Calls in flight have an unknown outcome.   *)
Crash ==
  /\ crashes < MaxCrashes
  /\ crashes' = crashes + 1
  /\ handler' = [r \in Requests |->
                   IF InProgress(r) THEN [handler[r] EXCEPT !.pc = "done"]
                   ELSE handler[r]]
  /\ exec' = [t \in Tasks |->
                IF exec[t].pc = "idle" THEN exec[t]
                ELSE [exec[t] EXCEPT !.pc = "done"]]
  /\ work' = [t \in Tasks |-> NoWork]
  /\ runLock' = NoOne
  /\ \E served \in SUBSET InFlight : called' = called \cup served
  /\ UNCHANGED <<dbVars, faults>>

(* Outside the program: recover_run expects somebody to have done this. *)
MarkInterrupted ==
  /\ Supervised
  /\ crashes > 0
  /\ \A t \in Tasks : ~Live(t)
  /\ runStatus = "RUNNING"
  /\ runStatus' = "INTERRUPTED"
  /\ UNCHANGED <<caseStatus, attempts, errors, procVars, envVars>>

CaseStep(t, c) ==
  \/ DecideCase(t, c)
  \/ InspectForReset(t, c)
  \/ ResetCase(t, c)
  \/ NumberAttempt(t, c)
  \/ InspectForRegister(t, c)
  \/ RegisterAttempt(t, c)
  \/ CallTarget(t, c)
  \/ PersistResponse(t, c)
  \/ CompleteCase(t, c)
  \/ WorkFails(t, c)
  \/ RecordFailure(t, c)

TaskStep(t) ==
  \/ CheckRun(t)
  \/ ClaimRun(t)
  \/ SelectCases(t)
  \/ FinishRead(t)
  \/ FinishWrite(t)
  \/ AggregateRun(t)
  \/ TaskFails(t)
  \/ InspectFailedRun(t)
  \/ MarkRunFailed(t)
  \/ \E c \in Cases : CaseStep(t, c)

Next ==
  \/ \E r \in Requests, kind \in Kinds : ReadRun(r, kind)
  \/ \E r \in Requests : Answer(r)
  \/ \E t \in Tasks : TaskStep(t)
  \/ Crash
  \/ MarkInterrupted

Spec == Init /\ [][Next]_vars

(* The event loop runs every ready coroutine, and a target call ends by    *)
(* its total timeout; nothing obliges anybody to send a command.           *)
Fairness ==
  /\ \A t \in Tasks : WF_vars(TaskStep(t))
  /\ \A r \in Requests : WF_vars(Answer(r))

FairSpec == Spec /\ Fairness

-----------------------------------------------------------------------------
(* Safety under every interleaving *)

Observed(c) == \E n \in DOMAIN attempts[c] : attempts[c][n].observed

(* A case is COMPLETE only with a stored observation, whatever commands,   *)
(* crashes and other tasks came between the attempt and its last           *)
(* transaction (the promise of _complete_case_execution).                  *)
CompleteIsObserved ==
  \A c \in Cases : caseStatus[c] = "COMPLETE" => Observed(c)

(* No attempt id, hence no request id and idempotency key, reaches the     *)
(* target twice, even with two pools on the same run: the attempt about to *)
(* be called is not yet served, and no other coroutine is about to call it.*)
CalledAtMostOnce ==
  \A t \in Tasks, c \in Cases :
    work[t][c].pc = "call" =>
      /\ <<c, Att(t, c)>> \notin called
      /\ \A u \in Tasks \ {t} :
           work[u][c].pc \in {"call", "persist"} => Att(u, c) # Att(t, c)

(* Every stored observation belongs to an attempt that the target served.  *)
ObservedWasCalled ==
  \A c \in Cases : \A n \in DOMAIN attempts[c] :
    attempts[c][n].observed => <<c, n>> \in called

(* What is stored about an attempt survives a step. *)
Kept ==
  \A c \in Cases : \A n \in DOMAIN attempts[c] :
    /\ n \in DOMAIN attempts'[c]
    /\ attempts[c][n].raw # "none" => attempts'[c][n].raw = attempts[c][n].raw
    /\ attempts[c][n].observed => attempts'[c][n].observed

(* Attempts are append-only, and what was captured stays captured: no      *)
(* retry, recovery, failure or second pool removes an attempt, replaces    *)
(* its response or drops its observation.                                  *)
HistoryIsKept == [][Kept]_attempts

(* The ledger of attempts that the rows amount to. *)
Ledger == INSTANCE AttemptLedger
  WITH Exclusive <- Patient /\ ~ReadFaults,
       Final     <- FALSE,
       history   <- [c \in Cases |->
                       [n \in DOMAIN attempts[c] |->
                          [raw |-> attempts[c][n].raw, observed |-> attempts[c][n].observed]]],
       served    <- called,
       complete  <- CasesIn({"COMPLETE"})

(* Whatever commands, crashes, failures and pools there are, the attempts  *)
(* of a run form a ledger: append-only, with every stored result paid for  *)
(* by a served request, and closed to new attempts once a response is      *)
(* usable where nobody else interferes.                                    *)
KeepsLedger == Ledger!LedgerSpec

-----------------------------------------------------------------------------
(* The inductive invariant behind these *)

(* A coroutine that deals with an attempt knows one that exists; the one   *)
(* that is about to open an attempt knows at most the next number.         *)
KnownAttempts ==
  \A t \in Tasks, c \in Cases :
    /\ work[t][c].pc \in {"call", "persist", "complete"} =>
         work[t][c].att \in 1..Len(attempts[c])
    /\ work[t][c].pc \in {"register", "open"} =>
         work[t][c].att \in 1..(Len(attempts[c]) + 1)

(* The target only knows requests that are registered as attempts. *)
CalledAreAttempts ==
  \A request \in called : request[2] \in 1..Len(attempts[request[1]])

(* A response of an attempt is stored once, by the one coroutine that owns *)
(* the call.                                                               *)
OneOwner ==
  \A t, u \in Tasks, c \in Cases :
    /\ work[t][c].pc \in {"call", "persist"}
    /\ work[u][c].pc \in {"call", "persist"}
    /\ work[t][c].att = work[u][c].att
    => t = u

NothingStoredYet ==
  \A t \in Tasks, c \in Cases :
    /\ work[t][c].pc = "call" => <<c, work[t][c].att>> \notin called
    /\ work[t][c].pc \in {"call", "persist"} =>
         attempts[c][work[t][c].att].raw = "none"

(* Whatever a coroutine holds, and whatever is stored, the target served.  *)
ResultsWereServed ==
  /\ \A t \in Tasks, c \in Cases :
       work[t][c].pc \in {"persist", "complete"} => <<c, work[t][c].att>> \in called
  /\ \A c \in Cases : \A n \in 1..Len(attempts[c]) :
       attempts[c][n].raw # "none" \/ attempts[c][n].observed => <<c, n>> \in called

LedgerInv ==
  /\ KnownAttempts
  /\ CalledAreAttempts
  /\ OneOwner
  /\ NothingStoredYet
  /\ ResultsWereServed
  /\ CompleteIsObserved

-----------------------------------------------------------------------------
(* Safety when operators are patient *)

Captured(c) ==
  \E n \in DOMAIN attempts[c] :
    attempts[c][n].observed \/ attempts[c][n].raw = "good"

(* The central invariant of the resilience design: once a usable response  *)
(* of a case is stored, no new attempt of that case is opened.             *)
NeverRegenerates ==
  [][\A c \in Cases :
       Len(attempts'[c]) > Len(attempts[c]) => ~Captured(c)]_attempts

Sent(kind) == \E r \in Requests : handler[r].pc # "idle" /\ handler[r].kind = kind

(* A verdict that _finish_run has written agrees with the cases: COMPLETE  *)
(* means all of them, COMPLETED_WITH_ERRORS some of both and no other,     *)
(* after any restarts of a run that nobody tried to cancel.                *)
VerdictMatchesCases ==
  ~Sent("cancel") =>
    /\ runStatus = "COMPLETE" => CasesIn({"COMPLETE"}) = Cases
    /\ runStatus = "COMPLETED_WITH_ERRORS" =>
         /\ CasesIn({"COMPLETE"}) # {}
         /\ CasesIn({"FAILED"}) # {}
         /\ CasesIn({"COMPLETE", "FAILED"}) = Cases

(* However retries, resumes and recoveries follow each other, the target   *)
(* never has more calls in flight than the configured concurrency.         *)
BoundedConcurrency ==
  Cardinality({tc \in Tasks \X Cases : Working(tc[1], tc[2], "call")})
    <= Concurrency

(* A task started from an open transaction never reaches the worker pool:  *)
(* no case runs on the strength of a resume or recover that is not         *)
(* committed (the precondition that execute_run's docstring states).       *)
UncommittedNeverExecutes ==
  \A r \in Requests :
    handler[r].pc = "open" => exec[r].pc \in {"check", "claim", "failing", "marking",
                                                 "done"}

-----------------------------------------------------------------------------
(* Liveness *)

(* A run whose server never crashes ends, and stays, in a terminal state.  *)
RunSettles == [](crashes = 0) => <>[](runStatus \in Terminal)

(* Once the server stops crashing, every pool that has claimed the run     *)
(* brings it to a terminal state, whatever mixture of interrupted, failed  *)
(* and pending cases it started from.                                      *)
ClaimSettles ==
  \A t \in Tasks :
    At(t, "select") /\ crashes = MaxCrashes ~> runStatus \in Terminal

=============================================================================
