--------------------------- MODULE ResilientWorker ---------------------------
(***************************************************************************)
(* execution/worker.py: one ResilientCaseWorker per case, with its durable *)
(* attempts, its retry loop and its recovery; all of them share the        *)
(* circuit breaker of the target. A coordinator calls execute() again and  *)
(* again, one worker per case at a time, and the process may crash.        *)
(*                                                                         *)
(* One action is one committed transaction, one call to the target, or one *)
(* visit to the breaker; between two of them other workers and the clock   *)
(* move on.                                                                *)
(***************************************************************************)
EXTENDS Naturals, Sequences, FiniteSets, CaseRecovery, RetryPolicy

CONSTANTS
  Cases,              \* the cases, each with its own worker
  MaxAttempts,        \* retry_config.max_attempts
  Targets,            \* the capabilities a target may have
  FailureThreshold, SuccessThreshold, Cooldown,   \* of the circuit breaker
  MaxFaults,          \* bound: failing transactions
  MaxCrashes,         \* bound: crashes of the process
  MaxReopens          \* bound: retry commands per case

ASSUME AttemptsAssumption == MaxAttempts \in Nat \ {0}
ASSUME TargetsAssumption == Targets \subseteq Capabilities
ASSUME BoundsAssumption ==
  MaxFaults \in Nat /\ MaxCrashes \in Nat /\ MaxReopens \in Nat

VARIABLES
  caps,        \* the capabilities of the target, fixed for the run
  caseStatus,  \* case_executions.status
  attempts,    \* the attempts of a case, in attempt_number order
  job,         \* where the worker of a case is
  called,      \* <<case, request id>> of the requests the target served
  reopened,    \* how often retry_failed_cases has reopened a case
  faults, crashes,
  state, failures, successes, elapsed, sleepers, remaining   \* the breaker

(* A worker that was let through and has not left its attempt yet. *)
CallingPcs == {"open", "call", "capture", "complete"}

Breaker == INSTANCE CircuitBreaker
  WITH Callers <- Cases, calling <- {c \in Cases : job[c].pc \in CallingPcs}

ASSUME BreakerAssumption == Breaker!Configured

rowVars     == <<caseStatus, attempts>>
breakerVars == <<state, failures, successes, elapsed, sleepers, remaining>>
envVars     == <<caps, reopened, crashes>>
vars == <<caps, caseStatus, attempts, job, called, reopened, faults, crashes,
          state, failures, successes, elapsed, sleepers, remaining>>

(* A request id is named by the number of the attempt that generated it. *)
AttemptRow == [status   : {"RUNNING", "RESPONSE_RECEIVED", "RETRYABLE_FAILURE",
                           "PERMANENT_FAILURE"},
               request  : Nat,
               raw      : {"none", "good", "bad"},
               observed : BOOLEAN]

Pcs == {"idle", "repair", "recover", "store", "unknown", "gate", "sleep",
        "open", "call", "capture", "complete", "failed", "backoff"}

(* replay is idempotent_replay, retry is the decision of the retry policy. *)
Job == [pc : Pcs, replay : BOOLEAN, retry : BOOLEAN]

NoJob == [pc |-> "idle", replay |-> FALSE, retry |-> FALSE]

TypeOK ==
  /\ caps \in Capabilities
  /\ caseStatus \in [Cases -> CaseStatuses]
  /\ attempts \in [Cases -> Seq(AttemptRow)]
  /\ job \in [Cases -> Job]
  /\ called \subseteq Cases \X Nat
  /\ reopened \in [Cases -> Nat]
  /\ faults \in Nat
  /\ crashes \in Nat
  /\ Breaker!BreakerTypeOK

Init ==
  /\ caps \in Targets
  /\ caseStatus = [c \in Cases |-> "PENDING"]
  /\ attempts = [c \in Cases |-> <<>>]
  /\ job = [c \in Cases |-> NoJob]
  /\ called = {}
  /\ reopened = [c \in Cases |-> 0]
  /\ faults = 0
  /\ crashes = 0
  /\ Breaker!Fresh

Fault == faults < MaxFaults /\ faults' = faults + 1

At(c, pc)   == job[c].pc = pc
Goto(c, pc) == job' = [job EXCEPT ![c].pc = pc]
Leave(c)    == job' = [job EXCEPT ![c] = NoJob]

(* The latest attempt. With one worker per case nobody else adds rows, so  *)
(* attempt_number is always the length of the history.                     *)
Latest(c) == Len(attempts[c])
Amend(c, row) == attempts' = [attempts EXCEPT ![c][Latest(c)] = row]
Row(c) == attempts[c][Latest(c)]
SetCase(c, status) == caseStatus' = [caseStatus EXCEPT ![c] = status]

Evident(c, stale) ==
  [exists       |-> Latest(c) > 0,
   observed     |-> Latest(c) > 0 /\ Row(c).observed,
   renormalizes |-> Latest(c) > 0 /\ Row(c).raw = "good",
   stale        |-> stale]

Enter(c, pc, replay) ==
  job' = [job EXCEPT ![c] = [pc |-> pc, replay |-> replay, retry |-> FALSE]]

-----------------------------------------------------------------------------
(* execute: the decision, and what follows without a new attempt *)

(* A SKIP changes nothing. *)
Begin(c) ==
  /\ At(c, "idle")
  /\ \E stale \in BOOLEAN :
       LET action == DecideRecovery(caseStatus[c], Evident(c, stale), caps)
       IN \/ action = "REUSE_OBSERVATION" /\ Enter(c, "repair", FALSE)
          \/ action = "RENORMALIZE_RAW"   /\ Enter(c, "store", FALSE)
          \/ action = "RECOVER_REQUEST"   /\ Enter(c, "recover", FALSE)
          \/ action = "IDEMPOTENT_REPLAY" /\ Enter(c, "gate", TRUE)
          \/ action = "EXECUTE_NEW"       /\ Enter(c, "gate", FALSE)
          \/ action = "MARK_UNKNOWN"      /\ Enter(c, "unknown", FALSE)
  /\ UNCHANGED <<rowVars, called, envVars, faults, breakerVars>>

(* _repair_target_complete_state *)
Repair(c) ==
  /\ At(c, "repair")
  /\ Amend(c, [Row(c) EXCEPT !.status = "RESPONSE_RECEIVED"])
  /\ SetCase(c, "TARGET_COMPLETE")
  /\ Leave(c)
  /\ UNCHANGED <<called, envVars, faults, breakerVars>>

(* _execute_request_recovery: the target returns the response of a request *)
(* that it served, which may not normalize and then ends the execution, or *)
(* it does not, and the fallback applies.                                  *)
Recover(c) ==
  /\ At(c, "recover")
  /\ \/ /\ <<c, Row(c).request>> \in called
        /\ Goto(c, "store") \/ Leave(c)
     \/ /\ FallbackAction(caps) = "IDEMPOTENT_REPLAY"
        /\ Enter(c, "gate", TRUE)
     \/ /\ FallbackAction(caps) = "MARK_UNKNOWN"
        /\ Goto(c, "unknown")
  /\ UNCHANGED <<rowVars, called, envVars, faults, breakerVars>>

StoreAsPending(c) ==
  /\ At(c, "store")
  /\ Amend(c, [Row(c) EXCEPT !.status = "RESPONSE_RECEIVED"])
  /\ SetCase(c, "TARGET_COMPLETE")
  /\ Leave(c)
  /\ UNCHANGED <<called, envVars, faults, breakerVars>>

(* _persist_recovered_observation *)
Store(c) ==
  /\ At(c, "store")
  /\ Amend(c, [Row(c) EXCEPT !.status = "RESPONSE_RECEIVED", !.observed = TRUE])
  /\ SetCase(c, "TARGET_COMPLETE")
  /\ Leave(c)
  /\ UNCHANGED <<called, envVars, faults, breakerVars>>

MarkNothing(c) ==
  /\ At(c, "unknown")
  /\ Leave(c)
  /\ UNCHANGED <<rowVars, called, envVars, faults, breakerVars>>

(* _mark_unknown *)
MarkUnknown(c) ==
  /\ At(c, "unknown")
  /\ SetCase(c, "UNKNOWN")
  /\ Leave(c)
  /\ UNCHANGED <<attempts, called, envVars, faults, breakerVars>>

-----------------------------------------------------------------------------
(* _execute_with_retry *)

AskInPassing(c) ==
  /\ At(c, "gate")
  /\ \/ Breaker!CanExecute
     \/ Breaker!MustWait /\ UNCHANGED <<state, failures, successes, elapsed>>
  /\ Goto(c, "open")
  /\ UNCHANGED <<rowVars, called, envVars, faults, sleepers, remaining>>

(* _wait_for_circuit_breaker: the worker is let through or goes to sleep.  *)
AskBreaker(c) ==
  /\ At(c, "gate")
  /\ \/ /\ Breaker!CanExecute
        /\ Goto(c, "open")
        /\ UNCHANGED <<sleepers, remaining>>
     \/ /\ Breaker!MustWait
        /\ Breaker!FallAsleep(c)
        /\ Goto(c, "sleep")
  /\ UNCHANGED <<rowVars, called, envVars, faults>>

(* After the sleep it goes on without asking again. *)
WakeUp(c) ==
  /\ At(c, "sleep")
  /\ Breaker!WakeUp(c)
  /\ Goto(c, "open")
  /\ UNCHANGED <<rowVars, called, envVars, faults>>

(* A replay takes over the request id of the attempt before it. *)
RequestOf(c) ==
  IF job[c].replay /\ Latest(c) > 0 THEN Row(c).request ELSE Latest(c) + 1

NeverTaken(c, request) == request = 0

(* attempts.request_id is unique. *)
Taken(c, request) == \E n \in DOMAIN attempts[c] : attempts[c][n].request = request

(* _persist_attempt_before_call; a duplicate request id is an error that   *)
(* the retry loop does not catch.                                          *)
OpenAttempt(c) ==
  LET row == [status |-> "RUNNING", request |-> RequestOf(c), raw |-> "none",
              observed |-> FALSE]
  IN
  /\ At(c, "open")
  /\ \/ /\ Taken(c, RequestOf(c))
        /\ Leave(c)
        /\ UNCHANGED rowVars
     \/ /\ ~Taken(c, RequestOf(c))
        /\ attempts' = [attempts EXCEPT ![c] = Append(@, row)]
        /\ SetCase(c, "RUNNING")
        /\ Goto(c, "call")
  /\ UNCHANGED <<called, envVars, faults, breakerVars>>

(* The call: answered, or failed although the target may have served it.   *)
(* A failure is recorded with the breaker and judged by the retry policy.  *)
CallTarget(c) ==
  /\ At(c, "call")
  /\ \/ /\ called' = called \cup {<<c, Row(c).request>>}
        /\ Goto(c, "capture")
        /\ UNCHANGED breakerVars
     \/ /\ called' \in {called, called \cup {<<c, Row(c).request>>}}
        /\ \E error \in Errors :
             job' = [job EXCEPT ![c].pc = "failed",
                                ![c].retry = ShouldRetry(error, Latest(c), MaxAttempts)]
        /\ Breaker!RecordFailure
        /\ UNCHANGED <<sleepers, remaining>>
  /\ UNCHANGED <<rowVars, envVars, faults>>

(* _persist_raw_response, then normalization; a response that does not     *)
(* normalize ends the execution with an exception.                         *)
CaptureResponse(c) ==
  /\ At(c, "capture")
  /\ \/ /\ Amend(c, [Row(c) EXCEPT !.status = "RESPONSE_RECEIVED", !.raw = "good"])
        /\ Goto(c, "complete")
     \/ /\ Amend(c, [Row(c) EXCEPT !.status = "RESPONSE_RECEIVED", !.raw = "bad"])
        /\ Leave(c)
  /\ UNCHANGED <<caseStatus, called, envVars, faults, breakerVars>>

CompleteInRetryLoop(c) ==
  /\ At(c, "complete")
  /\ \/ /\ Amend(c, [Row(c) EXCEPT !.observed = TRUE])
        /\ SetCase(c, "TARGET_COMPLETE")
        /\ Breaker!RecordSuccess
        /\ Leave(c)
        /\ UNCHANGED faults
     \/ /\ job' = [job EXCEPT ![c].pc = "failed", ![c].retry = Latest(c) < MaxAttempts]
        /\ Fault
        /\ UNCHANGED <<rowVars, state, failures, successes, elapsed>>
  /\ UNCHANGED <<called, envVars, sleepers, remaining>>

(* _persist_completed_observation, and the success for the breaker. *)
CompleteAttempt(c) ==
  /\ At(c, "complete")
  /\ Amend(c, [Row(c) EXCEPT !.status = "RESPONSE_RECEIVED", !.observed = TRUE])
  /\ SetCase(c, "TARGET_COMPLETE")
  /\ Breaker!RecordSuccess
  /\ Leave(c)
  /\ UNCHANGED <<called, envVars, faults, sleepers, remaining>>

(* _persist_failed_attempt *)
RecordFailedAttempt(c) ==
  /\ At(c, "failed")
  /\ Amend(c, [Row(c) EXCEPT !.status = IF job[c].retry THEN "RETRYABLE_FAILURE"
                                        ELSE "PERMANENT_FAILURE"])
  /\ SetCase(c, IF job[c].retry THEN "RETRY_PENDING" ELSE "FAILED")
  /\ IF job[c].retry THEN Goto(c, "backoff") ELSE Leave(c)
  /\ UNCHANGED <<called, envVars, faults, breakerVars>>

(* The backoff is over; the next attempt is a replay where the target      *)
(* supports it.                                                            *)
TryAgain(c) ==
  /\ At(c, "backoff")
  /\ Enter(c, "gate", caps.idempotency)
  /\ UNCHANGED <<rowVars, called, envVars, faults, breakerVars>>

(* Any transaction may fail, and the exception ends the execution. *)
Abort(c) ==
  /\ job[c].pc \in {"repair", "recover", "store", "unknown", "open", "capture",
                    "complete", "failed", "backoff"}
  /\ Fault
  /\ Leave(c)
  /\ UNCHANGED <<rowVars, called, envVars, breakerVars>>

-----------------------------------------------------------------------------
(* The environment *)

(* TestService.retry_failed_cases, once the executor is done. *)
Reopen(c) ==
  /\ At(c, "idle")
  /\ caseStatus[c] = "FAILED"
  /\ reopened[c] < MaxReopens
  /\ reopened' = [reopened EXCEPT ![c] = @ + 1]
  /\ SetCase(c, "PENDING")
  /\ UNCHANGED <<caps, attempts, job, called, faults, crashes, breakerVars>>

(* The process dies; a call in flight may have been served. *)
Crash ==
  /\ crashes < MaxCrashes
  /\ crashes' = crashes + 1
  /\ job' = [c \in Cases |-> NoJob]
  /\ \E served \in SUBSET {<<c, Row(c).request>> : c \in {d \in Cases : At(d, "call")}} :
       called' = called \cup served
  /\ state' = "CLOSED"
  /\ failures' = 0
  /\ successes' = 0
  /\ elapsed' = 0
  /\ sleepers' = {}
  /\ remaining' = [c \in Cases |-> 0]
  /\ UNCHANGED <<caps, rowVars, reopened, faults>>

Tick ==
  /\ Breaker!Elapse
  /\ UNCHANGED <<caps, rowVars, job, called, reopened, faults, crashes>>

WorkerStep(c) ==
  \/ Repair(c)
  \/ Recover(c)
  \/ Store(c)
  \/ MarkUnknown(c)
  \/ AskBreaker(c)
  \/ WakeUp(c)
  \/ OpenAttempt(c)
  \/ CallTarget(c)
  \/ CaptureResponse(c)
  \/ CompleteAttempt(c)
  \/ RecordFailedAttempt(c)
  \/ TryAgain(c)
  \/ Abort(c)

Next ==
  \/ \E c \in Cases : Begin(c) \/ WorkerStep(c) \/ Reopen(c)
  \/ Tick
  \/ Crash

Spec == Init /\ [][Next]_vars

(* Coroutines go on, calls end by their timeouts, time passes, and the     *)
(* coordinator executes a case again that is not at its end.               *)
Fairness ==
  /\ \A c \in Cases : WF_vars(WorkerStep(c)) /\ WF_vars(Begin(c))
  /\ WF_vars(Tick)

FairSpec == Spec /\ Fairness

-----------------------------------------------------------------------------
(* Safety *)

(* The retry budget holds across crashes, recoveries, replays and repeated *)
(* executions of a case, not only within one retry loop: only a retry      *)
(* command of the operator buys one more attempt.                          *)
RetryBudget == \A c \in Cases : Latest(c) <= MaxAttempts + reopened[c]

(* The row of a case and the row of its latest attempt tell the same story *)
(* whenever they are committed apart: a case is over only on a recorded    *)
(* failure or observation, and waits for a retry only after a failure that *)
(* the policy wants to retry.                                              *)
OutcomeIsRecorded ==
  \A c \in Cases :
    /\ caseStatus[c] \in {"TARGET_COMPLETE", "FAILED", "RETRY_PENDING", "RUNNING"} =>
         Latest(c) > 0
    /\ caseStatus[c] = "TARGET_COMPLETE" => Row(c).observed
    /\ caseStatus[c] = "FAILED" => Row(c).status = "PERMANENT_FAILURE"
    /\ caseStatus[c] = "RETRY_PENDING" =>
         Row(c).status = "RETRYABLE_FAILURE" /\ Latest(c) < MaxAttempts

(* No request id is sent to the target twice: what decides is the unique   *)
(* key, since a replay asks for the id of the attempt before it.           *)
SentAtMostOnce ==
  \A c \in Cases : At(c, "call") => <<c, Row(c).request>> \notin called

(* The durability invariant of the module: once a usable response of a     *)
(* case is stored, no execution, retry or recovery opens a new attempt.    *)
CapturedIsFinal ==
  [][\A c \in Cases :
       Latest(c)' > Latest(c) =>
         \A n \in DOMAIN attempts[c] :
           ~attempts[c][n].observed /\ attempts[c][n].raw # "good"]_attempts

(* The ledger of attempts that the rows amount to: an attempt is served    *)
(* when the request it names is.                                           *)
Served(c) == {n \in DOMAIN attempts[c] : <<c, attempts[c][n].request>> \in called}

Ledger == INSTANCE AttemptLedger
  WITH Exclusive <- TRUE,
       Final     <- TRUE,
       history   <- [c \in Cases |->
                       [n \in DOMAIN attempts[c] |->
                          [raw |-> attempts[c][n].raw, observed |-> attempts[c][n].observed]]],
       served    <- UNION {{c} \X Served(c) : c \in Cases},
       complete  <- {c \in Cases : caseStatus[c] = "TARGET_COMPLETE"}

(* One worker per case is alone with its rows, so the ledger is the strict *)
(* one: no attempt after a usable response, only the latest attempt is     *)
(* ever worked on, and what is complete stays complete.                    *)
KeepsLedger == Ledger!LedgerSpec

(* The workers use the breaker as its module describes: nobody calls the   *)
(* target without having been let through, every call that was answered or *)
(* failed is recorded exactly once, and one that ended otherwise never.    *)
UsesBreaker == Breaker!BreakerSpec

(* The counters of the breaker agree with its state. *)
CountersAgree == Breaker!BreakerInv

(* Reopening the circuit never makes a sleeper wait beyond its cooldown. *)
SleepersWakeInTime == Breaker!SleepEndsInTime

-----------------------------------------------------------------------------
(* Liveness *)

(* Every execution ends: the retry loop is bounded and the breaker lets    *)
(* everybody through in the end, however often it opens.                   *)
ExecutionEnds == \A c \in Cases : ~At(c, "idle") ~> At(c, "idle")

(* With a plain target, a case that is executed again and again ends with  *)
(* a result, a failure or an outcome that is known to be unknown.          *)
CaseSettles ==
  ~caps.idempotency /\ ~caps.request_recovery =>
    \A c \in Cases : <>[](caseStatus[c] \in {"TARGET_COMPLETE", "FAILED", "UNKNOWN"})

(* The rows of a case are well formed and tell how far it came.            *)
RowsAreTrue == TypeOK /\ OutcomeIsRecorded

=============================================================================
