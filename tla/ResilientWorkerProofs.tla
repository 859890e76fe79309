------------------------ MODULE ResilientWorkerProofs ------------------------
(***************************************************************************)
(* The workers implement the circuit breaker's specification: what makes   *)
(* it inductive is that the breaker's record of who sleeps is the workers' *)
(* own, a worker being in sleepers exactly while it is at "sleep".         *)
(*                                                                         *)
(* And the rows they leave behind are true, through every crash, recovery  *)
(* and retry: RowInv says of each case what its rows tell (OutcomeOf,      *)
(* HistoryOf) and what its worker relies on between two transactions       *)
(* (WorkerAt). A step changes one case, so that each action has a lemma    *)
(* about that case, and KeepsInv carries the others along.                 *)
(*                                                                         *)
(* The rows are the strict ledger of AttemptLedger: StoredInv adds to      *)
(* RowInv that what is stored was served and that requests are distinct.   *)
(***************************************************************************)
EXTENDS ResilientWorker, TLAPS, SequenceTheorems

Proved == INSTANCE CircuitBreakerProofs
  WITH Callers <- Cases, calling <- {c \in Cases : job[c].pc \in CallingPcs}

Calling == {c \in Cases : job[c].pc \in CallingPcs}

WorkerInv ==
  /\ job \in [Cases -> Job]
  /\ sleepers \subseteq Cases
  /\ \A c \in Cases : c \in sleepers <=> job[c].pc = "sleep"

(* Only the worker c moves, and it moves to pc. *)
Moves(c, pc) ==
  /\ job' \in [Cases -> Job]
  /\ job'[c].pc = pc
  /\ \A d \in Cases \ {c} : job'[d].pc = job[d].pc

-----------------------------------------------------------------------------
(* How a worker moves *)

LEMMA GotoJob ==
  ASSUME job \in [Cases -> Job], NEW c \in Cases, NEW pc \in Pcs, Goto(c, pc)
  PROVE  /\ job' \in [Cases -> Job]
         /\ job'[c].pc = pc /\ job'[c].replay = job[c].replay /\ job'[c].retry = job[c].retry
         /\ \A d \in Cases \ {c} : job'[d] = job[d]
<1> DEFINE j == [job[c] EXCEPT !.pc = pc]
<1>1. j \in Job /\ j.pc = pc /\ j.replay = job[c].replay /\ j.retry = job[c].retry
  BY DEF Job
<1>2. job' = [job EXCEPT ![c] = j]
  BY DEF Goto
<1> HIDE DEF j
<1> QED
  BY <1>1, <1>2

LEMMA LeaveJob ==
  ASSUME job \in [Cases -> Job], NEW c \in Cases, Leave(c)
  PROVE  /\ job' \in [Cases -> Job]
         /\ job'[c].pc = "idle"
         /\ \A d \in Cases \ {c} : job'[d] = job[d]
<1>1. NoJob \in Job /\ NoJob.pc = "idle"
  BY DEF NoJob, Job, Pcs
<1> QED
  BY <1>1 DEF Leave

LEMMA EnterJob ==
  ASSUME job \in [Cases -> Job], NEW c \in Cases, NEW pc \in Pcs,
         NEW replay \in BOOLEAN, Enter(c, pc, replay)
  PROVE  /\ job' \in [Cases -> Job]
         /\ job'[c].pc = pc /\ job'[c].replay = replay
         /\ \A d \in Cases \ {c} : job'[d] = job[d]
<1> DEFINE j == [pc |-> pc, replay |-> replay, retry |-> FALSE]
<1>1. j \in Job /\ j.pc = pc /\ j.replay = replay
  BY DEF Job
<1>2. job' = [job EXCEPT ![c] = j]
  BY DEF Enter
<1> HIDE DEF j
<1> QED
  BY <1>1, <1>2

LEMMA GotoMoves ==
  ASSUME job \in [Cases -> Job], NEW c \in Cases, NEW pc \in Pcs, Goto(c, pc)
  PROVE  Moves(c, pc)
BY GotoJob DEF Moves

LEMMA LeaveMoves ==
  ASSUME job \in [Cases -> Job], NEW c \in Cases, Leave(c)
  PROVE  Moves(c, "idle")
BY LeaveJob DEF Moves

LEMMA EnterMoves ==
  ASSUME job \in [Cases -> Job], NEW c \in Cases, NEW pc \in Pcs,
         NEW replay \in BOOLEAN, Enter(c, pc, replay)
  PROVE  Moves(c, pc)
BY EnterJob DEF Moves

(* The callers the breaker sees after a move. *)
LEMMA MovesCalling ==
  ASSUME job \in [Cases -> Job], NEW c \in Cases, NEW pc, Moves(c, pc)
  PROVE  /\ pc \in CallingPcs => Calling' = Calling \cup {c}
         /\ pc \notin CallingPcs => Calling' = Calling \ {c}
BY DEF Moves, Calling

(* The sleepers after a move that the breaker's record follows. *)
LEMMA MovesInv ==
  ASSUME WorkerInv, NEW c \in Cases, NEW pc, Moves(c, pc),
         \/ pc # "sleep" /\ job[c].pc # "sleep" /\ UNCHANGED sleepers
         \/ pc # "sleep" /\ sleepers' = sleepers \ {c}
         \/ pc = "sleep" /\ sleepers' = sleepers \cup {c}
  PROVE  WorkerInv'
BY DEF Moves, WorkerInv

-----------------------------------------------------------------------------
(* What the breaker sees of an action *)

(* Nothing: the worker was not let through before, or still is. *)
Unseen(c) ==
  /\ UNCHANGED breakerVars
  /\ \E pc \in Pcs \ {"sleep"} :
       Moves(c, pc) /\ (pc \in CallingPcs <=> job[c].pc \in CallingPcs)
  /\ job[c].pc # "sleep"

(* A worker that was let through leaves without a result. *)
Leaves(c) ==
  /\ UNCHANGED breakerVars
  /\ \E pc \in Pcs \ {"sleep"} : Moves(c, pc) /\ pc \notin CallingPcs
  /\ job[c].pc \in CallingPcs

LEMMA UnseenStep ==
  ASSUME WorkerInv, NEW c \in Cases, Unseen(c)
  PROVE  WorkerInv' /\ UNCHANGED Breaker!breaker
<1>1. PICK pc \in Pcs \ {"sleep"} :
        Moves(c, pc) /\ (pc \in CallingPcs <=> job[c].pc \in CallingPcs)
  BY DEF Unseen
<1>2. WorkerInv'
  BY <1>1, MovesInv DEF Unseen, breakerVars
<1>3. Calling' = Calling
  BY <1>1, MovesCalling DEF WorkerInv, Calling
<1> QED
  BY <1>2, <1>3 DEF Unseen, breakerVars, Breaker!breaker, Calling

LEMMA LeavesStep ==
  ASSUME WorkerInv, NEW c \in Cases, Leaves(c)
  PROVE  WorkerInv' /\ Breaker!Abandon(c)
<1>1. PICK pc \in Pcs \ {"sleep"} : Moves(c, pc) /\ pc \notin CallingPcs
  BY DEF Leaves
<1>2. WorkerInv'
  BY <1>1, MovesInv DEF Leaves, breakerVars, CallingPcs
<1>3. Calling' = Calling \ {c}
  BY <1>1, MovesCalling DEF WorkerInv
<1>4. c \in Calling
  BY DEF Leaves, Calling
<1> QED
  BY <1>2, <1>3, <1>4
  DEF Leaves, breakerVars, Breaker!Abandon, Breaker!circuit, Breaker!sleep, Calling

-----------------------------------------------------------------------------
(* The actions, as the breaker sees them *)

LEMMA DecisionsAreQuiet ==
  ASSUME WorkerInv, NEW c \in Cases, Begin(c)
  PROVE  Unseen(c)
<1>1. \E pc \in {"repair", "store", "recover", "gate", "unknown"} :
        \E replay \in BOOLEAN : Enter(c, pc, replay)
  BY DEF Begin
<1>2. \E pc \in {"repair", "store", "recover", "gate", "unknown"} : Moves(c, pc)
  BY <1>1, EnterMoves DEF WorkerInv, Pcs
<1> QED
  BY <1>2 DEF Unseen, Begin, At, Pcs, CallingPcs

LEMMA RecoveryIsQuiet ==
  ASSUME WorkerInv, NEW c \in Cases,
         Repair(c) \/ Recover(c) \/ Store(c) \/ MarkUnknown(c)
  PROVE  Unseen(c)
<1>1. job[c].pc \in {"repair", "recover", "store", "unknown"} /\ UNCHANGED breakerVars
  BY DEF Repair, Recover, Store, MarkUnknown, At
<1>2. \E pc \in {"idle", "store", "gate", "unknown"} : Moves(c, pc)
  <2>1. CASE Leave(c)
    BY <2>1, LeaveMoves DEF WorkerInv
  <2>2. ASSUME NEW pc \in {"store", "unknown"}, Goto(c, pc)
        PROVE  Moves(c, pc)
    BY <2>2, GotoMoves DEF WorkerInv, Pcs
  <2>3. CASE Enter(c, "gate", TRUE)
    BY <2>3, EnterMoves DEF WorkerInv, Pcs
  <2> QED
    BY <2>1, <2>2, <2>3 DEF Repair, Recover, Store, MarkUnknown
<1> QED
  BY <1>1, <1>2 DEF Unseen, Pcs, CallingPcs

LEMMA FailureIsQuiet ==
  ASSUME WorkerInv, NEW c \in Cases, RecordFailedAttempt(c) \/ TryAgain(c),
         caps \in Capabilities
  PROVE  Unseen(c)
<1>1. job[c].pc \in {"failed", "backoff"} /\ UNCHANGED breakerVars
  BY DEF RecordFailedAttempt, TryAgain, At
<1>2. \E pc \in {"idle", "backoff", "gate"} : Moves(c, pc)
  <2>1. CASE Leave(c)
    BY <2>1, LeaveMoves DEF WorkerInv
  <2>2. CASE Goto(c, "backoff")
    BY <2>2, GotoMoves DEF WorkerInv, Pcs
  <2>3. CASE TryAgain(c)
    <3>1. caps.idempotency \in BOOLEAN
      BY DEF Capabilities
    <3> HIDE DEF Capabilities
    <3> QED
      BY <2>3, <3>1, EnterMoves DEF WorkerInv, Pcs, TryAgain
  <2> QED
    BY <2>1, <2>2, <2>3 DEF RecordFailedAttempt
<1> QED
  BY <1>1, <1>2 DEF Unseen, Pcs, CallingPcs

LEMMA AskStep ==
  ASSUME WorkerInv, NEW c \in Cases, AskBreaker(c)
  PROVE  WorkerInv' /\ (Breaker!Admit(c) \/ Breaker!Refuse(c))
<1>1. c \notin sleepers /\ c \notin Calling /\ job \in [Cases -> Job]
  BY DEF WorkerInv, AskBreaker, At, Calling, CallingPcs
<1>2. CASE Breaker!CanExecute /\ Goto(c, "open") /\ UNCHANGED <<sleepers, remaining>>
  <2>1. Moves(c, "open")
    BY <1>1, <1>2, GotoMoves DEF Pcs
  <2>2. WorkerInv'
    BY <1>2, <2>1, MovesInv DEF AskBreaker, At
  <2>3. Calling' = Calling \cup {c}
    BY <1>1, <2>1, MovesCalling DEF CallingPcs
  <2> QED
    BY <1>1, <1>2, <2>2, <2>3
    DEF Breaker!Admit, Breaker!Idle, Breaker!sleep, Calling
<1>3. CASE Breaker!MustWait /\ Breaker!FallAsleep(c) /\ Goto(c, "sleep")
  <2>1. Moves(c, "sleep")
    BY <1>1, <1>3, GotoMoves DEF Pcs
  <2>2. WorkerInv'
    BY <1>3, <2>1, MovesInv DEF Breaker!FallAsleep
  <2>3. Calling' = Calling
    BY <1>1, <2>1, MovesCalling DEF CallingPcs
  <2> QED
    BY <1>1, <1>3, <2>2, <2>3 DEF Breaker!Refuse, Breaker!Idle, Calling
<1> QED
  BY <1>2, <1>3 DEF AskBreaker

LEMMA WakeStep ==
  ASSUME WorkerInv, NEW c \in Cases, WakeUp(c)
  PROVE  WorkerInv' /\ Breaker!Wake(c)
<1>1. Moves(c, "open") /\ job \in [Cases -> Job]
  BY GotoMoves DEF WorkerInv, WakeUp, Pcs
<1>2. WorkerInv'
  BY <1>1, MovesInv DEF WakeUp, Breaker!WakeUp
<1>3. Calling' = Calling \cup {c}
  BY <1>1, MovesCalling DEF CallingPcs
<1> QED
  BY <1>2, <1>3 DEF WakeUp, Breaker!Wake, Calling

LEMMA OpenStep ==
  ASSUME WorkerInv, NEW c \in Cases, OpenAttempt(c)
  PROVE  Unseen(c) \/ Leaves(c)
<1>1. job[c].pc = "open" /\ UNCHANGED breakerVars /\ job \in [Cases -> Job]
  BY DEF OpenAttempt, At, WorkerInv
<1>2. CASE Leave(c)
  BY <1>1, <1>2, LeaveMoves DEF Leaves, Pcs, CallingPcs
<1>3. CASE Goto(c, "call")
  BY <1>1, <1>3, GotoMoves DEF Unseen, Pcs, CallingPcs
<1> QED
  BY <1>2, <1>3 DEF OpenAttempt

LEMMA CaptureStep ==
  ASSUME WorkerInv, NEW c \in Cases, CaptureResponse(c)
  PROVE  Unseen(c) \/ Leaves(c)
<1>1. job[c].pc = "capture" /\ UNCHANGED breakerVars /\ job \in [Cases -> Job]
  BY DEF CaptureResponse, At, WorkerInv
<1>2. CASE Leave(c)
  BY <1>1, <1>2, LeaveMoves DEF Leaves, Pcs, CallingPcs
<1>3. CASE Goto(c, "complete")
  BY <1>1, <1>3, GotoMoves DEF Unseen, Pcs, CallingPcs
<1> QED
  BY <1>2, <1>3 DEF CaptureResponse

LEMMA AbortStep ==
  ASSUME WorkerInv, NEW c \in Cases, Abort(c)
  PROVE  Unseen(c) \/ Leaves(c)
<1>1. Moves(c, "idle") /\ UNCHANGED breakerVars /\ job[c].pc # "sleep"
  BY LeaveMoves DEF Abort, WorkerInv
<1> QED
  BY <1>1 DEF Unseen, Leaves, Pcs, CallingPcs

LEMMA CallStep ==
  ASSUME WorkerInv, NEW c \in Cases, CallTarget(c)
  PROVE  WorkerInv' /\ (UNCHANGED Breaker!breaker \/ Breaker!Fail(c))
<1>1. job[c].pc = "call" /\ job \in [Cases -> Job] /\ c \in Calling
  BY DEF CallTarget, At, WorkerInv, Calling, CallingPcs
<1>2. CASE Goto(c, "capture") /\ UNCHANGED breakerVars
  <2>1. Unseen(c)
    BY <1>1, <1>2, GotoMoves DEF Unseen, Pcs, CallingPcs
  <2> QED
    BY <2>1, UnseenStep
<1>3. ASSUME NEW retry \in BOOLEAN,
             job' = [job EXCEPT ![c].pc = "failed", ![c].retry = retry],
             Breaker!RecordFailure, UNCHANGED <<sleepers, remaining>>
      PROVE  WorkerInv' /\ Breaker!Fail(c)
  <2>1. Moves(c, "failed")
    <3> DEFINE j == [job[c] EXCEPT !.pc = "failed", !.retry = retry]
    <3>1. j \in Job /\ j.pc = "failed"
      BY <1>1 DEF Job, Pcs
    <3>2. job' = [job EXCEPT ![c] = j]
      BY <1>1, <1>3 DEF Job
    <3> HIDE DEF j
    <3> QED
      BY <1>1, <3>1, <3>2 DEF Moves
  <2>2. WorkerInv'
    BY <1>1, <1>3, <2>1, MovesInv
  <2>3. Calling' = Calling \ {c}
    BY <1>1, <2>1, MovesCalling DEF CallingPcs
  <2> QED
    BY <1>1, <1>3, <2>2, <2>3 DEF Breaker!Fail, Breaker!sleep, Calling
<1>4. \A error \in Errors :
        ShouldRetry(error, Latest(c), MaxAttempts) \in BOOLEAN
  BY DEF ShouldRetry
<1> QED
  BY <1>2, <1>3, <1>4 DEF CallTarget

LEMMA CompleteStep ==
  ASSUME WorkerInv, NEW c \in Cases, CompleteAttempt(c)
  PROVE  WorkerInv' /\ Breaker!Succeed(c)
<1>1. Moves(c, "idle") /\ job[c].pc = "complete" /\ c \in Calling
  BY LeaveMoves DEF WorkerInv, CompleteAttempt, At, Calling, CallingPcs
<1>2. WorkerInv'
  BY <1>1, MovesInv DEF CompleteAttempt
<1>3. Calling' = Calling \ {c}
  BY <1>1, MovesCalling DEF CallingPcs, WorkerInv
<1> QED
  BY <1>1, <1>2, <1>3 DEF CompleteAttempt, Breaker!Succeed, Breaker!sleep, Calling

LEMMA CrashStep ==
  ASSUME Crash
  PROVE  WorkerInv' /\ Breaker!Restart
<1>1. NoJob \in Job /\ NoJob.pc = "idle"
  BY DEF NoJob, Job, Pcs
<1>2. WorkerInv' /\ Calling' = {}
  BY <1>1 DEF Crash, WorkerInv, Calling, CallingPcs
<1> QED
  BY <1>2 DEF Crash, Breaker!Restart, Breaker!CloseCircuit, Calling

LEMMA TickStep ==
  ASSUME WorkerInv, Tick
  PROVE  WorkerInv' /\ Breaker!Tick
BY DEF WorkerInv, Tick, Breaker!Tick, Breaker!Elapse

-----------------------------------------------------------------------------
LEMMA CapabilitiesKept == Spec => [](caps \in Capabilities)
<1>1. Init => caps \in Capabilities
  BY TargetsAssumption DEF Init
<1>2. caps \in Capabilities /\ [Next]_vars => (caps \in Capabilities)'
  BY DEF Next, WorkerStep, vars, envVars, Begin, Repair, Recover, Store, MarkUnknown,
         AskBreaker, WakeUp, OpenAttempt, CallTarget, CaptureResponse,
         CompleteAttempt, RecordFailedAttempt, TryAgain, Abort, Reopen, Tick, Crash
<1> QED
  BY <1>1, <1>2, PTL DEF Spec

(* The workers call the target only when the breaker lets them through,    *)
(* and every answer and failure reaches it once: worker.py implements the  *)
(* protocol of circuit_breaker.py, for any number of workers and any       *)
(* thresholds, through crashes and failing transactions.                   *)
THEOREM BreakerImplemented == Spec => UsesBreaker
<1>1. Init => WorkerInv /\ Breaker!BreakerInit
  <2> SUFFICES ASSUME Init PROVE WorkerInv /\ Breaker!BreakerInit
    OBVIOUS
  <2>1. NoJob \in Job /\ NoJob.pc = "idle"
    BY DEF NoJob, Job, Pcs
  <2>2. sleepers = {}
    BY DEF Init, Breaker!Fresh
  <2> QED
    BY <2>1, <2>2 DEF Init, WorkerInv, Breaker!BreakerInit, CallingPcs
<1>2. WorkerInv /\ caps \in Capabilities /\ [Next]_vars
        => WorkerInv' /\ [Breaker!BreakerNext]_(Breaker!breaker)
  <2> SUFFICES ASSUME WorkerInv, caps \in Capabilities, [Next]_vars
               PROVE  WorkerInv' /\ [Breaker!BreakerNext]_(Breaker!breaker)
    OBVIOUS
  <2>1. ASSUME NEW c \in Cases, Unseen(c) \/ Leaves(c)
        PROVE  WorkerInv' /\ [Breaker!BreakerNext]_(Breaker!breaker)
    BY <2>1, UnseenStep, LeavesStep DEF Breaker!BreakerNext, Breaker!CallerStep
  <2>2. ASSUME NEW c \in Cases,
               AskBreaker(c) \/ WakeUp(c) \/ CallTarget(c) \/ CompleteAttempt(c)
        PROVE  WorkerInv' /\ [Breaker!BreakerNext]_(Breaker!breaker)
    BY <2>2, AskStep, WakeStep, CallStep, CompleteStep
    DEF Breaker!BreakerNext, Breaker!CallerStep
  <2>3. ASSUME NEW c \in Cases, Begin(c) \/ WorkerStep(c)
        PROVE  WorkerInv' /\ [Breaker!BreakerNext]_(Breaker!breaker)
    BY <2>1, <2>2, <2>3, DecisionsAreQuiet, RecoveryIsQuiet, FailureIsQuiet,
       OpenStep, CaptureStep, AbortStep
    DEF WorkerStep
  <2>4. ASSUME NEW c \in Cases, Reopen(c)
        PROVE  WorkerInv' /\ [Breaker!BreakerNext]_(Breaker!breaker)
    BY <2>4 DEF Reopen, breakerVars, WorkerInv, Breaker!breaker
  <2>5. CASE Tick
    BY <2>5, TickStep DEF Breaker!BreakerNext
  <2>6. CASE Crash
    BY <2>6, CrashStep DEF Breaker!BreakerNext
  <2>7. CASE UNCHANGED vars
    BY <2>7 DEF vars, WorkerInv, Breaker!breaker
  <2> QED
    BY <2>3, <2>4, <2>5, <2>6, <2>7 DEF Next
<1> QED
  BY <1>1, <1>2, CapabilitiesKept, PTL DEF Spec, UsesBreaker, Breaker!BreakerSpec

(* The two instances of CircuitBreaker have the same specification. *)
LEMMA SameBreaker == Breaker!BreakerSpec => Proved!BreakerSpec
<1>1. Breaker!BreakerInit => Proved!BreakerInit
  BY DEF Breaker!BreakerInit, Proved!BreakerInit, Breaker!Fresh, Proved!Fresh
<1>2. [Breaker!BreakerNext]_(Breaker!breaker) => [Proved!BreakerNext]_(Proved!breaker)
  <2>1. Breaker!BreakerNext => Proved!BreakerNext
    BY DEF Breaker!BreakerNext, Proved!BreakerNext, Breaker!CallerStep,
           Proved!CallerStep, Breaker!Admit, Proved!Admit, Breaker!Refuse,
           Proved!Refuse, Breaker!Wake, Proved!Wake, Breaker!Succeed,
           Proved!Succeed, Breaker!Fail, Proved!Fail, Breaker!Abandon,
           Proved!Abandon, Breaker!Tick, Proved!Tick, Breaker!Reset,
           Proved!Reset, Breaker!Restart, Proved!Restart, Breaker!CanExecute,
           Proved!CanExecute, Breaker!MustWait, Proved!MustWait,
           Breaker!HalfOpen, Proved!HalfOpen, Breaker!OpenCircuit,
           Proved!OpenCircuit, Breaker!CloseCircuit, Proved!CloseCircuit,
           Breaker!FallAsleep, Proved!FallAsleep, Breaker!WakeUp, Proved!WakeUp,
           Breaker!RecordSuccess, Proved!RecordSuccess, Breaker!RecordFailure,
           Proved!RecordFailure, Breaker!Elapse, Proved!Elapse, Breaker!Idle,
           Proved!Idle, Breaker!circuit, Proved!circuit, Breaker!sleep,
           Proved!sleep
  <2>2. UNCHANGED Breaker!breaker => UNCHANGED Proved!breaker
    BY DEF Breaker!breaker, Proved!breaker
  <2> QED
    BY <2>1, <2>2
<1> QED
  BY <1>1, <1>2, PTL DEF Breaker!BreakerSpec, Proved!BreakerSpec

(* What is proved of the breaker alone is therefore true of the workers'   *)
(* breaker: its counters agree with its state ...                          *)
THEOREM CountersAgreeAlways == Spec => []CountersAgree
<1>1. Proved!BreakerSpec => []Proved!BreakerInv
  BY BreakerAssumption, Proved!CountersCorrect DEF Breaker!Configured, Proved!Configured
<1>2. Proved!BreakerInv => Breaker!BreakerInv
  BY DEF Proved!BreakerInv, Breaker!BreakerInv
<1> QED
  BY <1>1, <1>2, BreakerImplemented, SameBreaker, PTL DEF UsesBreaker, CountersAgree

(* ... and no worker sleeps beyond the cooldown of the open circuit.       *)
THEOREM SleepersWakeAlways == Spec => []SleepersWakeInTime
<1>1. Proved!BreakerSpec => []Proved!SleepEndsInTime
  BY BreakerAssumption, Proved!SleepCorrect DEF Breaker!Configured, Proved!Configured
<1>2. Proved!SleepEndsInTime => Breaker!SleepEndsInTime
  BY DEF Proved!SleepEndsInTime, Breaker!SleepEndsInTime
<1> QED
  BY <1>1, <1>2, BreakerImplemented, SameBreaker, PTL DEF UsesBreaker, SleepersWakeInTime

-----------------------------------------------------------------------------
(* The invariant of the rows *)

(* TypeOK without the breaker, whose types its own module proves. *)
RowTypes ==
  /\ caps \in Capabilities
  /\ caseStatus \in [Cases -> CaseStatuses]
  /\ attempts \in [Cases -> Seq(AttemptRow)]
  /\ job \in [Cases -> Job]
  /\ called \subseteq Cases \X Nat
  /\ reopened \in [Cases -> Nat]
  /\ faults \in Nat
  /\ crashes \in Nat

(* The response is stored, normalized or not yet. *)
Usable(row) == row.observed \/ row.raw = "good"

(* The budget of a case is not used up. *)
Spare(c) == Latest(c) < MaxAttempts + reopened[c]

(* OutcomeIsRecorded, of one case. *)
OutcomeOf(c) ==
  /\ caseStatus[c] \in {"TARGET_COMPLETE", "FAILED", "RETRY_PENDING", "RUNNING"} =>
       Latest(c) > 0
  /\ caseStatus[c] = "TARGET_COMPLETE" => Row(c).observed
  /\ caseStatus[c] = "FAILED" => Row(c).status = "PERMANENT_FAILURE"
  /\ caseStatus[c] = "RETRY_PENDING" =>
       Row(c).status = "RETRYABLE_FAILURE" /\ Latest(c) < MaxAttempts

(* The attempts of a case: only the latest one is usable, and what the     *)
(* target has served was asked for by one of them.                         *)
HistoryOf(c) ==
  /\ Latest(c) <= MaxAttempts + reopened[c]
  /\ caseStatus[c] = "PENDING" => Spare(c)
  /\ \A n \in DOMAIN attempts[c] : n < Latest(c) => ~Usable(attempts[c][n])
  /\ \A request \in Nat : <<c, request>> \in called => Taken(c, request)

(* What a worker relies on from one transaction to the next. *)
WorkerAt(c) ==
  /\ job[c].pc \in {"repair", "recover", "store", "call", "capture", "complete",
                    "failed", "backoff"} => Latest(c) > 0
  /\ At(c, "repair") => Row(c).observed
  /\ job[c].pc \in {"recover", "gate", "sleep", "open", "call", "capture",
                    "failed", "backoff"} =>
       \A n \in DOMAIN attempts[c] : ~Usable(attempts[c][n])
  /\ job[c].pc \in {"gate", "sleep", "open"} =>
       Spare(c) \/ (job[c].replay /\ Latest(c) > 0)
  /\ job[c].pc \in {"call", "capture", "complete", "failed"} => caseStatus[c] = "RUNNING"
  /\ At(c, "call") => <<c, Row(c).request>> \notin called
  /\ At(c, "failed") /\ job[c].retry => Latest(c) < MaxAttempts
  /\ At(c, "backoff") => Latest(c) < MaxAttempts

CaseInv(c) == OutcomeOf(c) /\ HistoryOf(c) /\ WorkerAt(c)

RowInv == RowTypes /\ \A c \in Cases : CaseInv(c)

(* A step of c leaves the rows and the workers of the other cases alone. *)
OthersKept(c) ==
  \A d \in Cases \ {c} :
    /\ caseStatus'[d] = caseStatus[d]
    /\ attempts'[d] = attempts[d]
    /\ job'[d] = job[d]
    /\ reopened'[d] = reopened[d]
    /\ \A request \in Nat : <<d, request>> \in called' <=> <<d, request>> \in called

Keeps(c) == RowTypes' /\ OthersKept(c) /\ CaseInv(c)'

-----------------------------------------------------------------------------
(* The rows *)

LEMMA LatestIsRow ==
  ASSUME RowTypes, NEW c \in Cases
  PROVE  /\ Latest(c) \in Nat
         /\ Latest(c) > 0 => Row(c) \in AttemptRow /\ Latest(c) \in DOMAIN attempts[c]
         /\ DOMAIN attempts[c] = 1..Latest(c)
BY DEF RowTypes, Latest, Row

LEMMA KeepsInv ==
  ASSUME RowInv, NEW c \in Cases, Keeps(c)
  PROVE  RowInv'
<1> SUFFICES ASSUME NEW d \in Cases \ {c} PROVE CaseInv(d)'
  BY DEF RowInv, Keeps
<1>1. CaseInv(d)
  BY DEF RowInv
<1>2. /\ caseStatus'[d] = caseStatus[d]
      /\ attempts'[d] = attempts[d]
      /\ job'[d] = job[d]
      /\ reopened'[d] = reopened[d]
      /\ \A request \in Nat : <<d, request>> \in called' <=> <<d, request>> \in called
  BY DEF Keeps, OthersKept
<1>3. Latest(d)' = Latest(d) /\ Row(d)' = Row(d) /\ (Spare(d)' <=> Spare(d))
  BY <1>2 DEF Latest, Row, Spare
<1>4. OutcomeOf(d)'
  BY <1>1, <1>2, <1>3 DEF CaseInv, OutcomeOf
<1>5. HistoryOf(d)'
  BY <1>1, <1>2, <1>3 DEF CaseInv, HistoryOf, Taken
<1>6. Latest(d) > 0 => Row(d).request \in Nat
  BY LatestIsRow DEF RowInv, AttemptRow
<1>7. WorkerAt(d)'
  BY <1>1, <1>2, <1>3, <1>6 DEF CaseInv, WorkerAt, At
<1> QED
  BY <1>4, <1>5, <1>7 DEF CaseInv

(* How a row is amended. *)
LEMMA AmendRow ==
  ASSUME RowTypes, NEW c \in Cases, Latest(c) > 0, NEW row \in AttemptRow, Amend(c, row)
  PROVE  /\ attempts' \in [Cases -> Seq(AttemptRow)]
         /\ \A d \in Cases \ {c} : attempts'[d] = attempts[d]
         /\ Latest(c)' = Latest(c)
         /\ Row(c)' = row
         /\ DOMAIN attempts'[c] = DOMAIN attempts[c]
         /\ \A n \in DOMAIN attempts[c] : n < Latest(c) => attempts'[c][n] = attempts[c][n]
<1> DEFINE s == attempts[c]
           t == [s EXCEPT ![Latest(c)] = row]
<1>1. s \in Seq(AttemptRow) /\ Latest(c) \in DOMAIN s
  BY DEF RowTypes, Latest
<1>2. t \in Seq(AttemptRow) /\ Len(t) = Len(s) /\ t[Latest(c)] = row
      /\ \A n \in DOMAIN s : n < Latest(c) => t[n] = s[n]
  BY <1>1
<1>3. attempts' = [attempts EXCEPT ![c] = t]
  BY DEF Amend
<1>4. DOMAIN t = DOMAIN s
  OBVIOUS
<1> HIDE DEF t
<1> QED
  BY <1>1, <1>2, <1>3, <1>4 DEF RowTypes, Latest, Row

(* The latest row of a case is edited, and its history is as before. *)
Amended(c) ==
  /\ attempts' \in [Cases -> Seq(AttemptRow)]
  /\ \A d \in Cases \ {c} : attempts'[d] = attempts[d]
  /\ Latest(c)' = Latest(c)
  /\ Row(c)'.request = Row(c).request
  /\ DOMAIN attempts'[c] = DOMAIN attempts[c]
  /\ \A n \in DOMAIN attempts[c] : n < Latest(c) => attempts'[c][n] = attempts[c][n]

LEMMA AmendedHistory ==
  ASSUME RowInv, NEW c \in Cases, Amended(c), Latest(c) > 0,
         reopened' = reopened, caseStatus'[c] = "PENDING" => caseStatus[c] = "PENDING",
         \A request \in Nat :
            <<c, request>> \in called' => <<c, request>> \in called
  PROVE  HistoryOf(c)'
<1>1. HistoryOf(c) /\ RowTypes
  BY DEF RowInv, CaseInv
<1>2. Latest(c) \in Nat /\ DOMAIN attempts[c] = 1..Latest(c)
  BY <1>1, LatestIsRow
<1>3. \A n \in DOMAIN attempts[c] : attempts'[c][n].request = attempts[c][n].request
  BY <1>2 DEF Amended, Row, Latest
<1>4. \A request : Taken(c, request) => Taken(c, request)'
  BY <1>3 DEF Amended, Taken
<1>5. Spare(c) => Spare(c)'
  BY DEF Spare, Amended
<1> QED
  BY <1>1, <1>4, <1>5 DEF HistoryOf, Amended

LEMMA KeptHistory ==
  ASSUME RowInv, NEW c \in Cases, UNCHANGED <<rowVars, called, reopened>>
  PROVE  HistoryOf(c)' /\ OutcomeOf(c)'
BY DEF RowInv, CaseInv, HistoryOf, OutcomeOf, rowVars, Taken, Row, Latest, Spare

(* A step of a worker that changes no row. *)
LEMMA QuietKeeps ==
  ASSUME RowInv, NEW c \in Cases, UNCHANGED <<rowVars, called, caps, reopened, crashes>>,
         faults' \in Nat, job' \in [Cases -> Job],
         \A d \in Cases \ {c} : job'[d] = job[d], WorkerAt(c)'
  PROVE  Keeps(c)
<1>1. RowTypes'
  BY DEF RowInv, RowTypes, rowVars
<1>2. OthersKept(c)
  BY DEF OthersKept, rowVars
<1> QED
  BY <1>1, <1>2, KeptHistory DEF Keeps, CaseInv

-----------------------------------------------------------------------------
(* The actions, as the rows see them *)

(* The precedence of the decision: a new attempt is decided on only where  *)
(* there is budget and no usable response.                                 *)
LEMMA BeginKeeps ==
  ASSUME RowInv, NEW c \in Cases, Begin(c)
  PROVE  Keeps(c)
<1>1. /\ RowTypes /\ job \in [Cases -> Job] /\ CaseInv(c) /\ At(c, "idle")
      /\ UNCHANGED <<rowVars, called, caps, reopened, crashes, faults>>
      /\ faults' \in Nat
  BY DEF RowInv, RowTypes, Begin, envVars
<1>2. /\ Latest(c) \in Nat
      /\ DOMAIN attempts[c] = 1..Latest(c)
      /\ Latest(c)' = Latest(c) /\ Row(c)' = Row(c) /\ (Spare(c)' <=> Spare(c))
  BY <1>1, LatestIsRow DEF Latest, Row, Spare, rowVars
<1> DEFINE decision(stale) == DecideRecovery(caseStatus[c], Evident(c, stale), caps)
           Unused == \A n \in DOMAIN attempts[c] : ~Usable(attempts[c][n])
<1>3. ASSUME Latest(c) > 0 => ~Usable(Row(c))
      PROVE  Unused
  BY <1>1, <1>2, <1>3 DEF CaseInv, HistoryOf, Row
<1>4. ASSUME NEW stale \in BOOLEAN,
             decision(stale) \notin {"SKIP", "REUSE_OBSERVATION", "RENORMALIZE_RAW"}
      PROVE  Unused
  <2>1. Latest(c) > 0 => ~Usable(Row(c))
    BY <1>4 DEF DecideRecovery, Evident, Usable
  <2> QED
    BY <2>1, <1>3
<1>5. ASSUME NEW stale \in BOOLEAN, decision(stale) = "REUSE_OBSERVATION"
      PROVE  Latest(c) > 0 /\ Row(c).observed
  BY <1>5 DEF DecideRecovery, Evident, UncertainAction, FallbackAction
<1>6. ASSUME NEW stale \in BOOLEAN,
             decision(stale) \in {"RENORMALIZE_RAW", "RECOVER_REQUEST", "IDEMPOTENT_REPLAY"}
      PROVE  Latest(c) > 0
  BY <1>6 DEF DecideRecovery, Evident, UncertainAction, FallbackAction
<1>7. ASSUME NEW stale \in BOOLEAN, decision(stale) = "EXECUTE_NEW"
      PROVE  Spare(c)
  <2>1. caseStatus[c] \in {"PENDING", "RETRY_PENDING"}
    BY <1>7 DEF DecideRecovery, UncertainAction, FallbackAction
  <2>2. reopened[c] \in Nat
    BY <1>1 DEF RowTypes
  <2> QED
    BY <1>1, <1>2, <2>1, <2>2, AttemptsAssumption DEF CaseInv, OutcomeOf, HistoryOf, Spare
<1> HIDE DEF decision
<1>8. PICK stale \in BOOLEAN :
        \/ decision(stale) = "REUSE_OBSERVATION" /\ Enter(c, "repair", FALSE)
        \/ decision(stale) = "RENORMALIZE_RAW"   /\ Enter(c, "store", FALSE)
        \/ decision(stale) = "RECOVER_REQUEST"   /\ Enter(c, "recover", FALSE)
        \/ decision(stale) = "IDEMPOTENT_REPLAY" /\ Enter(c, "gate", TRUE)
        \/ decision(stale) = "EXECUTE_NEW"       /\ Enter(c, "gate", FALSE)
        \/ decision(stale) = "MARK_UNKNOWN"      /\ Enter(c, "unknown", FALSE)
  BY DEF Begin, decision
<1>9. ASSUME NEW pc \in Pcs, NEW replay \in BOOLEAN, Enter(c, pc, replay),
             \/ pc = "repair" /\ Latest(c) > 0 /\ Row(c).observed
             \/ pc = "store" /\ Latest(c) > 0
             \/ pc = "recover" /\ Latest(c) > 0 /\ Unused
             \/ pc = "gate" /\ Unused /\ (Spare(c) \/ (replay /\ Latest(c) > 0))
             \/ pc = "unknown"
      PROVE  Keeps(c)
  <2>1. /\ job' \in [Cases -> Job]
        /\ job'[c].pc = pc /\ job'[c].replay = replay
        /\ \A d \in Cases \ {c} : job'[d] = job[d]
    BY <1>1, <1>9, EnterJob
  <2>2. WorkerAt(c)'
    BY <1>1, <1>2, <1>9, <2>1 DEF WorkerAt, At, rowVars
  <2> QED
    BY <1>1, <2>1, <2>2, QuietKeeps
<1> HIDE DEF Unused
<1> QED
  BY <1>4, <1>5, <1>6, <1>7, <1>8, <1>9 DEF Pcs

(* The moves of a worker between two transactions. *)
LEMMA MovedKeeps ==
  ASSUME RowInv, NEW c \in Cases, UNCHANGED <<rowVars, called, caps, reopened, crashes>>,
         faults' \in Nat, job' \in [Cases -> Job],
         \A d \in Cases \ {c} : job'[d] = job[d],
         \/ job'[c].pc \in {"idle", "unknown"}
         \/ job'[c].pc \in {"sleep", "open"} /\ job'[c].replay = job[c].replay
              /\ job[c].pc \in {"gate", "sleep"}
         \/ job'[c].pc = "store" /\ job[c].pc = "recover"
         \/ job'[c].pc = "gate" /\ job'[c].replay /\ job[c].pc = "recover"
         \/ job'[c].pc = "gate" /\ job[c].pc = "backoff"
  PROVE  Keeps(c)
<1>1. RowTypes /\ CaseInv(c)
  BY DEF RowInv
<1>2. /\ Latest(c) \in Nat /\ reopened[c] \in Nat
      /\ Latest(c)' = Latest(c) /\ Row(c)' = Row(c) /\ (Spare(c)' <=> Spare(c))
  BY <1>1, LatestIsRow DEF Latest, Row, Spare, rowVars, RowTypes
<1>3. At(c, "backoff") => Spare(c)
  BY <1>1, <1>2, AttemptsAssumption DEF CaseInv, WorkerAt, At, Spare
<1>4. WorkerAt(c)'
  BY <1>1, <1>2, <1>3 DEF CaseInv, WorkerAt, At, rowVars
<1> QED
  BY <1>4, QuietKeeps

LEMMA QuietStepKeeps ==
  ASSUME RowInv, NEW c \in Cases,
         \/ Recover(c) \/ MarkNothing(c) \/ AskBreaker(c) \/ WakeUp(c)
         \/ TryAgain(c) \/ Abort(c)
  PROVE  Keeps(c)
<1>1. /\ RowTypes /\ job \in [Cases -> Job]
      /\ UNCHANGED <<rowVars, called, caps, reopened, crashes>> /\ faults' \in Nat
  <2>1. RowTypes /\ job \in [Cases -> Job] /\ faults \in Nat
    BY DEF RowInv, RowTypes
  <2>2. UNCHANGED <<rowVars, called, envVars>>
    BY DEF Recover, MarkNothing, AskBreaker, WakeUp, TryAgain, Abort
  <2>3. faults' = faults \/ faults' = faults + 1
    BY DEF Recover, MarkNothing, AskBreaker, WakeUp, TryAgain, Abort, Fault
  <2> QED
    BY <2>1, <2>2, <2>3 DEF envVars
<1>2. CASE Leave(c)
  BY <1>1, <1>2, LeaveJob, MovedKeeps
<1>3. ASSUME NEW pc \in {"unknown", "store", "sleep", "open"}, Goto(c, pc),
             \/ pc \in {"sleep", "open"} /\ job[c].pc \in {"gate", "sleep"}
             \/ pc \in {"unknown", "store"} /\ job[c].pc = "recover"
      PROVE  Keeps(c)
  <2>1. /\ job' \in [Cases -> Job]
        /\ job'[c].pc = pc /\ job'[c].replay = job[c].replay
        /\ \A d \in Cases \ {c} : job'[d] = job[d]
    BY <1>1, <1>3, GotoJob DEF Pcs
  <2> QED
    BY <1>1, <1>3, <2>1, MovedKeeps
<1>4. ASSUME NEW replay \in BOOLEAN, Enter(c, "gate", replay),
             job[c].pc = "backoff" \/ (job[c].pc = "recover" /\ replay)
      PROVE  Keeps(c)
  <2>1. /\ job' \in [Cases -> Job]
        /\ job'[c].pc = "gate" /\ job'[c].replay = replay
        /\ \A d \in Cases \ {c} : job'[d] = job[d]
    BY <1>1, <1>4, EnterJob DEF Pcs
  <2> QED
    BY <1>1, <1>4, <2>1, MovedKeeps
<1>5. caps.idempotency \in BOOLEAN
  BY <1>1 DEF RowTypes, Capabilities
<1> HIDE DEF Capabilities
<1> QED
  BY <1>2, <1>3, <1>4, <1>5
  DEF Recover, MarkNothing, AskBreaker, WakeUp, TryAgain, Abort, At

(* A row is edited, the case gets a status, and the worker goes on or leaves. *)
LEMMA AmendKeeps ==
  ASSUME RowInv, NEW c \in Cases, NEW row \in AttemptRow, Latest(c) > 0, Amend(c, row),
         row.request = Row(c).request,
         caseStatus' \in [Cases -> CaseStatuses],
         \A d \in Cases \ {c} : caseStatus'[d] = caseStatus[d],
         caseStatus'[c] # "PENDING",
         job' \in [Cases -> Job], \A d \in Cases \ {c} : job'[d] = job[d],
         UNCHANGED <<called, caps, reopened, crashes, faults>>
  PROVE  /\ RowTypes' /\ OthersKept(c) /\ HistoryOf(c)'
         /\ Latest(c)' = Latest(c) /\ Row(c)' = row
         /\ ~Usable(row) /\ (\A n \in DOMAIN attempts[c] : ~Usable(attempts[c][n])) =>
               \A n \in DOMAIN attempts'[c] : ~Usable(attempts'[c][n])
<1>1. /\ attempts' \in [Cases -> Seq(AttemptRow)]
      /\ \A d \in Cases \ {c} : attempts'[d] = attempts[d]
      /\ Latest(c)' = Latest(c)
      /\ Row(c)' = row
      /\ DOMAIN attempts'[c] = DOMAIN attempts[c]
      /\ \A n \in DOMAIN attempts[c] : n < Latest(c) => attempts'[c][n] = attempts[c][n]
  BY AmendRow DEF RowInv
<1>2. RowTypes'
  BY <1>1 DEF RowInv, RowTypes
<1>3. OthersKept(c)
  BY <1>1 DEF OthersKept
<1>4. Amended(c)
  BY <1>1 DEF Amended
<1>5. HistoryOf(c)'
  BY <1>4, AmendedHistory
<1>6. DOMAIN attempts[c] = 1..Latest(c) /\ Latest(c) \in Nat
  BY LatestIsRow DEF RowInv
<1>7. ~Usable(row) /\ (\A n \in DOMAIN attempts[c] : ~Usable(attempts[c][n])) =>
               \A n \in DOMAIN attempts'[c] : ~Usable(attempts'[c][n])
  BY <1>1, <1>6 DEF Row, Latest
<1> QED
  BY <1>1, <1>2, <1>3, <1>5, <1>7

LEMMA SetCaseSets ==
  ASSUME RowTypes, NEW c \in Cases, NEW status \in CaseStatuses, SetCase(c, status)
  PROVE  /\ caseStatus' \in [Cases -> CaseStatuses]
         /\ caseStatus'[c] = status
         /\ \A d \in Cases \ {c} : caseStatus'[d] = caseStatus[d]
BY DEF RowTypes, SetCase

LEMMA FinishKeeps ==
  ASSUME RowInv, NEW c \in Cases, Repair(c) \/ Store(c) \/ CompleteAttempt(c)
  PROVE  Keeps(c)
<1>1. /\ RowTypes /\ job \in [Cases -> Job] /\ CaseInv(c)
      /\ job[c].pc \in {"repair", "store", "complete"}
      /\ SetCase(c, "TARGET_COMPLETE") /\ Leave(c)
      /\ UNCHANGED <<called, caps, reopened, crashes, faults>>
  BY DEF RowInv, RowTypes, Repair, Store, CompleteAttempt, At, envVars
<1>2. Latest(c) > 0 /\ Row(c) \in AttemptRow
  BY <1>1, LatestIsRow DEF CaseInv, WorkerAt
<1>3. PICK row \in AttemptRow : Amend(c, row) /\ row.observed /\ row.request = Row(c).request
  <2>1. CASE Repair(c)
    <3> DEFINE row == [Row(c) EXCEPT !.status = "RESPONSE_RECEIVED"]
    <3>1. Row(c).observed
      BY <1>1, <2>1 DEF Repair, CaseInv, WorkerAt
    <3>2. row \in AttemptRow /\ row.observed /\ row.request = Row(c).request
      BY <1>2, <3>1 DEF AttemptRow
    <3>3. Amend(c, row)
      BY <2>1 DEF Repair
    <3> HIDE DEF row
    <3> QED
      BY <3>2, <3>3
  <2>2. CASE Store(c) \/ CompleteAttempt(c)
    <3> DEFINE row == [Row(c) EXCEPT !.status = "RESPONSE_RECEIVED", !.observed = TRUE]
    <3>1. row \in AttemptRow /\ row.observed /\ row.request = Row(c).request
      BY <1>2 DEF AttemptRow
    <3>2. Amend(c, row)
      BY <2>2 DEF Store, CompleteAttempt
    <3> HIDE DEF row
    <3> QED
      BY <3>1, <3>2
  <2> QED
    BY <2>1, <2>2
<1>4. /\ caseStatus' \in [Cases -> CaseStatuses]
      /\ caseStatus'[c] = "TARGET_COMPLETE"
      /\ \A d \in Cases \ {c} : caseStatus'[d] = caseStatus[d]
  BY <1>1, SetCaseSets DEF CaseStatuses
<1>5. /\ job' \in [Cases -> Job] /\ job'[c].pc = "idle"
      /\ \A d \in Cases \ {c} : job'[d] = job[d]
  BY <1>1, LeaveJob
<1>6. RowTypes' /\ OthersKept(c) /\ HistoryOf(c)' /\ Latest(c)' = Latest(c) /\ Row(c)' = row
  BY <1>1, <1>2, <1>3, <1>4, <1>5, AmendKeeps
<1>7. OutcomeOf(c)' /\ WorkerAt(c)'
  BY <1>2, <1>3, <1>4, <1>5, <1>6 DEF OutcomeOf, WorkerAt, At
<1> QED
  BY <1>6, <1>7 DEF Keeps, CaseInv

LEMMA UnknownKeeps ==
  ASSUME RowInv, NEW c \in Cases, MarkUnknown(c)
  PROVE  Keeps(c)
<1>1. /\ RowTypes /\ job \in [Cases -> Job] /\ CaseInv(c)
      /\ SetCase(c, "UNKNOWN") /\ Leave(c)
      /\ UNCHANGED <<attempts, called, caps, reopened, crashes, faults>>
  BY DEF RowInv, RowTypes, MarkUnknown, envVars
<1>2. /\ caseStatus' \in [Cases -> CaseStatuses]
      /\ caseStatus'[c] = "UNKNOWN"
      /\ \A d \in Cases \ {c} : caseStatus'[d] = caseStatus[d]
  BY <1>1, SetCaseSets DEF CaseStatuses
<1>3. /\ job' \in [Cases -> Job] /\ job'[c].pc = "idle"
      /\ \A d \in Cases \ {c} : job'[d] = job[d]
  BY <1>1, LeaveJob
<1>4. RowTypes' /\ OthersKept(c)
  BY <1>1, <1>2, <1>3 DEF RowTypes, OthersKept
<1>5. OutcomeOf(c)' /\ HistoryOf(c)' /\ WorkerAt(c)'
  BY <1>1, <1>2, <1>3
  DEF CaseInv, OutcomeOf, HistoryOf, WorkerAt, At, Taken, Row, Latest
<1> QED
  BY <1>4, <1>5 DEF Keeps, CaseInv

LEMMA CaptureKeeps ==
  ASSUME RowInv, NEW c \in Cases, CaptureResponse(c)
  PROVE  Keeps(c)
<1>1. /\ RowTypes /\ job \in [Cases -> Job] /\ CaseInv(c)
      /\ job[c].pc = "capture" /\ caseStatus[c] = "RUNNING"
      /\ UNCHANGED <<caseStatus, called, caps, reopened, crashes, faults>>
      /\ Leave(c) \/ Goto(c, "complete")
  BY DEF RowInv, RowTypes, CaptureResponse, At, envVars, CaseInv, WorkerAt
<1>2. Latest(c) > 0 /\ Row(c) \in AttemptRow
  BY <1>1, LatestIsRow DEF CaseInv, WorkerAt
<1>3. PICK row \in AttemptRow : Amend(c, row) /\ row.request = Row(c).request
  <2> DEFINE row(raw) == [Row(c) EXCEPT !.status = "RESPONSE_RECEIVED", !.raw = raw]
  <2>1. \A raw \in {"good", "bad"} :
          row(raw) \in AttemptRow /\ row(raw).request = Row(c).request
    BY <1>2 DEF AttemptRow
  <2>2. Amend(c, row("good")) \/ Amend(c, row("bad"))
    BY DEF CaptureResponse
  <2> HIDE DEF row
  <2> QED
    BY <2>1, <2>2
<1>4. /\ caseStatus' \in [Cases -> CaseStatuses]
      /\ caseStatus'[c] = "RUNNING"
      /\ \A d \in Cases \ {c} : caseStatus'[d] = caseStatus[d]
  BY <1>1 DEF RowTypes
<1>5. /\ job' \in [Cases -> Job] /\ job'[c].pc \in {"idle", "complete"}
      /\ \A d \in Cases \ {c} : job'[d] = job[d]
  BY <1>1, LeaveJob, GotoJob DEF Pcs
<1>6. RowTypes' /\ OthersKept(c) /\ HistoryOf(c)' /\ Latest(c)' = Latest(c) /\ Row(c)' = row
  BY <1>1, <1>2, <1>3, <1>4, <1>5, AmendKeeps
<1>7. OutcomeOf(c)' /\ WorkerAt(c)'
  BY <1>2, <1>3, <1>4, <1>5, <1>6 DEF OutcomeOf, WorkerAt, At
<1> QED
  BY <1>6, <1>7 DEF Keeps, CaseInv

LEMMA FailedKeeps ==
  ASSUME RowInv, NEW c \in Cases, RecordFailedAttempt(c)
  PROVE  Keeps(c)
<1> DEFINE status == IF job[c].retry THEN "RETRYABLE_FAILURE" ELSE "PERMANENT_FAILURE"
           row == [Row(c) EXCEPT !.status = status]
<1>1. /\ RowTypes /\ job \in [Cases -> Job] /\ CaseInv(c) /\ At(c, "failed")
      /\ SetCase(c, IF job[c].retry THEN "RETRY_PENDING" ELSE "FAILED")
      /\ IF job[c].retry THEN Goto(c, "backoff") ELSE Leave(c)
      /\ UNCHANGED <<called, caps, reopened, crashes, faults>>
      /\ Amend(c, row)
  BY DEF RowInv, RowTypes, RecordFailedAttempt, envVars
<1>2. /\ Latest(c) > 0 /\ Row(c) \in AttemptRow
      /\ Latest(c) \in DOMAIN attempts[c]
      /\ \A n \in DOMAIN attempts[c] : ~Usable(attempts[c][n])
      /\ job[c].retry => Latest(c) < MaxAttempts
  BY <1>1, LatestIsRow DEF CaseInv, WorkerAt, At
<1>3. /\ row \in AttemptRow /\ row.request = Row(c).request /\ row.status = status
      /\ row.observed = Row(c).observed /\ row.raw = Row(c).raw
  BY <1>2 DEF AttemptRow
<1>4. ~Usable(row)
  BY <1>2, <1>3 DEF Usable, Row
<1> HIDE DEF row
<1>5. /\ caseStatus' \in [Cases -> CaseStatuses]
      /\ caseStatus'[c] = IF job[c].retry THEN "RETRY_PENDING" ELSE "FAILED"
      /\ \A d \in Cases \ {c} : caseStatus'[d] = caseStatus[d]
  BY <1>1, SetCaseSets DEF CaseStatuses
<1>6. /\ job' \in [Cases -> Job]
      /\ job'[c].pc = IF job[c].retry THEN "backoff" ELSE "idle"
      /\ \A d \in Cases \ {c} : job'[d] = job[d]
  BY <1>1, GotoJob, LeaveJob DEF Pcs
<1>7. /\ RowTypes' /\ OthersKept(c) /\ HistoryOf(c)'
      /\ Latest(c)' = Latest(c) /\ Row(c)' = row
      /\ \A n \in DOMAIN attempts'[c] : ~Usable(attempts'[c][n])
  <2>1. caseStatus'[c] # "PENDING"
    BY <1>5
  <2> QED
    BY <1>1, <1>2, <1>3, <1>4, <1>5, <1>6, <2>1, AmendKeeps
<1>8. OutcomeOf(c)'
  BY <1>2, <1>3, <1>5, <1>7 DEF OutcomeOf
<1>9. WorkerAt(c)'
  BY <1>2, <1>6, <1>7 DEF WorkerAt, At
<1> QED
  BY <1>7, <1>8, <1>9 DEF Keeps, CaseInv

LEMMA AppendRow ==
  ASSUME RowTypes, NEW c \in Cases, NEW row \in AttemptRow,
         attempts' = [attempts EXCEPT ![c] = Append(@, row)]
  PROVE  /\ attempts' \in [Cases -> Seq(AttemptRow)]
         /\ \A d \in Cases \ {c} : attempts'[d] = attempts[d]
         /\ Latest(c)' = Latest(c) + 1
         /\ Row(c)' = row
         /\ DOMAIN attempts'[c] = 1..(Latest(c) + 1)
         /\ \A n \in DOMAIN attempts[c] : attempts'[c][n] = attempts[c][n]
<1> DEFINE s == attempts[c]
           t == Append(s, row)
<1>1. s \in Seq(AttemptRow) /\ Len(s) \in Nat
  BY DEF RowTypes
<1>2. /\ t \in Seq(AttemptRow) /\ Len(t) = Len(s) + 1 /\ t[Len(s) + 1] = row
      /\ \A n \in DOMAIN s : t[n] = s[n]
      /\ DOMAIN t = 1..(Len(s) + 1)
  BY <1>1
<1>3. attempts' = [attempts EXCEPT ![c] = t]
  OBVIOUS
<1> HIDE DEF t
<1>4. attempts'[c] = t
  BY <1>3 DEF RowTypes
<1> QED
  BY <1>1, <1>2, <1>3, <1>4 DEF RowTypes, Latest, Row

(* The one step that adds an attempt: the unique key rejects every request *)
(* id that was sent before, which leaves a replay nothing to send.         *)
LEMMA OpenKeeps ==
  ASSUME RowInv, NEW c \in Cases, OpenAttempt(c)
  PROVE  /\ Keeps(c)
         /\ Latest(c)' > Latest(c) =>
              \A n \in DOMAIN attempts[c] : ~Usable(attempts[c][n])
<1> DEFINE request == RequestOf(c)
           row == [status |-> "RUNNING", request |-> request, raw |-> "none",
                   observed |-> FALSE]
<1>1. /\ RowTypes /\ job \in [Cases -> Job] /\ CaseInv(c) /\ At(c, "open")
      /\ UNCHANGED <<called, caps, reopened, crashes, faults>>
      /\ faults' \in Nat /\ reopened[c] \in Nat
  BY DEF RowInv, RowTypes, OpenAttempt, envVars
<1>2. /\ Latest(c) \in Nat /\ DOMAIN attempts[c] = 1..Latest(c)
      /\ Latest(c) > 0 => Row(c) \in AttemptRow /\ Latest(c) \in DOMAIN attempts[c]
  BY <1>1, LatestIsRow
<1>3. \A n \in DOMAIN attempts[c] : ~Usable(attempts[c][n])
  BY <1>1 DEF CaseInv, WorkerAt, At
<1>4. CASE Leave(c) /\ UNCHANGED rowVars
  <2>1. Keeps(c)
    BY <1>1, <1>4, LeaveJob, MovedKeeps
  <2> QED
    BY <1>3, <2>1
<1>5. CASE /\ ~Taken(c, request)
           /\ attempts' = [attempts EXCEPT ![c] = Append(@, row)]
           /\ SetCase(c, "RUNNING")
           /\ Goto(c, "call")
  <2>1. request \in Nat
    BY <1>2 DEF RequestOf, AttemptRow
  <2>2. row \in AttemptRow /\ row.request = request /\ ~Usable(row)
    BY <2>1 DEF AttemptRow, Usable
  <2>3. job[c].replay /\ Latest(c) > 0 => Taken(c, request)
    BY <1>2 DEF RequestOf, Taken, Row
  <2> HIDE DEF row, request
  <2>4. /\ attempts' \in [Cases -> Seq(AttemptRow)]
        /\ \A d \in Cases \ {c} : attempts'[d] = attempts[d]
        /\ Latest(c)' = Latest(c) + 1
        /\ Row(c)' = row
        /\ DOMAIN attempts'[c] = 1..(Latest(c) + 1)
        /\ \A n \in DOMAIN attempts[c] : attempts'[c][n] = attempts[c][n]
    BY <1>1, <1>5, <2>2, AppendRow
  <2>5. /\ caseStatus' \in [Cases -> CaseStatuses]
        /\ caseStatus'[c] = "RUNNING"
        /\ \A d \in Cases \ {c} : caseStatus'[d] = caseStatus[d]
    BY <1>1, <1>5, SetCaseSets DEF CaseStatuses
  <2>6. /\ job' \in [Cases -> Job] /\ job'[c].pc = "call"
        /\ \A d \in Cases \ {c} : job'[d] = job[d]
    BY <1>1, <1>5, GotoJob DEF Pcs
  <2>7. RowTypes' /\ OthersKept(c)
    BY <1>1, <2>4, <2>5, <2>6 DEF RowTypes, OthersKept
  <2>8. Spare(c)
    BY <1>1, <1>5, <2>3 DEF CaseInv, WorkerAt, At
  <2>9. OutcomeOf(c)'
    BY <1>2, <2>4, <2>5 DEF OutcomeOf
  <2>10. HistoryOf(c)'
    <3>1. Latest(c)' <= MaxAttempts + reopened'[c]
      BY <1>1, <1>2, <2>4, <2>8, AttemptsAssumption DEF Spare
    <3>2. \A n \in DOMAIN attempts'[c] : n < Latest(c)' => ~Usable(attempts'[c][n])
      BY <1>2, <1>3, <2>4
    <3>3. \A r \in Nat : <<c, r>> \in called' => Taken(c, r)'
      <4> SUFFICES ASSUME NEW r \in Nat, <<c, r>> \in called PROVE Taken(c, r)'
        BY <1>1
      <4>1. PICK n \in DOMAIN attempts[c] : attempts[c][n].request = r
        BY <1>1 DEF CaseInv, HistoryOf, Taken
      <4>2. n \in DOMAIN attempts'[c] /\ attempts'[c][n].request = r
        BY <1>2, <2>4, <4>1
      <4> QED
        BY <4>2 DEF Taken
    <3> QED
      BY <2>5, <3>1, <3>2, <3>3 DEF HistoryOf
  <2>11. WorkerAt(c)'
    <3>1. \A n \in DOMAIN attempts'[c] : ~Usable(attempts'[c][n])
      BY <1>2, <1>3, <2>2, <2>4 DEF Row, Latest
    <3>2. <<c, request>> \notin called
      BY <1>1, <1>5, <2>1 DEF CaseInv, HistoryOf
    <3>3. Latest(c)' > 0
      BY <1>2, <2>4
    <3>4. Row(c)'.request = request
      BY <2>2, <2>4
    <3>5. <<c, Row(c)'.request>> \notin called'
      BY <1>1, <3>2, <3>4
    <3> QED
      BY <2>5, <2>6, <3>1, <3>3, <3>5 DEF WorkerAt, At
  <2> QED
    BY <1>3, <2>7, <2>9, <2>10, <2>11 DEF Keeps, CaseInv
<1> QED
  BY <1>4, <1>5 DEF OpenAttempt

LEMMA CallKeeps ==
  ASSUME RowInv, NEW c \in Cases, CallTarget(c)
  PROVE  Keeps(c)
<1> DEFINE sent == <<c, Row(c).request>>
<1>1. /\ RowTypes /\ job \in [Cases -> Job] /\ CaseInv(c) /\ At(c, "call")
      /\ UNCHANGED <<rowVars, caps, reopened, crashes, faults>>
      /\ called' \in {called, called \cup {sent}}
  BY DEF RowInv, RowTypes, CallTarget, envVars
<1>2. /\ Latest(c) > 0 /\ Latest(c) \in Nat /\ Row(c) \in AttemptRow
      /\ Latest(c) \in DOMAIN attempts[c]
      /\ Latest(c)' = Latest(c) /\ Row(c)' = Row(c)
      /\ caseStatus'[c] = "RUNNING"
      /\ \A n \in DOMAIN attempts'[c] : ~Usable(attempts'[c][n])
  BY <1>1, LatestIsRow DEF CaseInv, WorkerAt, At, rowVars, Latest, Row
<1>3. Row(c).request \in Nat /\ Taken(c, Row(c).request)
  BY <1>2 DEF AttemptRow, Taken, Row
<1>4. /\ job' \in [Cases -> Job] /\ job'[c].pc \in {"capture", "failed"}
      /\ job'[c].pc = "failed" /\ job'[c].retry => Latest(c) < MaxAttempts
      /\ \A d \in Cases \ {c} : job'[d] = job[d]
  <2>1. CASE Goto(c, "capture")
    BY <1>1, <2>1, GotoJob DEF Pcs
  <2>2. ASSUME NEW retry \in BOOLEAN,
               job' = [job EXCEPT ![c].pc = "failed", ![c].retry = retry],
               retry => Latest(c) < MaxAttempts
        PROVE  /\ job' \in [Cases -> Job] /\ job'[c].pc = "failed"
               /\ job'[c].retry => Latest(c) < MaxAttempts
               /\ \A d \in Cases \ {c} : job'[d] = job[d]
    <3> DEFINE j == [job[c] EXCEPT !.pc = "failed", !.retry = retry]
    <3>1. j \in Job /\ j.pc = "failed" /\ j.retry = retry
      BY <1>1 DEF Job, Pcs
    <3>2. job' = [job EXCEPT ![c] = j]
      BY <1>1, <2>2 DEF Job
    <3> HIDE DEF j
    <3> QED
      BY <1>1, <2>2, <3>1, <3>2
  <2>3. \A error \in Errors :
          LET retry == ShouldRetry(error, Latest(c), MaxAttempts)
          IN  retry \in BOOLEAN /\ (retry => Latest(c) < MaxAttempts)
    BY DEF ShouldRetry
  <2> QED
    BY <2>1, <2>2, <2>3 DEF CallTarget
<1>5. RowTypes' /\ OthersKept(c)
  <2>1. called' \subseteq Cases \X Nat
    BY <1>1, <1>3 DEF RowTypes
  <2> QED
    BY <1>1, <1>4, <2>1 DEF RowTypes, OthersKept, rowVars
<1>6. OutcomeOf(c)'
  BY <1>1, <1>2 DEF OutcomeOf, CaseInv
<1>7. HistoryOf(c)'
  <2>1. \A r \in Nat : <<c, r>> \in called' => Taken(c, r)'
    BY <1>1, <1>3 DEF CaseInv, HistoryOf, Taken, rowVars
  <2> QED
    BY <1>1, <1>2, <2>1 DEF CaseInv, HistoryOf, rowVars, Spare
<1>8. WorkerAt(c)'
  BY <1>2, <1>4 DEF WorkerAt, At
<1> QED
  BY <1>5, <1>6, <1>7, <1>8 DEF Keeps, CaseInv

LEMMA ReopenKeeps ==
  ASSUME RowInv, NEW c \in Cases, Reopen(c)
  PROVE  Keeps(c)
<1>1. /\ RowTypes /\ CaseInv(c) /\ At(c, "idle")
      /\ reopened' = [reopened EXCEPT ![c] = @ + 1]
      /\ SetCase(c, "PENDING")
      /\ UNCHANGED <<caps, attempts, job, called, faults, crashes>>
  BY DEF RowInv, Reopen
<1>2. /\ caseStatus' \in [Cases -> CaseStatuses]
      /\ caseStatus'[c] = "PENDING"
      /\ \A d \in Cases \ {c} : caseStatus'[d] = caseStatus[d]
  BY <1>1, SetCaseSets DEF CaseStatuses
<1>3. /\ reopened' \in [Cases -> Nat] /\ reopened'[c] = reopened[c] + 1
      /\ reopened[c] \in Nat
      /\ \A d \in Cases \ {c} : reopened'[d] = reopened[d]
  BY <1>1 DEF RowTypes
<1>4. RowTypes' /\ OthersKept(c)
  BY <1>1, <1>2, <1>3 DEF RowTypes, OthersKept
<1>5. Latest(c) \in Nat /\ Latest(c)' = Latest(c)
  BY <1>1, LatestIsRow DEF Latest
<1>6. OutcomeOf(c)' /\ WorkerAt(c)'
  BY <1>1, <1>2 DEF OutcomeOf, WorkerAt, At
<1>7. HistoryOf(c)'
  BY <1>1, <1>3, <1>5, AttemptsAssumption DEF CaseInv, HistoryOf, Spare, Taken
<1> QED
  BY <1>4, <1>6, <1>7 DEF Keeps, CaseInv

(* A crash keeps the rows, and what was in flight may have been served. *)
LEMMA CrashKeeps ==
  ASSUME RowInv, Crash
  PROVE  RowInv'
<1>1. NoJob \in Job /\ NoJob.pc = "idle"
  BY DEF NoJob, Job, Pcs
<1>2. /\ UNCHANGED <<caps, rowVars, reopened, faults>> /\ crashes' = crashes + 1
      /\ job' \in [Cases -> Job] /\ \A c \in Cases : job'[c].pc = "idle"
  BY <1>1 DEF Crash
<1>3. PICK served \in SUBSET {<<c, Row(c).request>> : c \in {d \in Cases : At(d, "call")}} :
        called' = called \cup served
  BY DEF Crash
<1>4. ASSUME NEW c \in Cases, NEW r, <<c, r>> \in served
      PROVE  r \in Nat /\ Taken(c, r)
  <2>1. At(c, "call") /\ r = Row(c).request
    BY <1>4
  <2>2. Latest(c) > 0
    BY <2>1 DEF RowInv, CaseInv, WorkerAt, At
  <2> QED
    BY <2>1, <2>2, LatestIsRow DEF RowInv, AttemptRow, Taken, Row
<1>5. RowTypes'
  <2>1. served \subseteq Cases \X Nat
    <3> SUFFICES ASSUME NEW c \in Cases, <<c, Row(c).request>> \in served
                 PROVE  <<c, Row(c).request>> \in Cases \X Nat
      OBVIOUS
    <3> QED
      BY <1>4
  <2> QED
    BY <1>2, <1>3, <2>1 DEF RowInv, RowTypes, rowVars
<1>6. ASSUME NEW c \in Cases PROVE CaseInv(c)'
  <2>1. CaseInv(c)
    BY DEF RowInv
  <2>2. OutcomeOf(c)' /\ WorkerAt(c)'
    BY <1>2, <2>1 DEF CaseInv, OutcomeOf, WorkerAt, At, rowVars, Row, Latest
  <2>3. \A r \in Nat : <<c, r>> \in called' => Taken(c, r)'
    BY <1>2, <1>3, <1>4, <2>1 DEF CaseInv, HistoryOf, Taken, rowVars
  <2>4. HistoryOf(c)'
    BY <1>2, <2>1, <2>3 DEF CaseInv, HistoryOf, rowVars, Latest, Spare
  <2> QED
    BY <2>2, <2>4 DEF CaseInv
<1> QED
  BY <1>5, <1>6 DEF RowInv

LEMMA RowsInitially == Init => RowInv
<1> SUFFICES ASSUME Init PROVE RowInv
  OBVIOUS
<1>1. RowTypes
  BY TargetsAssumption DEF Init, RowTypes, CaseStatuses, NoJob, Job, Pcs
<1>2. ASSUME NEW c \in Cases PROVE CaseInv(c)
  <2>1. /\ attempts[c] = <<>> /\ job[c].pc = "idle" /\ caseStatus[c] = "PENDING"
        /\ called = {} /\ reopened[c] = 0
    BY DEF Init, NoJob
  <2>2. Latest(c) = 0
    BY <2>1 DEF Latest
  <2> QED
    BY <2>1, <2>2, AttemptsAssumption
    DEF CaseInv, OutcomeOf, HistoryOf, WorkerAt, At, Spare
<1> QED
  BY <1>1, <1>2 DEF RowInv

LEMMA StepKeeps ==
  ASSUME RowInv, NEW c \in Cases, Begin(c) \/ WorkerStep(c) \/ Reopen(c)
  PROVE  Keeps(c)
BY BeginKeeps, QuietStepKeeps, FinishKeeps, UnknownKeeps, CaptureKeeps, FailedKeeps,
   OpenKeeps, CallKeeps, ReopenKeeps
DEF WorkerStep

LEMMA RowInvKept == RowInv /\ [Next]_vars => RowInv'
<1> SUFFICES ASSUME RowInv, [Next]_vars PROVE RowInv'
  OBVIOUS
<1>1. ASSUME NEW c \in Cases, Begin(c) \/ WorkerStep(c) \/ Reopen(c) PROVE RowInv'
  BY <1>1, StepKeeps, KeepsInv
<1>2. ASSUME UNCHANGED <<caps, rowVars, job, called, reopened, faults, crashes>>
      PROVE  RowInv'
  <2>1. RowTypes'
    BY <1>2 DEF RowInv, RowTypes, rowVars
  <2>2. ASSUME NEW c \in Cases PROVE CaseInv(c)'
    BY <1>2 DEF RowInv, CaseInv, OutcomeOf, HistoryOf, WorkerAt, At, Spare, Taken, Row,
                Latest, rowVars
  <2> QED
    BY <2>1, <2>2 DEF RowInv
<1>3. CASE Crash
  BY <1>3, CrashKeeps
<1>4. CASE Tick
  BY <1>2, <1>4 DEF Tick
<1>5. CASE UNCHANGED vars
  BY <1>2, <1>5 DEF vars, rowVars
<1> QED
  BY <1>1, <1>3, <1>4, <1>5 DEF Next

(* The rows of every case and what its worker relies on agree in every     *)
(* reachable state, for any number of cases, attempts, faults and crashes. *)
THEOREM RowsCorrect == Spec => []RowInv
BY RowsInitially, RowInvKept, PTL DEF Spec

(* worker.py: no case has more attempts than the retry budget, across      *)
(* crashes, recoveries and replays, save one for each retry command.       *)
THEOREM RetryBudgetAlways == Spec => []RetryBudget
<1>1. RowInv => RetryBudget
  BY DEF RowInv, CaseInv, HistoryOf, RetryBudget
<1> QED
  BY <1>1, RowsCorrect, PTL

(* attempts.request_id is unique: a request id that the target has served  *)
(* is never on its way to the target again.                                *)
THEOREM SentAtMostOnceAlways == Spec => []SentAtMostOnce
<1>1. RowInv => SentAtMostOnce
  BY DEF RowInv, CaseInv, WorkerAt, SentAtMostOnce
<1> QED
  BY <1>1, RowsCorrect, PTL

LEMMA BreakerTypesAlways == Spec => []Breaker!BreakerTypeOK
<1>1. Proved!BreakerSpec => []Proved!BreakerTypeOK
  BY BreakerAssumption, Proved!BreakerTypeCorrect DEF Breaker!Configured, Proved!Configured
<1>2. Proved!BreakerTypeOK => Breaker!BreakerTypeOK
  BY DEF Proved!BreakerTypeOK, Breaker!BreakerTypeOK, Proved!States, Breaker!States
<1> QED
  BY <1>1, <1>2, BreakerImplemented, SameBreaker, PTL DEF UsesBreaker

(* Every row is well formed, and the status of a case is backed by its     *)
(* latest attempt in every reachable state.                                *)
THEOREM RowsAreTrueAlways == Spec => []RowsAreTrue
<1>1. RowInv /\ Breaker!BreakerTypeOK => RowsAreTrue
  BY DEF RowInv, RowTypes, CaseInv, OutcomeOf, RowsAreTrue, TypeOK, OutcomeIsRecorded
<1> QED
  BY <1>1, RowsCorrect, BreakerTypesAlways, PTL

LEMMA AmendKeepsLengths ==
  ASSUME RowTypes, NEW c \in Cases, NEW row, Amend(c, row)
  PROVE  \A d \in Cases : Latest(d)' = Latest(d)
<1> DEFINE t == [attempts[c] EXCEPT ![Latest(c)] = row]
<1>1. attempts[c] \in Seq(AttemptRow \cup {row})
  BY DEF RowTypes
<1>2. Len(t) = Len(attempts[c])
  BY <1>1
<1>3. attempts' = [attempts EXCEPT ![c] = t]
  BY DEF Amend
<1> HIDE DEF t
<1> QED
  BY <1>2, <1>3 DEF RowTypes, Latest

(* The durability invariant of worker.py: once a usable response of a case *)
(* is stored, nothing ever opens another attempt of it.                    *)
THEOREM CapturedStaysFinal == Spec => CapturedIsFinal
<1> DEFINE Final == \A c \in Cases :
       Latest(c)' > Latest(c) =>
         \A n \in DOMAIN attempts[c] :
           ~attempts[c][n].observed /\ attempts[c][n].raw # "good"
<1>1. RowInv /\ [Next]_vars => [Final]_attempts
  <2> SUFFICES ASSUME RowInv, [Next]_vars PROVE Final \/ UNCHANGED attempts
    OBVIOUS
  <2>1. ASSUME NEW c \in Cases, OpenAttempt(c) PROVE Final
    <3>1. Keeps(c) /\ (Latest(c)' > Latest(c) =>
                         \A n \in DOMAIN attempts[c] : ~Usable(attempts[c][n]))
      BY <2>1, OpenKeeps
    <3>2. \A d \in Cases \ {c} : Latest(d)' = Latest(d) /\ Latest(d) \in Nat
      BY <3>1, LatestIsRow DEF Keeps, OthersKept, Latest, RowInv
    <3> QED
      BY <3>1, <3>2 DEF Usable
  <2>2. ASSUME NEW c \in Cases, NEW row, Amend(c, row) PROVE Final
    <3>1. \A d \in Cases : Latest(d)' = Latest(d) /\ Latest(d) \in Nat
      BY <2>2, AmendKeepsLengths, LatestIsRow DEF RowInv
    <3> QED
      BY <3>1
  <2>3. ASSUME NEW c \in Cases, Begin(c) \/ WorkerStep(c) \/ Reopen(c)
        PROVE  Final \/ UNCHANGED attempts
    <3> HIDE DEF Final
    <3> QED
      BY <2>1, <2>2, <2>3
      DEF WorkerStep, Begin, Reopen, Repair, Recover, Store, MarkUnknown, AskBreaker,
          WakeUp, CallTarget, CaptureResponse, CompleteAttempt, RecordFailedAttempt,
          TryAgain, Abort, rowVars
  <2>4. CASE Tick \/ Crash \/ UNCHANGED vars
    BY <2>4 DEF Tick, Crash, vars, rowVars
  <2> QED
    BY <2>3, <2>4 DEF Next
<1> QED
  BY <1>1, RowsCorrect, PTL DEF Spec, CapturedIsFinal

-----------------------------------------------------------------------------
(* The rows of the cases are a ledger (AttemptLedger)                        *)

(* What the ledger sees of an attempt, of all attempts of a case, and of   *)
(* the variables.                                                          *)
EntryOf(row) == [raw |-> row.raw, observed |-> row.observed]
EntriesOf(s) == [n \in DOMAIN s |-> EntryOf(s[n])]
History      == [c \in Cases |-> EntriesOf(attempts[c])]
ServedPairs  == UNION {{c} \X Served(c) : c \in Cases}
Finished     == {c \in Cases : caseStatus[c] = "TARGET_COMPLETE"}

(* What a case stores was served, each attempt has a request of its own,   *)
(* and a worker knows which of its request the target has served.          *)
StoredOf(c) ==
  /\ \A n \in DOMAIN attempts[c] :
       attempts[c][n].raw # "none" \/ attempts[c][n].observed =>
         <<c, attempts[c][n].request>> \in called
  /\ \A m, n \in DOMAIN attempts[c] :
       attempts[c][m].request = attempts[c][n].request => m = n

ServedAt(c) ==
  /\ job[c].pc \in {"capture", "complete", "store"} => <<c, Row(c).request>> \in called
  /\ job[c].pc \in {"call", "capture"} => Row(c).raw = "none"
  /\ job[c].pc = "unknown" => caseStatus[c] # "TARGET_COMPLETE"

StoredInv == RowInv /\ \A c \in Cases : StoredOf(c) /\ ServedAt(c)

LEMMA RowTyped ==
  ASSUME RowTypes, NEW c \in Cases, NEW n \in DOMAIN attempts[c]
  PROVE  attempts[c][n] \in AttemptRow /\ attempts[c][n].request \in Nat
<1>1. attempts[c] \in Seq(AttemptRow)
  BY DEF RowTypes
<1>2. attempts[c][n] \in AttemptRow
  BY <1>1
<1> QED
  BY <1>2 DEF AttemptRow

(* A step of the worker of c, seen from the ledger. *)
LEMMA CaseStepVars ==
  ASSUME RowTypes, RowTypes', NEW c \in Cases, OthersKept(c)
  PROVE  /\ History' = [History EXCEPT ![c] = EntriesOf(attempts'[c])]
         /\ Served(c)' = Served(c) => ServedPairs' = ServedPairs
         /\ Finished' = IF caseStatus'[c] = "TARGET_COMPLETE" THEN Finished \cup {c}
                        ELSE Finished \ {c}
<1>1. \A d \in Cases \ {c} : attempts'[d] = attempts[d] /\ caseStatus'[d] = caseStatus[d]
  BY DEF OthersKept
<1>2. History' = [History EXCEPT ![c] = EntriesOf(attempts'[c])]
  BY <1>1 DEF History
<1>3. ASSUME NEW d \in Cases \ {c} PROVE Served(d)' = Served(d)
  <2>1. \A n \in DOMAIN attempts[d] : attempts[d][n].request \in Nat
    BY RowTyped
  <2> QED
    BY <1>1, <2>1 DEF Served, OthersKept
<1>4. Served(c)' = Served(c) => ServedPairs' = ServedPairs
  BY <1>3 DEF ServedPairs
<1>5. Finished' = IF caseStatus'[c] = "TARGET_COMPLETE" THEN Finished \cup {c}
                  ELSE Finished \ {c}
  BY <1>1 DEF Finished
<1> QED
  BY <1>2, <1>4, <1>5

(* The invariant of the other cases. *)
LEMMA OthersStored ==
  ASSUME StoredInv, NEW c \in Cases, Keeps(c), StoredOf(c)', ServedAt(c)'
  PROVE  StoredInv'
<1>1. RowInv'
  BY KeepsInv DEF StoredInv
<1>2. ASSUME NEW d \in Cases \ {c} PROVE StoredOf(d)' /\ ServedAt(d)'
  <2>1. StoredOf(d) /\ ServedAt(d) /\ WorkerAt(d) /\ RowTypes
    BY DEF StoredInv, RowInv, CaseInv
  <2>2. /\ caseStatus'[d] = caseStatus[d] /\ attempts'[d] = attempts[d]
        /\ job'[d] = job[d]
        /\ \A request \in Nat : <<d, request>> \in called' <=> <<d, request>> \in called
    BY DEF Keeps, OthersKept
  <2>3. \A n \in DOMAIN attempts[d] : attempts[d][n].request \in Nat
    BY <2>1, RowTyped
  <2>4. StoredOf(d)'
    BY <2>1, <2>2, <2>3 DEF StoredOf
  <2>5. Latest(d) > 0 => Row(d).request \in Nat
    BY <2>1, LatestIsRow DEF AttemptRow
  <2>6. ServedAt(d)'
    BY <2>1, <2>2, <2>5 DEF ServedAt, WorkerAt, Row, Latest
  <2> QED
    BY <2>4, <2>6
<1> QED
  BY <1>1, <1>2 DEF StoredInv

(* The latest row of a case is amended: the rows keep their requests. *)
LEMMA LedgerAmend ==
  ASSUME StoredInv, NEW c \in Cases, Latest(c) > 0, NEW row \in AttemptRow, Amend(c, row),
         row.request = Row(c).request, UNCHANGED called,
         row.raw # "none" \/ row.observed => <<c, Row(c).request>> \in called
  PROVE  /\ StoredOf(c)' /\ Served(c)' = Served(c)
         /\ EntriesOf(attempts'[c]) = [EntriesOf(attempts[c]) EXCEPT ![Latest(c)] = EntryOf(row)]
         /\ EntriesOf(attempts[c])[Latest(c)] = EntryOf(Row(c))
<1>1. RowTypes /\ StoredOf(c)
  BY DEF StoredInv, RowInv
<1>2. /\ Latest(c)' = Latest(c) /\ Row(c)' = row
      /\ DOMAIN attempts'[c] = DOMAIN attempts[c]
      /\ \A n \in DOMAIN attempts[c] : n < Latest(c) => attempts'[c][n] = attempts[c][n]
  BY <1>1, AmendRow
<1>3. /\ DOMAIN attempts[c] = 1..Latest(c) /\ Latest(c) \in Nat
      /\ Latest(c) \in DOMAIN attempts[c]
  BY <1>1, LatestIsRow
<1>4. attempts'[c][Latest(c)] = row /\ attempts[c][Latest(c)] = Row(c)
  BY <1>2 DEF Row, Latest
<1>5. \A n \in DOMAIN attempts[c] :
        n # Latest(c) => attempts'[c][n] = attempts[c][n]
  BY <1>2, <1>3
<1>6. \A n \in DOMAIN attempts[c] : attempts'[c][n].request = attempts[c][n].request
  BY <1>4, <1>5
<1>7. StoredOf(c)'
  <2>1. \A n \in DOMAIN attempts[c] :
          attempts'[c][n].raw # "none" \/ attempts'[c][n].observed =>
            <<c, attempts'[c][n].request>> \in called
    BY <1>1, <1>4, <1>5, <1>6 DEF StoredOf
  <2>2. \A m, n \in DOMAIN attempts[c] :
          attempts'[c][m].request = attempts'[c][n].request => m = n
    BY <1>1, <1>6 DEF StoredOf
  <2> QED
    BY <1>2, <2>1, <2>2 DEF StoredOf
<1>8. Served(c)' = Served(c)
  BY <1>2, <1>6 DEF Served
<1>9. EntriesOf(attempts'[c]) = [EntriesOf(attempts[c]) EXCEPT ![Latest(c)] = EntryOf(row)]
  BY <1>2, <1>4, <1>5 DEF EntriesOf
<1>10. EntriesOf(attempts[c])[Latest(c)] = EntryOf(Row(c))
  BY <1>3, <1>4 DEF EntriesOf
<1> QED
  BY <1>7, <1>8, <1>9, <1>10

LEMMA EntriesAppend ==
  ASSUME NEW s \in Seq(AttemptRow), NEW row \in AttemptRow
  PROVE  EntriesOf(Append(s, row)) = Append(EntriesOf(s), EntryOf(row))
<1> DEFINE R == [raw : {"none", "good", "bad"}, observed : BOOLEAN]
           t == Append(s, row)
           e == EntriesOf(s)
<1>1. /\ t \in Seq(AttemptRow) /\ Len(t) = Len(s) + 1 /\ t[Len(s) + 1] = row
      /\ \A n \in 1..Len(s) : t[n] = s[n]
  BY AppendProperties
<1>2. \A x \in AttemptRow : EntryOf(x) \in R
  BY DEF AttemptRow, EntryOf
<1>3. DOMAIN s = 1..Len(s) /\ Len(s) \in Nat /\ DOMAIN t = 1..(Len(s) + 1)
  BY <1>1
<1>4. \A n \in 1..Len(s) : EntryOf(s[n]) \in R
  BY <1>2
<1> HIDE DEF R, t
<1>5. e \in Seq(R) /\ Len(e) = Len(s) /\ \A n \in 1..Len(s) : e[n] = EntryOf(s[n])
  BY <1>3, <1>4 DEF EntriesOf
<1>6. EntryOf(row) \in R
  BY <1>2
<1> HIDE DEF e
<1> DEFINE a == Append(e, EntryOf(row))
<1>7. /\ a \in Seq(R)
      /\ Len(a) = Len(s) + 1
      /\ \A n \in 1..Len(s) : a[n] = e[n]
      /\ a[Len(s) + 1] = EntryOf(row)
  BY <1>5, <1>6, AppendProperties
<1> HIDE DEF a
<1>8. a = [n \in 1..(Len(s) + 1) |-> a[n]]
  BY <1>7
<1>9. \A n \in 1..(Len(s) + 1) : EntryOf(t[n]) = a[n]
  BY <1>1, <1>3, <1>5, <1>7
<1>10. EntriesOf(t) = [n \in 1..(Len(s) + 1) |-> EntryOf(t[n])]
  BY <1>3 DEF EntriesOf
<1> QED
  BY <1>8, <1>9, <1>10 DEF t, e, a

LEMMA LedgerVars ==
  /\ Ledger!ledger = <<History, ServedPairs, Finished>>
  /\ \A c \in Cases : RowTypes => Ledger!Current(c) = {Latest(c)} \ {0}
<1>1. Ledger!ledger = <<History, ServedPairs, Finished>>
  BY DEF Ledger!ledger, History, ServedPairs, Finished, EntriesOf, EntryOf
<1>2. ASSUME NEW c \in Cases, RowTypes
      PROVE  Ledger!Current(c) = {Latest(c)} \ {0}
  <2>1. Ledger!Current(c) = {Len(History[c])} \ {0}
    BY DEF Ledger!Current, History, EntriesOf, EntryOf
  <2>2. attempts[c] \in Seq(AttemptRow)
    BY <1>2 DEF RowTypes
  <2>3. Len(History[c]) = Len(attempts[c])
    <3>1. EntriesOf(attempts[c]) = [n \in 1..Len(attempts[c]) |-> EntryOf(attempts[c][n])]
      BY <2>2 DEF EntriesOf
    <3> QED
      BY <2>2, <3>1 DEF History
  <2> QED
    BY <2>1, <2>3 DEF Latest
<1> QED
  BY <1>1, <1>2

LEMMA LedgerServe ==
  ASSUME RowTypes, ServedPairs \subseteq ServedPairs',
         \A c \in Cases : \A n \in Served(c)' \ Served(c) : n = Latest(c) /\ n > 0,
         UNCHANGED <<History, Finished>>
  PROVE  Ledger!Serve
<1>1. ServedPairs' \ ServedPairs \subseteq UNION {{c} \X Ledger!Current(c) : c \in Cases}
  <2> SUFFICES ASSUME NEW pair \in ServedPairs' \ ServedPairs
               PROVE  pair \in UNION {{c} \X Ledger!Current(c) : c \in Cases}
    OBVIOUS
  <2>1. PICK c \in Cases : pair \in {c} \X Served(c)'
    BY DEF ServedPairs
  <2>2. PICK n \in Served(c)' : pair = <<c, n>>
    BY <2>1
  <2>3. n \notin Served(c)
    BY <2>2 DEF ServedPairs
  <2>4. n \in Ledger!Current(c)
    BY <2>2, <2>3, LedgerVars
  <2> QED
    BY <2>2, <2>4
<1>2. Ledger!Serve <=>
        /\ ServedPairs \subseteq ServedPairs'
        /\ ServedPairs' \ ServedPairs \subseteq UNION {{c} \X Ledger!Current(c) : c \in Cases}
        /\ UNCHANGED <<History, Finished>>
  BY DEF Ledger!Serve, Finished, History, ServedPairs, EntriesOf, EntryOf
<1> QED
  BY <1>1, <1>2

LEMMA LedgerOpen ==
  ASSUME NEW c \in Cases, RowTypes, c \notin Finished,
         \A n \in DOMAIN attempts[c] : ~Usable(attempts[c][n]),
         History' = [History EXCEPT ![c] = Append(@, Ledger!Blank)],
         UNCHANGED <<ServedPairs, Finished>>
  PROVE  Ledger!Open(c)
<1>1. Ledger!Unusable(c)
  <2>1. Ledger!Unusable(c) <=> \A n \in DOMAIN History[c] : ~Ledger!Usable(History[c][n])
    BY DEF Ledger!Unusable, Ledger!Usable, History, EntriesOf, EntryOf
  <2>2. DOMAIN History[c] = DOMAIN attempts[c]
        /\ \A n \in DOMAIN attempts[c] : History[c][n] = EntryOf(attempts[c][n])
    BY DEF History, EntriesOf
  <2>3. ASSUME NEW n \in DOMAIN attempts[c] PROVE ~Ledger!Usable(EntryOf(attempts[c][n]))
    <3>1. attempts[c][n] \in AttemptRow /\ ~Usable(attempts[c][n])
      BY RowTyped
    <3> QED
      BY <3>1 DEF Usable, Ledger!Usable, EntryOf, AttemptRow
  <2> QED
    BY <2>1, <2>2, <2>3
<1>2. Ledger!Open(c) <=>
        /\ Ledger!Unusable(c)
        /\ c \notin Finished
        /\ History' = [History EXCEPT ![c] = Append(@, Ledger!Blank)]
        /\ Finished' = Finished \ {c}
        /\ UNCHANGED ServedPairs
  BY DEF Ledger!Open, Finished, History, ServedPairs, EntriesOf, EntryOf
<1>3. Finished' = Finished \ {c}
  OBVIOUS
<1> QED
  BY <1>1, <1>2, <1>3

LEMMA EntryAmended ==
  ASSUME NEW row, NEW before, NEW raw, NEW observed
  PROVE  /\ row.raw = before.raw /\ row.observed = observed =>
              EntryOf(row) = [EntryOf(before) EXCEPT !.observed = observed]
         /\ row.observed = before.observed /\ row.raw = raw =>
              EntryOf(row) = [EntryOf(before) EXCEPT !.raw = raw]
BY DEF EntryOf

LEMMA LedgerCapture ==
  ASSUME NEW c \in Cases, NEW n, NEW raw \in {"good", "bad"}, NEW row, NEW before,
         n \in Ledger!Current(c), <<c, n>> \in ServedPairs,
         History[c][n] = EntryOf(before), before.raw = "none",
         row.observed = before.observed, row.raw = raw,
         History' = [History EXCEPT ![c][n] = EntryOf(row)],
         UNCHANGED <<ServedPairs, Finished>>
  PROVE  Ledger!LedgerNext
<1>1. EntryOf(row) = [History[c][n] EXCEPT !.raw = raw] /\ History[c][n].raw = "none"
  BY EntryAmended DEF EntryOf
<1>2. Ledger!Capture(c, n, raw) <=>
        /\ <<c, n>> \in ServedPairs
        /\ History[c][n].raw = "none"
        /\ History' = [History EXCEPT ![c][n] = [History[c][n] EXCEPT !.raw = raw]]
        /\ UNCHANGED <<ServedPairs, Finished>>
  BY DEF Ledger!Capture, Ledger!Amend, Finished, History, ServedPairs, EntriesOf, EntryOf
<1>3. Ledger!Capture(c, n, raw)
  BY <1>1, <1>2
<1> QED
  BY <1>3 DEF Ledger!LedgerNext, Ledger!Advance

LEMMA LedgerComplete ==
  ASSUME NEW c \in Cases, NEW n, NEW row, NEW before,
         n \in Ledger!Current(c), <<c, n>> \in ServedPairs,
         History[c][n] = EntryOf(before), row.raw = before.raw, row.observed = TRUE,
         History' = [History EXCEPT ![c][n] = EntryOf(row)],
         Finished' = Finished \cup {c}, UNCHANGED ServedPairs
  PROVE  Ledger!LedgerNext
<1>1. EntryOf(row) = [History[c][n] EXCEPT !.observed = TRUE]
  BY EntryAmended
<1>2. Ledger!Complete(c, n) <=>
        /\ <<c, n>> \in ServedPairs
        /\ History' = [History EXCEPT ![c][n] = [History[c][n] EXCEPT !.observed = TRUE]]
        /\ Finished' = Finished \cup {c}
        /\ UNCHANGED ServedPairs
  BY DEF Ledger!Complete, Ledger!Amend, Finished, History, ServedPairs, EntriesOf, EntryOf
<1>3. Ledger!Complete(c, n)
  BY <1>1, <1>2
<1> QED
  BY <1>3 DEF Ledger!LedgerNext, Ledger!Advance

(* A step that shows nothing to the ledger. *)
LEMMA LedgerStutter ==
  UNCHANGED <<History, ServedPairs, Finished>> => UNCHANGED Ledger!ledger
BY DEF Ledger!ledger, History, ServedPairs, Finished, EntriesOf, EntryOf

-----------------------------------------------------------------------------
(* The actions, as the ledger sees them *)

(* Nothing a worker knows of the target gets lost on the way. *)
Told(c) == StoredOf(c)' /\ ServedAt(c)'

(* The rows, the served requests and the results stay. *)
LEMMA QuietTold ==
  ASSUME StoredInv, NEW c \in Cases, UNCHANGED <<rowVars, called>>, ServedAt(c)'
  PROVE  Told(c) /\ UNCHANGED Ledger!ledger
<1>1. StoredOf(c)'
  BY DEF StoredInv, StoredOf, rowVars
<1>2. UNCHANGED <<History, ServedPairs, Finished>>
  BY DEF rowVars, History, ServedPairs, Finished, Served
<1> QED
  BY <1>1, <1>2, LedgerStutter DEF Told

LEMMA BeginTold ==
  ASSUME StoredInv, NEW c \in Cases, Begin(c)
  PROVE  Told(c) /\ UNCHANGED Ledger!ledger
<1>1. /\ RowTypes /\ job \in [Cases -> Job] /\ CaseInv(c) /\ StoredOf(c)
      /\ UNCHANGED <<rowVars, called>>
  BY DEF StoredInv, RowInv, RowTypes, Begin
<1>2. /\ Latest(c) > 0 => Row(c) \in AttemptRow /\ Latest(c) \in DOMAIN attempts[c]
      /\ Row(c)' = Row(c)
  BY <1>1, LatestIsRow DEF Row, Latest, rowVars
<1>3. PICK stale \in BOOLEAN, pc \in {"repair", "store", "recover", "gate", "unknown"},
           replay \in BOOLEAN :
        /\ Enter(c, pc, replay)
        /\ pc = "store" => DecideRecovery(caseStatus[c], Evident(c, stale), caps)
                             = "RENORMALIZE_RAW"
        /\ pc = "unknown" => DecideRecovery(caseStatus[c], Evident(c, stale), caps)
                               = "MARK_UNKNOWN"
  BY DEF Begin
<1>4. job'[c].pc = pc
  BY <1>1, <1>3, EnterJob DEF Pcs
<1>5. pc = "store" => <<c, Row(c).request>> \in called
  <2> SUFFICES ASSUME pc = "store" PROVE <<c, Row(c).request>> \in called
    OBVIOUS
  <2>1. Latest(c) > 0 /\ Row(c).raw = "good"
    BY <1>3 DEF DecideRecovery, Evident, UncertainAction, FallbackAction
  <2> QED
    BY <1>1, <1>2, <2>1 DEF StoredOf, Row
<1>6. pc = "unknown" => caseStatus[c] # "TARGET_COMPLETE"
  <2> SUFFICES ASSUME pc = "unknown", caseStatus[c] = "TARGET_COMPLETE" PROVE FALSE
    OBVIOUS
  <2>1. Latest(c) > 0 /\ Row(c).observed
    BY <1>1 DEF CaseInv, OutcomeOf
  <2> QED
    BY <1>3, <2>1 DEF DecideRecovery, Evident
<1>7. ServedAt(c)'
  BY <1>1, <1>2, <1>3, <1>4, <1>5, <1>6 DEF ServedAt, rowVars
<1> QED
  BY <1>1, <1>7, QuietTold

LEMMA MovesTold ==
  ASSUME StoredInv, NEW c \in Cases,
         \/ Recover(c) \/ AskBreaker(c) \/ WakeUp(c) \/ TryAgain(c) \/ Abort(c)
  PROVE  Told(c) /\ UNCHANGED Ledger!ledger
<1>1. /\ RowTypes /\ job \in [Cases -> Job] /\ CaseInv(c)
      /\ UNCHANGED <<rowVars, called>>
  BY DEF StoredInv, RowInv, RowTypes, Recover, AskBreaker, WakeUp, TryAgain, Abort
<1>2. caps.idempotency \in BOOLEAN
  BY <1>1 DEF RowTypes, Capabilities
<1> HIDE DEF Capabilities
<1>3. \/ Leave(c)
      \/ \E pc \in {"sleep", "open"} : Goto(c, pc)
      \/ \E replay \in BOOLEAN : Enter(c, "gate", replay)
      \/ At(c, "recover") /\ Goto(c, "unknown")
      \/ Goto(c, "store") /\ <<c, Row(c).request>> \in called
  BY <1>2 DEF Recover, AskBreaker, WakeUp, TryAgain, Abort
<1>4. At(c, "recover") => caseStatus[c] # "TARGET_COMPLETE"
  <2> SUFFICES ASSUME At(c, "recover"), caseStatus[c] = "TARGET_COMPLETE" PROVE FALSE
    OBVIOUS
  <2>1. Latest(c) > 0 /\ Row(c).observed /\ Latest(c) \in DOMAIN attempts[c]
    BY <1>1, LatestIsRow DEF CaseInv, OutcomeOf
  <2>2. ~Usable(Row(c))
    BY <1>1, <2>1 DEF CaseInv, WorkerAt, At, Row
  <2> QED
    BY <2>1, <2>2 DEF Usable
<1>5. \/ job'[c].pc \in {"idle", "sleep", "open", "gate"}
      \/ job'[c].pc = "unknown" /\ caseStatus[c] # "TARGET_COMPLETE"
      \/ job'[c].pc = "store" /\ <<c, Row(c).request>> \in called
  BY <1>1, <1>3, <1>4, LeaveJob, GotoJob, EnterJob DEF Pcs
<1>6. ServedAt(c)'
  BY <1>1, <1>5 DEF ServedAt, rowVars, Row, Latest
<1> QED
  BY <1>1, <1>6, QuietTold

(* The latest attempt is one that the ledger may work on. *)
LEMMA LatestIsCurrent ==
  ASSUME StoredInv, NEW c \in Cases, Latest(c) > 0, <<c, Row(c).request>> \in called
  PROVE  Latest(c) \in Ledger!Current(c) /\ <<c, Latest(c)>> \in ServedPairs
<1>1. RowTypes
  BY DEF StoredInv, RowInv
<1>2. Latest(c) \in Nat /\ Latest(c) \in DOMAIN attempts[c]
  BY <1>1, LatestIsRow
<1>3. Latest(c) \in Served(c)
  BY <1>2 DEF Served, Row
<1> QED
  BY <1>1, <1>2, <1>3, LedgerVars DEF ServedPairs

LEMMA FinishTold ==
  ASSUME StoredInv, NEW c \in Cases, Keeps(c), Repair(c) \/ Store(c) \/ CompleteAttempt(c)
  PROVE  Told(c) /\ Ledger!LedgerNext
<1>1. /\ RowTypes /\ RowTypes' /\ OthersKept(c) /\ CaseInv(c) /\ StoredOf(c) /\ ServedAt(c)
      /\ job[c].pc \in {"repair", "store", "complete"}
      /\ SetCase(c, "TARGET_COMPLETE") /\ Leave(c) /\ UNCHANGED called
  BY DEF StoredInv, RowInv, Repair, Store, CompleteAttempt, At, Keeps
<1>2. Latest(c) > 0 /\ Row(c) \in AttemptRow /\ Latest(c) \in DOMAIN attempts[c]
  BY <1>1, LatestIsRow DEF CaseInv, WorkerAt
<1>3. <<c, Row(c).request>> \in called
  <2>1. CASE At(c, "repair")
    BY <1>1, <1>2, <2>1 DEF CaseInv, WorkerAt, StoredOf, Row
  <2>2. CASE ~At(c, "repair")
    BY <1>1, <2>2 DEF ServedAt, At
  <2> QED
    BY <2>1, <2>2
<1>4. PICK row \in AttemptRow :
        /\ Amend(c, row) /\ row.observed = TRUE
        /\ row.request = Row(c).request /\ row.raw = Row(c).raw
  <2>1. CASE Repair(c)
    <3> DEFINE row == [Row(c) EXCEPT !.status = "RESPONSE_RECEIVED"]
    <3>1. Row(c).observed = TRUE
      BY <1>1, <1>2, <2>1 DEF Repair, CaseInv, WorkerAt, AttemptRow
    <3>2. row \in AttemptRow /\ row.observed = TRUE /\ row.request = Row(c).request
          /\ row.raw = Row(c).raw
      BY <1>2, <3>1 DEF AttemptRow
    <3>3. Amend(c, row)
      BY <2>1 DEF Repair
    <3> HIDE DEF row
    <3> QED
      BY <3>2, <3>3
  <2>2. CASE Store(c) \/ CompleteAttempt(c)
    <3> DEFINE row == [Row(c) EXCEPT !.status = "RESPONSE_RECEIVED", !.observed = TRUE]
    <3>1. row \in AttemptRow /\ row.observed = TRUE /\ row.request = Row(c).request
          /\ row.raw = Row(c).raw
      BY <1>2 DEF AttemptRow
    <3>2. Amend(c, row)
      BY <2>2 DEF Store, CompleteAttempt
    <3> HIDE DEF row
    <3> QED
      BY <3>1, <3>2
  <2> QED
    BY <1>1, <2>1, <2>2
<1>5. /\ StoredOf(c)' /\ Served(c)' = Served(c)
      /\ EntriesOf(attempts'[c]) = [EntriesOf(attempts[c]) EXCEPT ![Latest(c)] = EntryOf(row)]
      /\ EntriesOf(attempts[c])[Latest(c)] = EntryOf(Row(c))
  BY <1>2, <1>3, <1>4, <1>1, LedgerAmend
<1>6. ServedAt(c)'
  <2>1. job'[c].pc = "idle"
    BY <1>1, LeaveJob DEF RowTypes
  <2> QED
    BY <2>1 DEF ServedAt
<1>7. caseStatus'[c] = "TARGET_COMPLETE"
  BY <1>1, SetCaseSets DEF CaseStatuses
<1>8. PICK n \in Nat, before \in AttemptRow : n = Latest(c) /\ before = Row(c)
  BY <1>1, <1>2, LatestIsRow
<1>9. /\ History' = [History EXCEPT ![c][n] = EntryOf(row)]
      /\ History[c][n] = EntryOf(before)
      /\ UNCHANGED ServedPairs /\ Finished' = Finished \cup {c}
  BY <1>1, <1>5, <1>7, <1>8, CaseStepVars DEF History
<1>10. n \in Ledger!Current(c) /\ <<c, n>> \in ServedPairs
  BY <1>2, <1>3, <1>8, LatestIsCurrent
<1>11. Ledger!LedgerNext
  BY <1>4, <1>8, <1>9, <1>10, LedgerComplete
<1> QED
  BY <1>5, <1>6, <1>11 DEF Told

LEMMA CaptureTold ==
  ASSUME StoredInv, NEW c \in Cases, Keeps(c), CaptureResponse(c)
  PROVE  Told(c) /\ Ledger!LedgerNext
<1>1. /\ RowTypes /\ RowTypes' /\ OthersKept(c) /\ CaseInv(c) /\ StoredOf(c) /\ ServedAt(c)
      /\ job[c].pc = "capture" /\ caseStatus[c] = "RUNNING"
      /\ UNCHANGED <<caseStatus, called>>
      /\ Leave(c) \/ Goto(c, "complete")
  BY DEF StoredInv, RowInv, CaptureResponse, At, Keeps, CaseInv, WorkerAt
<1>2. Latest(c) > 0 /\ Row(c) \in AttemptRow
  BY <1>1, LatestIsRow DEF CaseInv, WorkerAt
<1>3. <<c, Row(c).request>> \in called /\ Row(c).raw = "none"
  BY <1>1 DEF ServedAt
<1>4. PICK raw \in {"good", "bad"}, row \in AttemptRow :
        /\ Amend(c, row) /\ row.raw = raw
        /\ row.request = Row(c).request /\ row.observed = Row(c).observed
  <2> DEFINE row(raw) == [Row(c) EXCEPT !.status = "RESPONSE_RECEIVED", !.raw = raw]
  <2>1. \A raw \in {"good", "bad"} :
          /\ row(raw) \in AttemptRow /\ row(raw).request = Row(c).request
          /\ row(raw).raw = raw /\ row(raw).observed = Row(c).observed
    BY <1>2 DEF AttemptRow
  <2>2. Amend(c, row("good")) \/ Amend(c, row("bad"))
    BY DEF CaptureResponse
  <2> HIDE DEF row
  <2> QED
    BY <2>1, <2>2
<1>5. /\ StoredOf(c)' /\ Served(c)' = Served(c)
      /\ EntriesOf(attempts'[c]) = [EntriesOf(attempts[c]) EXCEPT ![Latest(c)] = EntryOf(row)]
      /\ EntriesOf(attempts[c])[Latest(c)] = EntryOf(Row(c))
  BY <1>1, <1>2, <1>3, <1>4, LedgerAmend
<1>6. Row(c)' = row
  BY <1>1, <1>2, <1>4, AmendRow
<1>7. ServedAt(c)'
  <2>1. job'[c].pc \in {"idle", "complete"}
    BY <1>1, LeaveJob, GotoJob DEF RowTypes, Pcs
  <2>2. <<c, Row(c)'.request>> \in called'
    BY <1>1, <1>3, <1>4, <1>6
  <2> QED
    BY <2>1, <2>2 DEF ServedAt
<1>8. PICK n \in Nat, before \in AttemptRow : n = Latest(c) /\ before = Row(c)
  BY <1>1, <1>2, LatestIsRow
<1>9. /\ History' = [History EXCEPT ![c][n] = EntryOf(row)]
      /\ History[c][n] = EntryOf(before)
      /\ UNCHANGED <<ServedPairs, Finished>>
  BY <1>1, <1>5, <1>8, CaseStepVars DEF History, Finished
<1>10. n \in Ledger!Current(c) /\ <<c, n>> \in ServedPairs
  BY <1>2, <1>3, <1>8, LatestIsCurrent
<1>11. Ledger!LedgerNext
  BY <1>3, <1>4, <1>8, <1>9, <1>10, LedgerCapture
<1> QED
  BY <1>5, <1>7, <1>11 DEF Told

LEMMA FailedTold ==
  ASSUME StoredInv, NEW c \in Cases, Keeps(c), RecordFailedAttempt(c)
  PROVE  Told(c) /\ UNCHANGED Ledger!ledger
<1>1. /\ RowTypes /\ RowTypes' /\ OthersKept(c) /\ CaseInv(c) /\ StoredOf(c)
      /\ At(c, "failed") /\ UNCHANGED called
      /\ SetCase(c, IF job[c].retry THEN "RETRY_PENDING" ELSE "FAILED")
      /\ IF job[c].retry THEN Goto(c, "backoff") ELSE Leave(c)
  BY DEF StoredInv, RowInv, RecordFailedAttempt, Keeps
<1>2. /\ Latest(c) > 0 /\ Row(c) \in AttemptRow /\ Latest(c) \in DOMAIN attempts[c]
      /\ caseStatus[c] = "RUNNING"
  BY <1>1, LatestIsRow DEF CaseInv, WorkerAt, At
<1>3. PICK row \in AttemptRow :
        /\ Amend(c, row) /\ row.raw = Row(c).raw
        /\ row.request = Row(c).request /\ row.observed = Row(c).observed
  <2> DEFINE status == IF job[c].retry THEN "RETRYABLE_FAILURE" ELSE "PERMANENT_FAILURE"
             row == [Row(c) EXCEPT !.status = status]
  <2>1. /\ row \in AttemptRow /\ row.request = Row(c).request
        /\ row.raw = Row(c).raw /\ row.observed = Row(c).observed
    BY <1>2 DEF AttemptRow
  <2>2. Amend(c, row)
    BY DEF RecordFailedAttempt
  <2> HIDE DEF row
  <2> QED
    BY <2>1, <2>2
<1>4. row.raw # "none" \/ row.observed => <<c, Row(c).request>> \in called
  BY <1>1, <1>2, <1>3 DEF StoredOf, Row
<1>5. /\ StoredOf(c)' /\ Served(c)' = Served(c)
      /\ EntriesOf(attempts'[c]) = [EntriesOf(attempts[c]) EXCEPT ![Latest(c)] = EntryOf(row)]
      /\ EntriesOf(attempts[c])[Latest(c)] = EntryOf(Row(c))
  BY <1>1, <1>2, <1>3, <1>4, LedgerAmend
<1>6. EntryOf(row) = EntryOf(Row(c))
  BY <1>3 DEF EntryOf
<1>7. EntriesOf(attempts'[c]) = EntriesOf(attempts[c])
  BY <1>5, <1>6 DEF EntriesOf
<1>8. ServedAt(c)'
  <2>1. job'[c].pc \in {"idle", "backoff"}
    BY <1>1, LeaveJob, GotoJob DEF RowTypes, Pcs
  <2> QED
    BY <2>1 DEF ServedAt
<1>9. caseStatus'[c] # "TARGET_COMPLETE"
  BY <1>1, SetCaseSets DEF CaseStatuses
<1>10. UNCHANGED <<History, ServedPairs, Finished>>
  BY <1>1, <1>2, <1>5, <1>7, <1>9, CaseStepVars DEF History, Finished
<1> QED
  BY <1>5, <1>8, <1>10, LedgerStutter DEF Told

(* The status of a case that is not complete changes, and nothing else. *)
LEMMA StatusTold ==
  ASSUME StoredInv, NEW c \in Cases, Keeps(c), MarkUnknown(c) \/ Reopen(c)
  PROVE  Told(c) /\ UNCHANGED Ledger!ledger
<1>1. /\ RowTypes /\ RowTypes' /\ OthersKept(c) /\ StoredOf(c) /\ ServedAt(c)
      /\ UNCHANGED <<attempts, called>>
      /\ \E status \in {"UNKNOWN", "PENDING"} : SetCase(c, status)
      /\ caseStatus[c] # "TARGET_COMPLETE"
  BY DEF StoredInv, RowInv, Keeps, MarkUnknown, Reopen, ServedAt, At
<1>2. job'[c].pc = "idle"
  BY <1>1, LeaveJob DEF MarkUnknown, Reopen, At, RowTypes
<1>3. caseStatus'[c] # "TARGET_COMPLETE"
  BY <1>1, SetCaseSets DEF CaseStatuses
<1>4. StoredOf(c)' /\ ServedAt(c)'
  BY <1>1, <1>2 DEF StoredOf, ServedAt
<1>5. UNCHANGED <<History, ServedPairs, Finished>>
  BY <1>1, <1>3, CaseStepVars DEF History, ServedPairs, Served, Finished
<1> QED
  BY <1>4, <1>5, LedgerStutter DEF Told

LEMMA OpenTold ==
  ASSUME StoredInv, NEW c \in Cases, Keeps(c), OpenAttempt(c)
  PROVE  Told(c) /\ (Ledger!LedgerNext \/ UNCHANGED Ledger!ledger)
<1> DEFINE request == RequestOf(c)
           row == [status |-> "RUNNING", request |-> request, raw |-> "none",
                   observed |-> FALSE]
<1>1. /\ RowTypes /\ RowTypes' /\ OthersKept(c) /\ CaseInv(c) /\ StoredOf(c)
      /\ job \in [Cases -> Job] /\ At(c, "open") /\ UNCHANGED called
  BY DEF StoredInv, RowInv, RowTypes, OpenAttempt, Keeps
<1>2. /\ Latest(c) \in Nat /\ DOMAIN attempts[c] = 1..Latest(c)
      /\ Latest(c) > 0 => Row(c) \in AttemptRow /\ Latest(c) \in DOMAIN attempts[c]
      /\ \A n \in DOMAIN attempts[c] : ~Usable(attempts[c][n])
  BY <1>1, LatestIsRow DEF CaseInv, WorkerAt, At
<1>3. CASE Leave(c) /\ UNCHANGED rowVars
  <2>1. ServedAt(c)'
    BY <1>1, <1>3, LeaveJob DEF ServedAt
  <2> QED
    BY <1>1, <1>3, <2>1, QuietTold
<1>4. CASE /\ ~Taken(c, request)
           /\ attempts' = [attempts EXCEPT ![c] = Append(@, row)]
           /\ SetCase(c, "RUNNING")
           /\ Goto(c, "call")
  <2>1. request \in Nat
    BY <1>2 DEF RequestOf, AttemptRow
  <2>2. row \in AttemptRow /\ row.request = request /\ EntryOf(row) = Ledger!Blank
    BY <2>1 DEF AttemptRow, EntryOf, Ledger!Blank
  <2>3. row.raw = "none" /\ row.observed = FALSE
    OBVIOUS
  <2> HIDE DEF row, request
  <2>4. /\ Latest(c)' = Latest(c) + 1
        /\ Row(c)' = row
        /\ DOMAIN attempts'[c] = 1..(Latest(c) + 1)
        /\ \A n \in DOMAIN attempts[c] : attempts'[c][n] = attempts[c][n]
    BY <1>1, <1>4, <2>2, AppendRow
  <2>5. attempts'[c][Latest(c) + 1] = row
    BY <2>4 DEF Row, Latest
  <2>6. \A n \in DOMAIN attempts[c] : attempts[c][n].request # request
    BY <1>4 DEF Taken
  <2>7. StoredOf(c)'
    <3>1. \A n \in DOMAIN attempts'[c] :
            attempts'[c][n].raw # "none" \/ attempts'[c][n].observed =>
              <<c, attempts'[c][n].request>> \in called'
      <4> SUFFICES ASSUME NEW n \in DOMAIN attempts'[c],
                          attempts'[c][n].raw # "none" \/ attempts'[c][n].observed
                   PROVE  <<c, attempts'[c][n].request>> \in called'
        OBVIOUS
      <4>1. n # Latest(c) + 1
        BY <2>3, <2>5
      <4>2. n \in DOMAIN attempts[c] /\ attempts'[c][n] = attempts[c][n]
        BY <1>2, <2>4, <4>1
      <4> QED
        BY <1>1, <4>2 DEF StoredOf
    <3>2. \A m, n \in DOMAIN attempts'[c] :
            attempts'[c][m].request = attempts'[c][n].request => m = n
      BY <1>1, <1>2, <2>2, <2>4, <2>5, <2>6 DEF StoredOf
    <3> QED
      BY <3>1, <3>2 DEF StoredOf
  <2>8. ServedAt(c)'
    <3>1. job'[c].pc = "call"
      BY <1>1, <1>4, GotoJob DEF Pcs
    <3>2. Row(c)'.raw = "none"
      BY <2>3, <2>4
    <3> QED
      BY <3>1, <3>2 DEF ServedAt
  <2>9. Served(c)' = Served(c)
    <3>1. <<c, request>> \notin called
      BY <1>1, <1>4, <2>1 DEF CaseInv, HistoryOf
    <3>2. <<c, attempts'[c][Latest(c) + 1].request>> \notin called
      BY <2>2, <2>5, <3>1
    <3>3. DOMAIN attempts'[c] = DOMAIN attempts[c] \cup {Latest(c) + 1}
      BY <1>2, <2>4
    <3> QED
      BY <1>1, <2>4, <3>2, <3>3 DEF Served
  <2>10. EntriesOf(attempts'[c]) = Append(History[c], Ledger!Blank)
    <3>1. attempts[c] \in Seq(AttemptRow) /\ attempts'[c] = Append(attempts[c], row)
      BY <1>1, <1>4 DEF RowTypes
    <3> QED
      BY <2>2, <3>1, EntriesAppend DEF History
  <2>11. c \notin Finished
    <3> SUFFICES ASSUME caseStatus[c] = "TARGET_COMPLETE" PROVE FALSE
      BY DEF Finished
    <3>1. Latest(c) > 0 /\ Row(c).observed
      BY <1>1 DEF CaseInv, OutcomeOf
    <3> QED
      BY <1>2, <3>1 DEF Usable, Row
  <2>12. caseStatus'[c] = "RUNNING"
    BY <1>1, <1>4, SetCaseSets DEF CaseStatuses
  <2>13. /\ History' = [History EXCEPT ![c] = Append(@, Ledger!Blank)]
         /\ UNCHANGED <<ServedPairs, Finished>>
    <3>1. History' = [History EXCEPT ![c] = EntriesOf(attempts'[c])]
      BY <1>1, CaseStepVars
    <3>2. UNCHANGED ServedPairs
      BY <1>1, <2>9, CaseStepVars
    <3>3. Finished' = Finished \ {c}
      BY <1>1, <2>12, CaseStepVars
    <3> QED
      BY <2>10, <2>11, <3>1, <3>2, <3>3
  <2>14. Ledger!Open(c)
    BY <1>1, <1>2, <2>11, <2>13, LedgerOpen
  <2> QED
    BY <2>7, <2>8, <2>14 DEF Told, Ledger!LedgerNext, Ledger!Advance
<1> QED
  BY <1>3, <1>4 DEF OpenAttempt

(* The target serves requests of workers that are calling it. *)
LEMMA ServeTold ==
  ASSUME StoredInv, UNCHANGED rowVars, called \subseteq called',
         \A d \in Cases : \A r \in Nat : <<d, r>> \in called' \ called =>
            At(d, "call") /\ r = Row(d).request
  PROVE  (\A c \in Cases : StoredOf(c)') /\ Ledger!Serve
<1>1. RowTypes /\ \A c \in Cases : CaseInv(c) /\ StoredOf(c)
  BY DEF StoredInv, RowInv
<1>2. ASSUME NEW c \in Cases PROVE StoredOf(c)'
  BY <1>1 DEF StoredOf, rowVars
<1>3. ASSUME NEW c \in Cases, NEW n \in Served(c)' \ Served(c)
      PROVE  n = Latest(c) /\ n > 0
  <2>1. /\ n \in DOMAIN attempts[c] /\ <<c, attempts[c][n].request>> \in called' \ called
    BY DEF Served, rowVars
  <2>2. attempts[c][n].request \in Nat
    BY <1>1, <2>1, RowTyped
  <2>3. At(c, "call") /\ attempts[c][n].request = Row(c).request
    BY <2>1, <2>2
  <2>4. Latest(c) > 0 /\ Latest(c) \in DOMAIN attempts[c]
    BY <1>1, <2>3, LatestIsRow DEF CaseInv, WorkerAt, At
  <2>5. n = Latest(c)
    BY <1>1, <2>1, <2>3, <2>4 DEF StoredOf, Row
  <2> QED
    BY <2>4, <2>5
<1>4. ServedPairs \subseteq ServedPairs'
  BY DEF ServedPairs, Served, rowVars
<1>5. UNCHANGED <<History, Finished>>
  BY DEF rowVars, History, Finished
<1> QED
  BY <1>1, <1>2, <1>3, <1>4, <1>5, LedgerServe

LEMMA CallTold ==
  ASSUME StoredInv, NEW c \in Cases, CallTarget(c)
  PROVE  Told(c) /\ Ledger!Serve
<1>1. /\ RowTypes /\ job \in [Cases -> Job] /\ ServedAt(c) /\ At(c, "call")
      /\ UNCHANGED rowVars
      /\ called' \in {called, called \cup {<<c, Row(c).request>>}}
  BY DEF StoredInv, RowInv, RowTypes, CallTarget
<1>2. StoredOf(c)' /\ Ledger!Serve
  BY <1>1, ServeTold
<1>3. \/ job'[c].pc = "failed"
      \/ job'[c].pc = "capture" /\ <<c, Row(c).request>> \in called'
  <2>1. CASE Goto(c, "capture") /\ called' = called \cup {<<c, Row(c).request>>}
    BY <1>1, <2>1, GotoJob DEF Pcs
  <2>2. ASSUME NEW retry, job' = [job EXCEPT ![c].pc = "failed", ![c].retry = retry]
        PROVE  job'[c].pc = "failed"
    <3>1. job' = [job EXCEPT ![c] = [job[c] EXCEPT !.pc = "failed", !.retry = retry]]
      BY <1>1, <2>2 DEF Job
    <3> QED
      BY <1>1, <3>1 DEF Job
  <2> QED
    BY <2>1, <2>2 DEF CallTarget
<1>4. Row(c)' = Row(c) /\ Row(c).raw = "none"
  BY <1>1 DEF rowVars, Row, Latest, ServedAt, At
<1>5. ServedAt(c)'
  BY <1>3, <1>4 DEF ServedAt
<1> QED
  BY <1>2, <1>5 DEF Told

LEMMA CrashTold ==
  ASSUME StoredInv, Crash
  PROVE  (\A c \in Cases : Told(c)) /\ Ledger!Serve
<1>1. PICK served \in SUBSET {<<c, Row(c).request>> : c \in {d \in Cases : At(d, "call")}} :
        called' = called \cup served
  BY DEF Crash
<1>2. UNCHANGED rowVars /\ \A c \in Cases : job'[c].pc = "idle"
  BY DEF Crash, NoJob
<1>3. ASSUME NEW d \in Cases, NEW r \in Nat, <<d, r>> \in called' \ called
      PROVE  At(d, "call") /\ r = Row(d).request
  BY <1>1, <1>3
<1>4. (\A c \in Cases : StoredOf(c)') /\ Ledger!Serve
  BY <1>1, <1>2, <1>3, ServeTold
<1>5. \A c \in Cases : ServedAt(c)'
  BY <1>2 DEF ServedAt
<1> QED
  BY <1>4, <1>5 DEF Told

LEMMA CaseTold ==
  ASSUME StoredInv, NEW c \in Cases, Begin(c) \/ WorkerStep(c) \/ Reopen(c)
  PROVE  StoredInv' /\ [Ledger!LedgerNext]_(Ledger!ledger)
<1>1. Keeps(c)
  BY StepKeeps DEF StoredInv
<1>2. Told(c) /\ [Ledger!LedgerNext]_(Ledger!ledger)
  BY <1>1, BeginTold, MovesTold, FinishTold, CaptureTold, FailedTold, StatusTold,
     OpenTold, CallTold
  DEF WorkerStep, Ledger!LedgerNext
<1> QED
  BY <1>1, <1>2, OthersStored DEF Told

(* One worker per case makes the rows the strict ledger: every step of the *)
(* workers, of the operator and of a crash is one of the ledger or none,   *)
(* for any number of cases, attempts, faults, crashes and capabilities.    *)
THEOREM LedgerImplemented == Spec => KeepsLedger
<1>1. Init => StoredInv /\ Ledger!LedgerInit
  <2> SUFFICES ASSUME Init PROVE StoredInv /\ Ledger!LedgerInit
    OBVIOUS
  <2>1. \A c \in Cases : attempts[c] = <<>> /\ job[c].pc = "idle"
    BY DEF Init, NoJob
  <2>2. StoredInv
    BY <2>1, RowsInitially DEF StoredInv, StoredOf, ServedAt
  <2>3. History = [c \in Cases |-> <<>>]
    BY <2>1 DEF History, EntriesOf
  <2>4. ServedPairs = {} /\ Finished = {}
    BY <2>1 DEF Init, ServedPairs, Served, Finished
  <2>5. Ledger!LedgerInit
    BY <2>3, <2>4
    DEF Ledger!LedgerInit, History, EntriesOf, EntryOf, ServedPairs, Finished
  <2> QED
    BY <2>2, <2>5
<1>2. StoredInv /\ [Next]_vars => StoredInv' /\ [Ledger!LedgerNext]_(Ledger!ledger)
  <2> SUFFICES ASSUME StoredInv, [Next]_vars
               PROVE  StoredInv' /\ [Ledger!LedgerNext]_(Ledger!ledger)
    OBVIOUS
  <2>1. RowInv'
    BY RowInvKept DEF StoredInv
  <2>2. CASE Crash
    BY <2>1, <2>2, CrashTold DEF StoredInv, Told, Ledger!LedgerNext
  <2>3. CASE Tick \/ UNCHANGED vars
    <3>1. UNCHANGED <<rowVars, job, called>>
      BY <2>3 DEF Tick, vars, rowVars
    <3>2. \A c \in Cases : ServedAt(c)'
      BY <3>1 DEF StoredInv, ServedAt, rowVars, Row, Latest
    <3>3. \A c \in Cases : StoredOf(c)'
      BY <3>1 DEF StoredInv, StoredOf, rowVars
    <3>4. UNCHANGED <<History, ServedPairs, Finished>>
      BY <3>1 DEF rowVars, History, ServedPairs, Finished, Served
    <3> QED
      BY <2>1, <3>2, <3>3, <3>4, LedgerStutter DEF StoredInv
  <2> QED
    BY <2>2, <2>3, CaseTold DEF Next
<1> QED
  BY <1>1, <1>2, PTL DEF Spec, KeepsLedger, Ledger!LedgerSpec

=============================================================================
