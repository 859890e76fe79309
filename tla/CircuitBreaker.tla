--------------------------- MODULE CircuitBreaker ---------------------------
(***************************************************************************)
(* execution/circuit_breaker.py: the breaker that all workers of a target  *)
(* share. Every critical section runs without suspension, so each method   *)
(* is one action, except wait_for_cooldown, which sleeps in the middle.    *)
(*                                                                         *)
(* Time is counted in ticks. Instead of dates the module keeps the time    *)
(* since the circuit was opened and what is left of every sleep, both      *)
(* saturated where the code cannot tell the difference any more.           *)
(***************************************************************************)
EXTENDS Naturals

CONSTANTS
  Callers,            \* the workers of the target
  FailureThreshold,   \* consecutive failures that open the circuit
  SuccessThreshold,   \* successful probes that close it
  Cooldown            \* cooldown_seconds, in ticks

(* What the program's configurations satisfy; assumed where the module is  *)
(* instantiated.                                                           *)
Configured ==
  /\ FailureThreshold \in Nat \ {0}
  /\ SuccessThreshold \in Nat \ {0}
  /\ Cooldown \in Nat

VARIABLES
  state,       \* _state
  failures,    \* _failure_count
  successes,   \* _success_count
  elapsed,     \* ticks since _opened_at, at most Cooldown; 0 when it is None
  sleepers,    \* the callers asleep in wait_for_cooldown
  remaining,   \* what is left of their sleep
  calling      \* the callers that were let through

circuit == <<state, failures, successes, elapsed>>
sleep   == <<sleepers, remaining>>
breaker == <<state, failures, successes, elapsed, sleepers, remaining, calling>>

States == {"CLOSED", "OPEN", "HALF_OPEN"}

BreakerTypeOK ==
  /\ state \in States
  /\ failures \in Nat
  /\ successes \in Nat
  /\ elapsed \in 0..Cooldown
  /\ sleepers \subseteq Callers
  /\ remaining \in [Callers -> 0..Cooldown]
  /\ calling \subseteq Callers

Fresh ==
  /\ state = "CLOSED"
  /\ failures = 0
  /\ successes = 0
  /\ elapsed = 0
  /\ sleepers = {}
  /\ remaining = [w \in Callers |-> 0]

BreakerInit == Fresh /\ calling = {}

-----------------------------------------------------------------------------
(* The transitions *)

HalfOpen ==
  /\ state' = "HALF_OPEN"
  /\ successes' = 0
  /\ UNCHANGED <<failures, elapsed>>

(* _open_circuit, apart from the counter of failures *)
OpenCircuit ==
  /\ state' = "OPEN"
  /\ elapsed' = 0
  /\ successes' = 0

CloseCircuit ==
  /\ state' = "CLOSED"
  /\ failures' = 0
  /\ successes' = 0
  /\ elapsed' = 0

(* can_execute answers True ... *)
CanExecute ==
  \/ state # "OPEN" /\ UNCHANGED circuit
  \/ state = "OPEN" /\ elapsed = Cooldown /\ HalfOpen

(* ... or False, and the caller goes on to wait_for_cooldown. *)
MustWait == state = "OPEN" /\ elapsed < Cooldown

FallAsleepFully(w) ==
  /\ sleepers' = sleepers \cup {w}
  /\ remaining' = [remaining EXCEPT ![w] = Cooldown]
  /\ UNCHANGED circuit

FallAsleep(w) ==
  /\ sleepers' = sleepers \cup {w}
  /\ remaining' = [remaining EXCEPT ![w] = Cooldown - elapsed]
  /\ UNCHANGED circuit

WakeUpWithoutProbe(w) ==
  /\ w \in sleepers
  /\ remaining[w] = 0
  /\ state # "OPEN"
  /\ sleepers' = sleepers \ {w}
  /\ UNCHANGED <<remaining, circuit>>

(* The end of the sleep: half-open, whatever happened to the circuit in    *)
(* the meantime, unless it is not open at all.                             *)
WakeUp(w) ==
  /\ w \in sleepers
  /\ remaining[w] = 0
  /\ sleepers' = sleepers \ {w}
  /\ UNCHANGED remaining
  /\ \/ state = "OPEN" /\ HalfOpen
     \/ state # "OPEN" /\ UNCHANGED circuit

RecordSuccess ==
  \/ /\ state = "HALF_OPEN"
     /\ successes + 1 >= SuccessThreshold
     /\ CloseCircuit
  \/ /\ state = "HALF_OPEN"
     /\ successes + 1 < SuccessThreshold
     /\ successes' = successes + 1
     /\ UNCHANGED <<state, failures, elapsed>>
  \/ /\ state = "CLOSED"
     /\ failures' = 0
     /\ UNCHANGED <<state, successes, elapsed>>
  \/ /\ state = "OPEN"
     /\ UNCHANGED circuit

RecordFailureLate ==
  /\ failures' = failures + 1
  /\ \/ /\ \/ state = "HALF_OPEN"
           \/ state = "CLOSED" /\ failures' > FailureThreshold
        /\ OpenCircuit
     \/ /\ \/ state = "OPEN"
           \/ state = "CLOSED" /\ failures' <= FailureThreshold
        /\ UNCHANGED <<state, successes, elapsed>>

RecordFailure ==
  /\ failures' = failures + 1
  /\ \/ /\ \/ state = "HALF_OPEN"
           \/ state = "CLOSED" /\ failures' >= FailureThreshold
        /\ OpenCircuit
     \/ /\ \/ state = "OPEN"
           \/ state = "CLOSED" /\ failures' < FailureThreshold
        /\ UNCHANGED <<state, successes, elapsed>>

(* The clock. *)
Elapse ==
  /\ elapsed' = IF state # "CLOSED" /\ elapsed < Cooldown THEN elapsed + 1
                ELSE elapsed
  /\ remaining' = [w \in Callers |->
                     IF remaining[w] > 0 THEN remaining[w] - 1 ELSE 0]
  /\ UNCHANGED <<state, failures, successes, sleepers>>

-----------------------------------------------------------------------------
(* The breaker and its callers *)

Idle(w) == w \notin sleepers \cup calling

Admit(w) ==
  /\ Idle(w)
  /\ CanExecute
  /\ calling' = calling \cup {w}
  /\ UNCHANGED sleep

Refuse(w) ==
  /\ Idle(w)
  /\ MustWait
  /\ FallAsleep(w)
  /\ UNCHANGED calling

Wake(w) ==
  /\ WakeUp(w)
  /\ calling' = calling \cup {w}

Succeed(w) ==
  /\ w \in calling
  /\ RecordSuccess
  /\ calling' = calling \ {w}
  /\ UNCHANGED sleep

Fail(w) ==
  /\ w \in calling
  /\ RecordFailure
  /\ calling' = calling \ {w}
  /\ UNCHANGED sleep

(* A caller leaves without a result, on an error of its own. *)
Abandon(w) ==
  /\ w \in calling
  /\ calling' = calling \ {w}
  /\ UNCHANGED <<circuit, sleep>>

Tick == Elapse /\ UNCHANGED calling

(* The process restarts, and its breaker with it. *)
Restart ==
  /\ CloseCircuit
  /\ sleepers' = {}
  /\ remaining' = [w \in Callers |-> 0]
  /\ calling' = {}

(* reset, which nobody calls in the program: sleepers sleep on. *)
Reset ==
  /\ CloseCircuit
  /\ UNCHANGED <<sleep, calling>>

CallerStep(w) ==
  Admit(w) \/ Refuse(w) \/ Wake(w) \/ Succeed(w) \/ Fail(w) \/ Abandon(w)

BreakerNext == (\E w \in Callers : CallerStep(w)) \/ Tick \/ Reset \/ Restart

BreakerSpec == BreakerInit /\ [][BreakerNext]_breaker

-----------------------------------------------------------------------------
(* The counters always agree with the state: a closed circuit is below the *)
(* failure threshold and an unclosed one has reached it, however late the  *)
(* failures of earlier calls are recorded; probes are only counted while   *)
(* the circuit is half-open, and never reach the success threshold there.  *)
BreakerInv ==
  /\ state = "CLOSED" <=> failures < FailureThreshold
  /\ successes > 0 => state = "HALF_OPEN" /\ successes < SuccessThreshold
  /\ state = "CLOSED" => elapsed = 0

(* While the circuit is open nobody sleeps beyond its cooldown, even when  *)
(* it was reopened during the sleep: as soon as can_execute would let a    *)
(* newcomer through, every sleeper may go on as well.                      *)
SleepEndsInTime ==
  \A w \in sleepers : state = "OPEN" => remaining[w] <= Cooldown - elapsed

=============================================================================
