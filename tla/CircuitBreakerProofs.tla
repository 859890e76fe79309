------------------------ MODULE CircuitBreakerProofs ------------------------
(* The breaker's invariants, for any callers, thresholds and cooldown.     *)
EXTENDS CircuitBreaker, TLAPS

(* Type correctness of the breaker and of its callers' sleeps.             *)
THEOREM BreakerTypeCorrect ==
  ASSUME Configured
  PROVE  BreakerSpec => []BreakerTypeOK
<1>1. BreakerInit => BreakerTypeOK
  BY DEF Configured, BreakerInit, Fresh, BreakerTypeOK, States
<1>2. BreakerTypeOK /\ [BreakerNext]_breaker => BreakerTypeOK'
  <2> SUFFICES ASSUME BreakerTypeOK, [BreakerNext]_breaker PROVE BreakerTypeOK'
    OBVIOUS
  <2> USE DEF Configured, BreakerTypeOK, States
  <2>1. ASSUME NEW w \in Callers, Admit(w) PROVE BreakerTypeOK'
    BY <2>1 DEF Admit, CanExecute, HalfOpen, sleep, circuit
  <2>2. ASSUME NEW w \in Callers, Refuse(w) PROVE BreakerTypeOK'
    <3>1. Cooldown - elapsed \in 0..Cooldown
      OBVIOUS
    <3>2. remaining' \in [Callers -> 0..Cooldown]
      BY <2>2, <3>1 DEF Refuse, FallAsleep
    <3> QED
      BY <2>2, <3>2 DEF Refuse, FallAsleep, circuit
  <2>3. ASSUME NEW w \in Callers, Wake(w) PROVE BreakerTypeOK'
    BY <2>3 DEF Wake, WakeUp, HalfOpen, circuit
  <2>4. ASSUME NEW w \in Callers, Succeed(w) PROVE BreakerTypeOK'
    BY <2>4 DEF Succeed, RecordSuccess, CloseCircuit, sleep, circuit
  <2>5. ASSUME NEW w \in Callers, Fail(w) PROVE BreakerTypeOK'
    BY <2>5 DEF Fail, RecordFailure, OpenCircuit, sleep
  <2>6. ASSUME NEW w \in Callers, Abandon(w) PROVE BreakerTypeOK'
    BY <2>6 DEF Abandon, sleep, circuit
  <2>7. CASE Tick
    <3>1. remaining' \in [Callers -> 0..Cooldown]
      BY <2>7 DEF Tick, Elapse
    <3> QED
      BY <2>7, <3>1 DEF Tick, Elapse
  <2>8. CASE Reset
    BY <2>8 DEF Reset, CloseCircuit, sleep
  <2>9. CASE Restart
    BY <2>9 DEF Restart, CloseCircuit
  <2>10. CASE UNCHANGED breaker
    BY <2>10 DEF breaker
  <2> QED
    BY <2>1, <2>2, <2>3, <2>4, <2>5, <2>6, <2>7, <2>8, <2>9, <2>10
    DEF BreakerNext, CallerStep
<1> QED
  BY <1>1, <1>2, PTL DEF BreakerSpec

(* The counters agree with the state, however late the results of earlier  *)
(* calls are recorded.                                                     *)
THEOREM CountersCorrect ==
  ASSUME Configured
  PROVE  BreakerSpec => []BreakerInv
<1>1. BreakerInit => BreakerInv
  BY DEF Configured, BreakerInit, Fresh, BreakerInv
<1>2. BreakerTypeOK /\ BreakerInv /\ [BreakerNext]_breaker => BreakerInv'
  <2> SUFFICES ASSUME BreakerTypeOK, BreakerInv, [BreakerNext]_breaker
               PROVE BreakerInv'
    OBVIOUS
  <2> USE DEF Configured, BreakerTypeOK, BreakerInv, States
  <2>1. ASSUME NEW w \in Callers, Admit(w) PROVE BreakerInv'
    BY <2>1 DEF Admit, CanExecute, HalfOpen, circuit
  <2>2. ASSUME NEW w \in Callers, Refuse(w) PROVE BreakerInv'
    BY <2>2 DEF Refuse, FallAsleep, circuit
  <2>3. ASSUME NEW w \in Callers, Wake(w) PROVE BreakerInv'
    BY <2>3 DEF Wake, WakeUp, HalfOpen, circuit
  <2>4. ASSUME NEW w \in Callers, Succeed(w) PROVE BreakerInv'
    BY <2>4 DEF Succeed, RecordSuccess, CloseCircuit, circuit
  <2>5. ASSUME NEW w \in Callers, Fail(w) PROVE BreakerInv'
    BY <2>5 DEF Fail, RecordFailure, OpenCircuit
  <2>6. ASSUME NEW w \in Callers, Abandon(w) PROVE BreakerInv'
    BY <2>6 DEF Abandon, circuit
  <2>7. CASE Tick
    BY <2>7 DEF Tick, Elapse
  <2>8. CASE Reset \/ Restart
    BY <2>8 DEF Reset, Restart, CloseCircuit
  <2>9. CASE UNCHANGED breaker
    BY <2>9 DEF breaker
  <2> QED
    BY <2>1, <2>2, <2>3, <2>4, <2>5, <2>6, <2>7, <2>8, <2>9
    DEF BreakerNext, CallerStep
<1> QED
  BY <1>1, <1>2, BreakerTypeCorrect, PTL DEF BreakerSpec

(* Nobody sleeps beyond the cooldown of an open circuit. The interesting   *)
(* steps are the one that reopens the circuit while others sleep, which    *)
(* starts a full cooldown, and the clock, which takes a tick from both.    *)
THEOREM SleepCorrect ==
  ASSUME Configured
  PROVE  BreakerSpec => []SleepEndsInTime
<1>1. BreakerInit => SleepEndsInTime
  BY DEF BreakerInit, Fresh, SleepEndsInTime
<1>2. BreakerTypeOK /\ SleepEndsInTime /\ [BreakerNext]_breaker => SleepEndsInTime'
  <2> SUFFICES ASSUME BreakerTypeOK, SleepEndsInTime, [BreakerNext]_breaker,
                      NEW v \in sleepers', state' = "OPEN"
               PROVE remaining'[v] <= Cooldown - elapsed'
    BY DEF SleepEndsInTime
  <2> USE DEF Configured, BreakerTypeOK, SleepEndsInTime
  <2>1. ASSUME NEW w \in Callers, Admit(w)
        PROVE remaining'[v] <= Cooldown - elapsed'
    BY <2>1 DEF Admit, CanExecute, HalfOpen, sleep, circuit
  <2>2. ASSUME NEW w \in Callers, Refuse(w)
        PROVE remaining'[v] <= Cooldown - elapsed'
    <3>1. CASE v = w
      BY <2>2, <3>1 DEF Refuse, FallAsleep, circuit
    <3>2. CASE v # w
      BY <2>2, <3>2 DEF Refuse, FallAsleep, circuit
    <3> QED
      BY <3>1, <3>2
  <2>3. ASSUME NEW w \in Callers, Wake(w)
        PROVE remaining'[v] <= Cooldown - elapsed'
    BY <2>3 DEF Wake, WakeUp, HalfOpen, circuit
  <2>4. ASSUME NEW w \in Callers, Succeed(w)
        PROVE remaining'[v] <= Cooldown - elapsed'
    BY <2>4 DEF Succeed, RecordSuccess, CloseCircuit, sleep, circuit
  <2>5. ASSUME NEW w \in Callers, Fail(w)
        PROVE remaining'[v] <= Cooldown - elapsed'
    BY <2>5 DEF Fail, RecordFailure, OpenCircuit, sleep
  <2>6. ASSUME NEW w \in Callers, Abandon(w)
        PROVE remaining'[v] <= Cooldown - elapsed'
    BY <2>6 DEF Abandon, sleep, circuit
  <2>7. CASE Tick
    <3>1. state = "OPEN" /\ v \in sleepers /\ v \in Callers
      BY <2>7 DEF Tick, Elapse
    <3>2. remaining'[v] = IF remaining[v] > 0 THEN remaining[v] - 1 ELSE 0
      BY <2>7, <3>1 DEF Tick, Elapse
    <3>3. elapsed' = IF elapsed < Cooldown THEN elapsed + 1 ELSE elapsed
      BY <2>7, <3>1 DEF Tick, Elapse
    <3> QED
      BY <3>1, <3>2, <3>3
  <2>8. CASE Reset \/ Restart
    BY <2>8 DEF Reset, Restart, CloseCircuit
  <2>9. CASE UNCHANGED breaker
    BY <2>9 DEF breaker
  <2> QED
    BY <2>1, <2>2, <2>3, <2>4, <2>5, <2>6, <2>7, <2>8, <2>9
    DEF BreakerNext, CallerStep
<1> QED
  BY <1>1, <1>2, BreakerTypeCorrect, PTL DEF BreakerSpec

=============================================================================
