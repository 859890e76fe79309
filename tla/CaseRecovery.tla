---------------------------- MODULE CaseRecovery ----------------------------
(***************************************************************************)
(* CaseRecoveryService.decide_recovery (execution/recovery.py): what the   *)
(* executor does with one case execution, decided from durable state only. *)
(* The module has no state; RunExecution consults it before every case.    *)
(***************************************************************************)

(***************************************************************************)
(* CaseExecutionStatus, plus CANCELLED, which TestService.cancel_run       *)
(* writes into the same column.                                            *)
(***************************************************************************)
CaseStatuses == {"PENDING", "RUNNING", "TARGET_COMPLETE", "SCORING",
                 "COMPLETE", "FAILED", "RETRY_PENDING", "INTERRUPTED",
                 "UNKNOWN", "CANCELLED"}

RecoveryActions == {"REUSE_OBSERVATION", "RENORMALIZE_RAW",
                    "RECOVER_REQUEST", "IDEMPOTENT_REPLAY", "EXECUTE_NEW",
                    "MARK_UNKNOWN", "SKIP"}

(***************************************************************************)
(* What decide_recovery learns about the latest attempt: whether there is  *)
(* one, whether it owns a stored observation, whether its raw response is  *)
(* there and renormalizes (_try_renormalize swallows every failure), and   *)
(* whether its last activity is older than the staleness threshold.        *)
(***************************************************************************)
Evidence == [exists : BOOLEAN, observed : BOOLEAN,
             renormalizes : BOOLEAN, stale : BOOLEAN]

(* The capabilities of the target that recovery depends on. *)
Capabilities == [idempotency : BOOLEAN, request_recovery : BOOLEAN]

(* A RUNNING case without any attempt counts as stale. *)
IsStale(latest) == ~latest.exists \/ latest.stale

RecoverableUnknown(status, latest) ==
  \/ status \in {"UNKNOWN", "INTERRUPTED"}
  \/ status = "RUNNING" /\ IsStale(latest)

(* What follows when request recovery yields no response, or is absent. *)
FallbackAction(caps) ==
  IF caps.idempotency THEN "IDEMPOTENT_REPLAY" ELSE "MARK_UNKNOWN"

UncertainAction(latest, caps) ==
  IF latest.exists /\ caps.request_recovery THEN "RECOVER_REQUEST"
  ELSE IF latest.exists THEN FallbackAction(caps)
  ELSE "MARK_UNKNOWN"

DecideFreshFirst(status, latest, caps) ==
  IF status = "COMPLETE" THEN "SKIP"
  ELSE IF status \in {"PENDING", "RETRY_PENDING"} THEN "EXECUTE_NEW"
  ELSE IF latest.exists /\ latest.observed THEN "REUSE_OBSERVATION"
  ELSE IF latest.exists /\ latest.renormalizes THEN "RENORMALIZE_RAW"
  ELSE "MARK_UNKNOWN"

(* The precedence of the early returns of decide_recovery. *)
DecideRecovery(status, latest, caps) ==
  IF status = "COMPLETE" THEN "SKIP"
  ELSE IF latest.exists /\ latest.observed THEN "REUSE_OBSERVATION"
  ELSE IF latest.exists /\ latest.renormalizes THEN "RENORMALIZE_RAW"
  ELSE IF status \in {"PENDING", "RETRY_PENDING"} THEN "EXECUTE_NEW"
  ELSE IF RecoverableUnknown(status, latest) THEN UncertainAction(latest, caps)
  ELSE IF status \in {"RUNNING", "FAILED"} THEN "SKIP"
  ELSE "MARK_UNKNOWN"

=============================================================================
