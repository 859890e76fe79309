----------------------------- MODULE RetryPolicy -----------------------------
(***************************************************************************)
(* RetryPolicy.evaluate (execution/retry.py): whether a failed attempt is  *)
(* followed by another one. An error is what the precedence of the early   *)
(* returns looks at: the explicit flag, the HTTP status and the category.  *)
(***************************************************************************)
EXTENDS Naturals

(* "retryable" stands for the members of retryable_http_statuses, and for  *)
(* the configured and default categories.                                  *)
Errors == [retryable   : BOOLEAN,
           http_status : {"none", "retryable", "other"},
           category    : {"retryable", "other"}]

IsRetryable(error) ==
  \/ error.retryable
  \/ error.http_status = "retryable"
  \/ error.http_status = "none" /\ error.category = "retryable"

ShouldRetryOnceMore(error, number, max_attempts) ==
  number <= max_attempts /\ IsRetryable(error)

ShouldRetry(error, number, max_attempts) ==
  number < max_attempts /\ IsRetryable(error)

=============================================================================
