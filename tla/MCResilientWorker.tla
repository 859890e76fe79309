-------------------------- MODULE MCResilientWorker --------------------------
(* ResilientWorker on small instances. *)
EXTENDS ResilientWorker

Plain       == [idempotency |-> FALSE, request_recovery |-> FALSE]
Recoverable == [idempotency |-> FALSE, request_recovery |-> TRUE]
Replayable  == [idempotency |-> TRUE, request_recovery |-> FALSE]
Capable     == [idempotency |-> TRUE, request_recovery |-> TRUE]

(* Every combination of capabilities that decides differently. *)
AllTargets   == {Plain, Recoverable, Replayable, Capable}
TwoTargets   == {Plain, Replayable}

=============================================================================
