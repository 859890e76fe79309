--------------------------- MODULE MCRunExecution ---------------------------
(* RunExecution and RunPromises on small instances: the capabilities of    *)
(* the target are records, which a .cfg cannot write.                      *)
EXTENDS RunPromises, TLC

PlainTarget       == [idempotency |-> FALSE, request_recovery |-> FALSE]
RecoverableTarget == [idempotency |-> TRUE, request_recovery |-> TRUE]

Symmetry == Permutations(Cases) \cup Permutations(Requests)

=============================================================================
