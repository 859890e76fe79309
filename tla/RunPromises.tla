---------------------------- MODULE RunPromises -----------------------------
(***************************************************************************)
(* What a docstring of the repository promises about a run and the program *)
(* does not keep, refuted by a run of its own. README.md tells the story   *)
(* of the counterexample.                                                  *)
(***************************************************************************)
EXTENDS RunExecution

(* services/test_service.py:1471, "Permanently cancel a nonterminal run."  *)
(* _finish_run and _mark_run_failed overwrite the status of a run that was *)
(* cancelled under a working pool.                                         *)
CancelIsPermanent == [][runStatus = "CANCELLED" => runStatus' = "CANCELLED"]_runStatus

=============================================================================
