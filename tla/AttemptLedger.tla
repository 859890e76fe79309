---------------------------- MODULE AttemptLedger ----------------------------
(***************************************************************************)
(* What an executor promises about the attempts of a case, whichever of    *)
(* the two it is: the worker pool of execution/engine.py (RunExecution) or *)
(* the resilient worker of execution/worker.py (ResilientWorker). The      *)
(* ledger only grows, a response or observation is stored for a request    *)
(* that the target served and is never taken back, and a case is complete  *)
(* on the strength of an observation alone.                                *)
(***************************************************************************)
EXTENDS Naturals, Sequences

CONSTANTS
  Cases,
  Exclusive,   \* one worker at a time deals with a case and can read its responses
  Final        \* nobody but the worker writes the state of a case

VARIABLES
  history,     \* the attempts of a case, in attempt_number order
  served,      \* <<case, attempt number>> of the requests the target served
  complete     \* the cases whose result is committed

ledger == <<history, served, complete>>

Blank == [raw |-> "none", observed |-> FALSE]
Usable(entry) == entry.observed \/ entry.raw = "good"
Unusable(c) == \A n \in DOMAIN history[c] : ~Usable(history[c][n])

LedgerInit ==
  /\ history = [c \in Cases |-> <<>>]
  /\ served = {}
  /\ complete = {}

(* A new attempt: registered before its request is sent, and where one     *)
(* worker is alone with the case, only without a usable response.          *)
Open(c) ==
  /\ Exclusive => Unusable(c)
  /\ Final => c \notin complete
  /\ history' = [history EXCEPT ![c] = Append(@, Blank)]
  /\ complete' = complete \ {c}
  /\ UNCHANGED served

(* The attempts that somebody may still work on. *)
Current(c) == IF Exclusive THEN {Len(history[c])} \ {0} ELSE DOMAIN history[c]

(* The target serves requests of attempts, those a crash cut off included. *)
Serve ==
  /\ served \subseteq served'
  /\ served' \ served \subseteq UNION {{c} \X Current(c) : c \in Cases}
  /\ UNCHANGED <<history, complete>>

Amend(c, n, entry) == history' = [history EXCEPT ![c][n] = entry]

(* The response of a served request is stored, once. *)
Capture(c, n, raw) ==
  /\ <<c, n>> \in served
  /\ history[c][n].raw = "none"
  /\ Amend(c, n, [history[c][n] EXCEPT !.raw = raw])
  /\ UNCHANGED <<served, complete>>

(* An observation is stored and the case is complete, in one transaction. *)
Complete(c, n) ==
  /\ <<c, n>> \in served
  /\ Amend(c, n, [history[c][n] EXCEPT !.observed = TRUE])
  /\ complete' = complete \cup {c}
  /\ UNCHANGED served

(* Commands and other workers overwrite the state of a case, which loses   *)
(* nothing of its history.                                                 *)
Overwrite ==
  /\ ~Final
  /\ complete' \subseteq complete
  /\ UNCHANGED <<history, served>>

Advance(c) ==
  \/ Open(c)
  \/ \E n \in Current(c) :
       Complete(c, n) \/ \E raw \in {"good", "bad"} : Capture(c, n, raw)

LedgerNext == Serve \/ Overwrite \/ \E c \in Cases : Advance(c)

LedgerSpec == LedgerInit /\ [][LedgerNext]_ledger

=============================================================================
