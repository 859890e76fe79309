------------------------------ MODULE TestDesign ------------------------------
(***************************************************************************)
(* services/test_service.py: the editable tests, their readiness and hash, *)
(* and the snapshot a run takes of one, together with the targets and      *)
(* benchmarks a test refers to, which change underneath it.                *)
(*                                                                         *)
(* Requests that edit one test are serialised by its row (update_test      *)
(* flushes and refreshes it before the status is recomputed), so each is   *)
(* one step.                                                               *)
(***************************************************************************)
EXTENDS TargetRegistry, FiniteSets

CONSTANTS
  Tests, Benchmarks, Cases, Runs,
  None,           \* NULL
  Metrics,        \* ids of registered metrics
  Requirements,   \* inputs a metric may need (MetricRequirement)
  Needs,          \* what each metric needs
  CaseOffers,     \* what each benchmark case supplies
  ConfigOffers,   \* what the capabilities of a configuration promise
  Observables,    \* what an observation may turn out to supply
  Judge,          \* the requirement a judge configuration supplies
  MaxConfigs      \* bound: configurations of a target

ASSUME NeedsAssumption == Needs \in [Metrics -> SUBSET Requirements]
ASSUME OffersAssumption ==
  /\ CaseOffers \in [Cases -> SUBSET Requirements]
  /\ ConfigOffers \in [Configs -> SUBSET Requirements]
  /\ Observables \subseteq SUBSET Requirements
ASSUME NoneAssumption ==
  /\ None \notin Targets \cup Benchmarks \cup Tests
  /\ \A S \in SUBSET Cases : S # None
ASSUME IdsAssumption == Targets # {} /\ Tests # {}

VARIABLES
  cases,         \* the cases of each benchmark that exists
  test,          \* the test definitions and their metric selections
  run,           \* runs with the snapshot they were created from
  observations   \* what the stored observations of a target supply

testVars == <<cases, test, run, observations>>
vars == <<registryVars, testVars>>

SelectionModes == {"EXPLICIT", "ALL_AVAILABLE"}

(* What definition_hash is computed from; the hash is injective. An        *)
(* optional value is a sequence of at most one element.                    *)
Payload == [target : Targets \cup {None}, benchmark : Benchmarks \cup {None},
            mode : SelectionModes, resolved : SUBSET Metrics, judge : BOOLEAN]
Hashes  == {<<>>} \cup {<<p>> : p \in Payload}
Test    == [exists : BOOLEAN, target : Targets \cup {None},
            benchmark : Benchmarks \cup {None}, mode : SelectionModes,
            selected : SUBSET Metrics, judge : BOOLEAN,
            status : {"INCOMPLETE", "READY"}, hash : Hashes]
Run     == [state : {"none", "pending", "executing", "failed"},
            test : Tests \cup {None}, target : Targets \cup {None},
            snapshot : [target : Targets, version : Nat, metrics : SUBSET Metrics,
                        test : Tests]]

NewTest == [exists |-> TRUE, target |-> None, benchmark |-> None,
            mode |-> "EXPLICIT", selected |-> {}, judge |-> FALSE,
            status |-> "INCOMPLETE", hash |-> <<>>]
NoTest  == [NewTest EXCEPT !.exists = FALSE]
NoRun   == [state |-> "none", test |-> None, target |-> None,
            snapshot |-> [target |-> CHOOSE t \in Targets : TRUE, version |-> 0,
                          metrics |-> {}, test |-> CHOOSE x \in Tests : TRUE]]

TypeOK ==
  /\ RegistryTypeOK
  /\ cases \in [Benchmarks -> (SUBSET Cases) \cup {None}]
  /\ DOMAIN test = Tests
  /\ \A x \in Tests :
       /\ test[x].mode \in SelectionModes
       /\ test[x].selected \subseteq Metrics
       /\ test[x].status \in {"INCOMPLETE", "READY"}
       /\ Len(test[x].hash) <= 1
       /\ test[x].status = "READY" <=> test[x].hash # <<>>
  /\ run \in [Runs -> Run]
  /\ observations \in [Targets -> SUBSET SUBSET Requirements]

Init ==
  /\ RegistryInit
  /\ cases = [b \in Benchmarks |-> None]
  /\ test = [x \in Tests |-> NoTest]
  /\ run = [r \in Runs |-> NoRun]
  /\ observations = [t \in Targets |-> {}]

-----------------------------------------------------------------------------
(* Applicability of metrics and validity of a test.                        *)

BenchmarkSupplies(x) ==
  IF x.benchmark = None \/ cases[x.benchmark] = None THEN {}
  ELSE UNION {CaseOffers[c] : c \in cases[x.benchmark]}

(* Observations are authoritative once there are any.                      *)
TargetSupplies(x) ==
  IF x.target = None THEN {}
  ELSE IF observations[x.target] # {} THEN UNION observations[x.target]
  ELSE IF capable[x.target] = 0 THEN {}
  ELSE ConfigOffers[history[x.target][capable[x.target]]]

EvaluatorSupplies(x) == IF x.judge THEN {Judge} ELSE {}

Applicable(x) ==
  {m \in Metrics : Needs[m] \subseteq
     BenchmarkSupplies(x) \cup TargetSupplies(x) \cup EvaluatorSupplies(x)}

Resolved(x) ==
  IF x.mode = "ALL_AVAILABLE" THEN Applicable(x)
  ELSE x.selected \cap Applicable(x)

TargetValid(x) ==
  /\ x.target # None
  /\ life[x.target] = "registered"
  /\ enabled[x.target]
  /\ history[x.target] # <<>>

BenchmarkValid(x) ==
  /\ x.benchmark # None
  /\ cases[x.benchmark] \notin {None, {}}

MetricsValid(x) ==
  /\ Resolved(x) # {}
  /\ x.mode = "EXPLICIT" => x.selected \subseteq Applicable(x)

Valid(x) == TargetValid(x) /\ BenchmarkValid(x) /\ MetricsValid(x)

PayloadOf(x) ==
  [target |-> x.target, benchmark |-> x.benchmark, mode |-> x.mode,
   resolved |-> Resolved(x), judge |-> x.judge]

(* _refresh_test_state: the last thing every edit of a test does.          *)
Refreshed(x) ==
  IF Valid(x)
    THEN [x EXCEPT !.status = "READY", !.hash = <<PayloadOf(x)>>]
    ELSE [x EXCEPT !.status = "INCOMPLETE", !.hash = <<>>]

-----------------------------------------------------------------------------
(* Editing tests.                                                          *)

CreateTest(x) ==
  /\ ~test[x].exists
  /\ test' = [test EXCEPT ![x] = NewTest]
  /\ UNCHANGED <<registryVars, cases, run, observations>>

(* update_test with a target and a benchmark, None to clear either.        *)
UpdateTest(x, t, b) ==
  /\ test[x].exists
  /\ t # None => life[t] = "registered"
  /\ b # None => cases[b] # None
  /\ test' = [test EXCEPT
       ![x] = Refreshed([@ EXCEPT !.target = t, !.benchmark = b])]
  /\ UNCHANGED <<registryVars, cases, run, observations>>

SelectionStays(x, mode, requested, judge) ==
  [x EXCEPT !.mode = mode, !.judge = judge,
            !.selected = IF mode = "EXPLICIT" THEN requested ELSE @]

(* The whole selection is replaced; ALL_AVAILABLE keeps none.              *)
Selecting(x, mode, requested, judge) ==
  [x EXCEPT !.mode = mode, !.judge = judge,
            !.selected = IF mode = "EXPLICIT" THEN requested ELSE {}]

(* Applicability is asked of the test as it was before the change.         *)
SetTestMetrics(x, mode, requested, judge) ==
  /\ test[x].exists
  /\ requested \subseteq Applicable(test[x])
  /\ mode = "EXPLICIT" => requested # {}
  /\ test' = [test EXCEPT
       ![x] = Refreshed(Selecting(@, mode, requested, judge))]
  /\ UNCHANGED <<registryVars, cases, run, observations>>

SelectAllApplicable(x) ==
  /\ test[x].exists
  /\ test' = [test EXCEPT
       ![x] = Refreshed(Selecting(@, "ALL_AVAILABLE", {}, @.judge))]
  /\ UNCHANGED <<registryVars, cases, run, observations>>

(* import_test_yaml fills what is unset, ignores metrics that do not apply *)
(* to the test so filled, and leaves an empty explicit selection as an     *)
(* incomplete test.                                                        *)
Filled(x, t, b) ==
  [x EXCEPT !.target = IF @ = None /\ t # None /\ life[t] = "registered"
                       THEN t ELSE @,
            !.benchmark = IF @ = None /\ b # None /\ cases[b] # None
                          THEN b ELSE @]
ImportTest(x, t, b, mode, requested, judge) ==
  LET filled == Filled(test[x], t, b) IN
  /\ test[x].exists
  /\ test' = [test EXCEPT
       ![x] = Refreshed(Selecting(filled, mode,
                          requested \cap Applicable(filled), judge))]
  /\ UNCHANGED <<registryVars, cases, run, observations>>

(* The runs keep their snapshot and lose the reference.                    *)
DeleteTest(x) ==
  /\ test[x].exists
  /\ test' = [test EXCEPT ![x] = NoTest]
  /\ run' = [r \in Runs |-> IF run[r].test = x
                            THEN [run[r] EXCEPT !.test = None] ELSE run[r]]
  /\ UNCHANGED <<registryVars, cases, observations>>

-----------------------------------------------------------------------------
(* The targets and benchmarks underneath. Nothing refreshes the tests.     *)

ChangeTarget(t) ==
  /\ \/ Register(t)
     \/ \E b \in BOOLEAN : Enable(t, b)
     \/ /\ Len(history[t]) < MaxConfigs
        /\ \E config \in Configs : Configure(t, config)
     \/ \E n \in 1 .. Len(history[t]) : Discover(t, n)
  /\ UNCHANGED testVars

(* ON DELETE SET NULL in tests and runs; the runs' observations are no     *)
(* longer those of the target.                                             *)
DeleteTarget(t) ==
  /\ Remove(t)
  /\ test' = [x \in Tests |-> IF test[x].target = t
                              THEN [test[x] EXCEPT !.target = None]
                              ELSE test[x]]
  /\ run' = [r \in Runs |-> IF run[r].target = t
                            THEN [run[r] EXCEPT !.target = None] ELSE run[r]]
  /\ observations' = [observations EXCEPT ![t] = {}]
  /\ UNCHANGED cases

SetCases(b, new) ==
  /\ cases' = [cases EXCEPT ![b] = new]
  /\ UNCHANGED <<registryVars, test, run, observations>>

DeleteBenchmark(b) ==
  /\ cases[b] # None
  /\ cases' = [cases EXCEPT ![b] = None]
  /\ test' = [x \in Tests |-> IF test[x].benchmark = b
                              THEN [test[x] EXCEPT !.benchmark = None]
                              ELSE test[x]]
  /\ UNCHANGED <<registryVars, run, observations>>

-----------------------------------------------------------------------------
(* Runs.                                                                   *)

Snapshot(x) ==
  [target |-> test[x].target, version |-> Len(history[test[x].target]),
   metrics |-> Resolved(test[x]), test |-> x]

(* start_run validates again: the status on record is not asked.           *)
StartRun(x, r) ==
  /\ test[x].exists /\ run[r].state = "none"
  /\ Valid(test[x])
  /\ run' = [run EXCEPT ![r] = [state |-> "pending", test |-> x,
                                target |-> test[x].target,
                                snapshot |-> Snapshot(x)]]
  /\ UNCHANGED <<registryVars, cases, test, observations>>

StillEnabled(r) ==
  LET t == run[r].snapshot.target IN life[t] = "registered" /\ enabled[t]

SameConfiguration(r) ==
  LET t == run[r].snapshot.target IN
  /\ life[t] = "registered" /\ enabled[t]
  /\ Len(history[t]) = run[r].snapshot.version

Execute(r) ==
  /\ run[r].state \in {"pending", "failed"}
  /\ SameConfiguration(r)
  /\ run' = [run EXCEPT ![r].state = "executing"]
  /\ UNCHANGED <<registryVars, cases, test, observations>>

RefuseExecution(r) ==
  /\ run[r].state = "pending"
  /\ ~SameConfiguration(r)
  /\ run' = [run EXCEPT ![r].state = "failed"]
  /\ UNCHANGED <<registryVars, cases, test, observations>>

Observe(r, supplied) ==
  /\ run[r].state = "executing" /\ run[r].target # None
  /\ observations' = [observations EXCEPT ![run[r].target] = @ \cup {supplied}]
  /\ UNCHANGED <<registryVars, cases, test, run>>

Next ==
  \/ \E x \in Tests :
       \/ CreateTest(x)
       \/ DeleteTest(x)
       \/ SelectAllApplicable(x)
       \/ \E t \in Targets \cup {None}, b \in Benchmarks \cup {None} :
            \/ UpdateTest(x, t, b)
            \/ \E mode \in SelectionModes, requested \in SUBSET Metrics,
                  judge \in BOOLEAN :
                 ImportTest(x, t, b, mode, requested, judge)
       \/ \E mode \in SelectionModes, requested \in SUBSET Metrics,
             judge \in BOOLEAN : SetTestMetrics(x, mode, requested, judge)
       \/ \E r \in Runs : StartRun(x, r)
  \/ \E t \in Targets : ChangeTarget(t) \/ DeleteTarget(t)
  \/ \E b \in Benchmarks :
       (\E new \in SUBSET Cases : SetCases(b, new)) \/ DeleteBenchmark(b)
  \/ \E r \in Runs :
       \/ Execute(r)
       \/ RefuseExecution(r)
       \/ \E supplied \in Observables : Observe(r, supplied)

Spec == Init /\ [][Next]_vars

-----------------------------------------------------------------------------
(* No test and no run refers to a target or benchmark that is gone, in     *)
(* whatever order they are deleted (ON DELETE SET NULL of the models).     *)
ReferencesAreLive ==
  /\ \A x \in Tests :
       /\ test[x].target # None => life[test[x].target] = "registered"
       /\ test[x].benchmark # None => cases[test[x].benchmark] # None
  /\ \A r \in Runs :
       /\ run[r].target # None => life[run[r].target] = "registered"
       /\ run[r].test # None => test[run[r].test].exists

(* The hash of a READY test is that of the test as it stands, however it   *)
(* came to be READY; only a deletion underneath, or a change of what the   *)
(* metrics need, leaves it behind (_refresh_test_state).                   *)
ReadyHashIsCurrent ==
  \A x \in Tests : test[x].status = "READY" =>
    LET p == test[x].hash[1] IN
    /\ test[x].target \in {p.target, None}
    /\ test[x].benchmark \in {p.benchmark, None}
    /\ p.mode = test[x].mode /\ p.judge = test[x].judge
    /\ IF p.mode = "EXPLICIT" THEN p.resolved = test[x].selected
       ELSE p.resolved # {} /\ test[x].selected = {}

(* No run comes to execute on a target that was disabled, deleted or       *)
(* configured again since its snapshot was taken, however late it is       *)
(* executed or retried (the checks of execute_run and get_adapter).        *)
ExecutesItsConfiguration ==
  [][\A r \in Runs : run[r].state # "executing" /\ run'[r].state = "executing" =>
       LET t == run[r].snapshot.target IN
       /\ run[r].target = t
       /\ enabled[t]
       /\ run[r].snapshot.version = Len(history[t])]_vars

(* What the rows of tests and runs say is true, whatever was edited or     *)
(* deleted underneath.                                                     *)
TestsAreSound == TypeOK /\ ReferencesAreLive /\ ReadyHashIsCurrent

=============================================================================
