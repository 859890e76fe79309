----------------------------- MODULE MetricScoring -----------------------------
(***************************************************************************)
(* Who writes the scores of a run, and when: the worker that completes a   *)
(* case, the background task that rebuilds the aggregates when its cases   *)
(* are done, a scoring pass requested over the API and the score command,  *)
(* each in transactions of its own over the same rows. A run is settled    *)
(* before its task aggregates, so a retried case starts a second task      *)
(* while the first one still aggregates.                                   *)
(***************************************************************************)
EXTENDS ScoreStatistics

CONSTANTS
  Cases,         \* cases of the run, numbers: the order of their ids
  Observations,  \* the score of the value metric on what the target may answer
  Broken,        \* an observation the value metric raises an exception for
  Metrics,       \* the registered metrics
  Selected,      \* the metrics the run selects
  PassSelected,  \* pass -> the metrics it selects, None for all of them
  Tasks, Cli,    \* background tasks; the score command
  MaxAttempts,   \* bound on the attempts of a case
  Identity,      \* what identifies the benchmark, prompt, ... of the run
  Baselines      \* finished runs to compare with

Passes == DOMAIN PassSelected
Run    == "run"                       \* metric_run_id NULL
Scopes == {Run} \cup Passes
Jobs   == Tasks \cup Passes \cup {Cli}

ASSUME ScoringAssumption ==
  /\ IsFiniteSet(Cases) /\ Cases \subseteq Nat
  /\ MaxAttempts \in Nat \ {0}
  /\ Cli \notin Tasks \cup Passes /\ Tasks \cap Passes = {} /\ Run \notin Passes
  /\ None # "COMPLETED"

(* A finished run has finitely many cases and aggregates, all of numbers.  *)
ASSUME ReportAssumption ==
  /\ Observations \subseteq Int /\ Identifying \subseteq DOMAIN Identity
  /\ \A b \in Baselines :
       /\ DOMAIN b.identity = DOMAIN Identity
       /\ IsFiniteSet(DOMAIN b.results) /\ DOMAIN b.results \subseteq Nat
       /\ \A c \in DOMAIN b.results : \A m \in DOMAIN b.results[c] :
            is_computed(b.results[c][m]) => b.results[c][m].value[1] \in Int
       /\ IsFiniteSet(Keys(b))
       /\ \A m \in DOMAIN b.aggregates : \A n \in DOMAIN b.aggregates[m].of :
            b.aggregates[m].of[n] \in Ratios \cup {None}

VARIABLES
  status,      \* case -> CaseExecutionRecord.status
  attempts,    \* case -> the observation of each attempt, None for a failed one
  results,     \* scope -> case -> metric -> MetricResultRecord
  aggregates,  \* scope -> metric -> AggregateMetricResultRecord, None for no rows
  passes,      \* pass -> MetricRunRecord.status, None when there is no record
  job,         \* job -> the transaction it works in
  overlapped   \* a task was started before the one before it had ended

runVars == <<status, attempts>>
vars == <<runVars, results, aggregates, passes, job, overlapped>>

NoRows == [x \in {} |-> None]
(* left: cases to go; loaded: the observation read for the next of them;   *)
(* rows: what the transaction has written; beaten: another one committed   *)
(* the same aggregates since they were deleted here.                       *)
Idle == [pc |-> "idle", left |-> {}, loaded |-> <<>>, rows |-> NoRows, beaten |-> FALSE]

-----------------------------------------------------------------------------
(* What one metric says of one case.                                       *)
RUN_METADATA == {"success_rate", "error_rate", "availability", "latency_p50", "latency_p99"}

SuccessRate(o)  == Computed(Indicator(o # None))
ErrorRate       == Computed(Zero)
Availability(o) == Computed(Indicator(o # None))
LatencyP50      == Missing
LatencyP99      == Missing
Value(o) == IF o = None THEN Missing ELSE IF o = Broken THEN Failed ELSE Computed(<<o, 1>>)

_requirement_satisfied(m, metadata) == m \in RUN_METADATA => metadata
_execute_metric_safe(m, o, metadata) ==
  CASE ~_requirement_satisfied(m, metadata) -> Missing
    [] m = "success_rate" -> SuccessRate(o)
    [] m = "error_rate"   -> ErrorRate
    [] m = "availability" -> Availability(o)
    [] m = "latency_p50"  -> LatencyP50
    [] m = "latency_p99"  -> LatencyP99
    [] OTHER -> Value(o)

_select_metrics(selected) == IF selected = None THEN Metrics ELSE selected \cap Metrics

score_case(o, selected, metadata) ==
  [m \in _select_metrics(selected) |-> _execute_metric_safe(m, o, metadata)]

(* A row of a case keeps who wrote it: linked rows were written with the   *)
(* case execution they belong to, those of a scoring pass were not.        *)
Row(score, linked) ==
  [status |-> score.status, value |-> score.value, linked |-> linked]
Rows(scored, linked) == [m \in DOMAIN scored |-> Row(scored[m], linked)]

(* Mutant: a row that exists keeps its score.                              *)
KeepScore(old, new) ==
  [m \in DOMAIN old \cup DOMAIN new |->
     IF m \in DOMAIN old
     THEN IF m \in DOMAIN new THEN [old[m] EXCEPT !.linked = new[m].linked] ELSE old[m]
     ELSE new[m]]

(* persist_metric updates the row with the same id or adds one.            *)
persist_metric(old, new) ==
  [m \in DOMAIN old \cup DOMAIN new |-> IF m \in DOMAIN new THEN new[m] ELSE old[m]]

(* Mutant: the rows of every pass are listed with those of the run.        *)
ListEverything(scope) == IF scope = Run THEN Scopes ELSE {scope}

(* list_metric_results and list_aggregates: the scopes a query returns.    *)
list_rows(scope) == {scope}

Listed(scopes, c) ==
  [m \in UNION {DOMAIN results[s][c] : s \in scopes} |->
     LET s == CHOOSE s \in scopes : m \in DOMAIN results[s][c] IN results[s][c][m]]

(* An aggregate is computed from the statuses and values of a metric.      *)
Unlinked(row) == [status |-> row.status, value |-> row.value]
RowsOf(written, m) ==
  [c \in {c \in DOMAIN written : m \in DOMAIN written[c]} |-> Unlinked(written[c][m])]
InOrder(rows) ==
  LET order == Ascending(DOMAIN rows) IN [i \in DOMAIN order |-> rows[order[i]]]
_aggregate(written) ==
  [m \in UNION {DOMAIN written[c] : c \in DOMAIN written} |->
     compute_aggregations(InOrder(RowsOf(written, m)))]

(* The rows of a transaction once it has scored one more case.             *)
With(rows, c, scores) ==
  [d \in DOMAIN rows \cup {c} |-> IF d = c THEN scores ELSE rows[d]]

Latest(c) == IF attempts[c] = <<>> THEN None ELSE attempts[c][Len(attempts[c])]

(* list_case_executions orders by id: the next case is the least of those  *)
(* to go.                                                                  *)
IsNext(c, left) == c \in left /\ \A d \in left : c <= d

-----------------------------------------------------------------------------
Init ==
  /\ status = [c \in Cases |-> "PENDING"]
  /\ attempts = [c \in Cases |-> <<>>]
  /\ results = [s \in Scopes |-> [c \in Cases |-> NoRows]]
  /\ aggregates = [s \in Scopes |-> NoRows]
  /\ passes = [p \in Passes |-> None]
  /\ \E t \in Tasks :
       job = [j \in Jobs |-> IF j = t THEN [Idle EXCEPT !.pc = "running", !.left = Cases]
                             ELSE Idle]
  /\ overlapped = FALSE

(* Rows the score command has written and not committed: nobody else can   *)
(* write them before it ends.                                              *)
Held == DOMAIN job[Cli].rows

(* The observation, the scores and the status of a case are committed      *)
(* together; an attempt that fails leaves no scores.                       *)
CompleteCase(t, c, o) ==
  /\ job[t].pc = "running" /\ c \in job[t].left \ Held
  /\ job' = [job EXCEPT ![t].left = @ \ {c}]
  /\ status' = [status EXCEPT ![c] = "COMPLETE"]
  /\ attempts' = [attempts EXCEPT ![c] = Append(@, o)]
  /\ results' = [results EXCEPT ![Run][c] =
                   persist_metric(@, Rows(score_case(o, Selected, TRUE), TRUE))]
  /\ UNCHANGED <<aggregates, passes, overlapped>>

FailCase(t, c) ==
  /\ job[t].pc = "running" /\ c \in job[t].left
  /\ job' = [job EXCEPT ![t].left = @ \ {c}]
  /\ status' = [status EXCEPT ![c] = "FAILED"]
  /\ attempts' = [attempts EXCEPT ![c] = Append(@, None)]
  /\ UNCHANGED <<results, aggregates, passes, overlapped>>

(* The run of a task that has no case left is settled: a failed case can   *)
(* be retried although the task has not aggregated yet.                    *)
Settled == \A t \in Tasks : job[t].pc = "running" => job[t].left = {}

RetryCase(t, c) ==
  /\ Settled /\ status[c] = "FAILED" /\ Len(attempts[c]) < MaxAttempts
  /\ job[t].pc = "idle"
  /\ status' = [status EXCEPT ![c] = "PENDING"]
  /\ job' = [job EXCEPT ![t] = [Idle EXCEPT !.pc = "running", !.left = {c}]]
  /\ overlapped' = \E other \in Tasks : job[other].pc # "idle"
  /\ UNCHANGED <<attempts, results, aggregates, passes>>

-----------------------------------------------------------------------------
(* aggregate_run: the committed results are listed, the aggregates there   *)
(* are deleted, the new ones are inserted and committed.                   *)
Collect(t) ==
  /\ job[t].pc = "running" /\ job[t].left = {}
  /\ job' = [job EXCEPT ![t].pc = "collected",
                        ![t].rows = [c \in Cases |-> Listed(list_rows(Run), c)]]
  /\ UNCHANGED <<runVars, results, aggregates, passes, overlapped>>

DeleteAggregates(t) ==
  /\ job[t].pc = "collected"
  /\ job' = [job EXCEPT ![t].pc = "deleted"]
  /\ UNCHANGED <<runVars, results, aggregates, passes, overlapped>>

(* Mutant: the aggregates are not deleted before the new ones are written. *)
InsertBesideOld(t) ==
  /\ job[t].pc = "deleted"
  /\ job' = [job EXCEPT ![t] = Idle]
  /\ aggregates' = [aggregates EXCEPT ![Run] =
                      IF @ = NoRows THEN _aggregate(job[t].rows) ELSE @]
  /\ UNCHANGED <<runVars, results, passes, overlapped>>

(* The aggregates another transaction committed meanwhile have the same    *)
(* ids: the insert fails, the failure is logged and the whole transaction  *)
(* is rolled back.                                                         *)
InsertAggregates(t) ==
  /\ job[t].pc = "deleted"
  /\ LET inserted == _aggregate(job[t].rows)
         rival(j) == j \in Tasks \ {t} /\ job[j].pc = "deleted"
     IN IF job[t].beaten /\ inserted # NoRows
        THEN /\ job' = [job EXCEPT ![t] = Idle]
             /\ UNCHANGED aggregates
        ELSE /\ aggregates' = [s \in Scopes |-> IF s = Run THEN inserted
                                                ELSE IF s \in list_rows(Run) THEN NoRows
                                                ELSE aggregates[s]]
             /\ job' = [j \in Jobs |-> IF j = t THEN Idle
                                       ELSE IF rival(j) /\ inserted # NoRows
                                            THEN [job[j] EXCEPT !.beaten = TRUE]
                                            ELSE job[j]]
  /\ UNCHANGED <<runVars, results, passes, overlapped>>

-----------------------------------------------------------------------------
(* The score command: one transaction over all cases. It selects every     *)
(* metric, knows no run metadata and deletes no aggregates.                *)
StartCommand ==
  /\ job[Cli].pc = "idle"
  /\ job' = [job EXCEPT ![Cli].pc = "scoring", ![Cli].left = Cases]
  /\ UNCHANGED <<runVars, results, aggregates, passes, overlapped>>

LoadObservation ==
  /\ job[Cli].pc = "scoring" /\ job[Cli].loaded = <<>>
  /\ \E c \in Cases : /\ IsNext(c, job[Cli].left)
                       /\ job' = [job EXCEPT ![Cli].loaded = <<Latest(c)>>]
  /\ UNCHANGED <<runVars, results, aggregates, passes, overlapped>>

PersistScores ==
  /\ job[Cli].loaded # <<>>
  /\ \E c \in Cases :
       /\ IsNext(c, job[Cli].left)
       /\ job' = [job EXCEPT ![Cli].left = @ \ {c}, ![Cli].loaded = <<>>,
                   ![Cli].rows = With(@, c, score_case(job[Cli].loaded[1], None, FALSE))]
  /\ UNCHANGED <<runVars, results, aggregates, passes, overlapped>>

(* Aggregates that exist already refuse the new ones, and take the scores  *)
(* of the command with them.                                               *)
EndCommand ==
  /\ job[Cli].pc = "scoring" /\ job[Cli].left = {}
  /\ IF aggregates[Run] # NoRows
     THEN /\ job' = [job EXCEPT ![Cli] = [Idle EXCEPT !.pc = "rolled back"]]
          /\ UNCHANGED <<results, aggregates>>
     ELSE /\ results' = [results EXCEPT ![Run] =
                [c \in Cases |-> persist_metric(@[c], Rows(job[Cli].rows[c], FALSE))]]
          /\ aggregates' = [aggregates EXCEPT ![Run] = _aggregate(job[Cli].rows)]
          /\ job' = [j \in Jobs |-> IF j = Cli THEN [Idle EXCEPT !.pc = "committed"]
                                    ELSE IF job[j].pc = "deleted"
                                         THEN [job[j] EXCEPT !.beaten = TRUE] ELSE job[j]]
  /\ UNCHANGED <<runVars, passes, overlapped>>

-----------------------------------------------------------------------------
(* A scoring pass: created, executed and committed by one request.         *)

create_metric_run(p) ==
  /\ passes[p] = None /\ job[p].pc = "idle"
  /\ \/ /\ passes' = [passes EXCEPT ![p] = "PENDING"]     \* execute = false
        /\ UNCHANGED job
     \/ /\ job' = [job EXCEPT ![p].pc = "scoring", ![p].left = Cases]
        /\ UNCHANGED passes
  /\ UNCHANGED <<runVars, results, aggregates, overlapped>>

ScoreCase(p) ==
  /\ job[p].pc = "scoring"
  /\ \E c \in Cases :
       /\ IsNext(c, job[p].left)
       /\ job' = [job EXCEPT ![p].left = @ \ {c},
                   ![p].rows = With(@, c, score_case(Latest(c), PassSelected[p], TRUE))]
  /\ UNCHANGED <<runVars, results, aggregates, passes, overlapped>>

FinishPass(p) ==
  /\ job[p].pc = "scoring" /\ job[p].left = {}
  /\ passes' = [passes EXCEPT ![p] = "COMPLETED"]
  /\ results' = [results EXCEPT ![p] = [c \in Cases |-> Rows(job[p].rows[c], FALSE)]]
  /\ aggregates' = [aggregates EXCEPT ![p] = _aggregate(job[p].rows)]
  /\ job' = [job EXCEPT ![p] = Idle]
  /\ UNCHANGED <<runVars, overlapped>>

(* The FAILED status is rolled back with the request.                      *)
FailPass(p) ==
  /\ job[p].pc = "scoring"
  /\ job' = [job EXCEPT ![p] = Idle]
  /\ UNCHANGED <<runVars, results, aggregates, passes, overlapped>>

-----------------------------------------------------------------------------
Next ==
  \/ \E t \in Tasks, c \in Cases :
       \/ \E o \in Observations \cup {Broken} : CompleteCase(t, c, o)
       \/ FailCase(t, c) \/ RetryCase(t, c)
  \/ \E t \in Tasks : Collect(t) \/ DeleteAggregates(t) \/ InsertAggregates(t)
  \/ StartCommand \/ LoadObservation \/ PersistScores \/ EndCommand
  \/ \E p \in Passes : create_metric_run(p) \/ ScoreCase(p) \/ FinishPass(p) \/ FailPass(p)

Spec == Init /\ [][Next]_vars

-----------------------------------------------------------------------------
Scores(rows)  == [m \in DOMAIN rows |-> Unlinked(rows[m])]
Quiet == \A j \in Jobs : job[j].pc \in {"idle", "committed", "rolled back"}
Unshared == ~overlapped /\ job[Cli].pc # "committed"

(* A committed COMPLETE case has a result for every metric the run selects *)
(* (BenchmarkExecutor._complete_case_execution), whoever else scored it.   *)
CompleteIsScored ==
  \A c \in Cases : status[c] = "COMPLETE" =>
    _select_metrics(Selected) \subseteq DOMAIN results[Run][c]

(* A result that is linked to its case execution is the score of the       *)
(* observation the case was completed with: neither an earlier attempt nor *)
(* what the score command read before it shows through.                    *)
LinkedScoresAreFinal ==
  \A c \in Cases : \A m \in DOMAIN results[Run][c] :
    results[Run][c][m].linked =>
      /\ status[c] = "COMPLETE"
      /\ Unlinked(results[Run][c][m]) = _execute_metric_safe(m, Latest(c), TRUE)

(* A scoring pass is all or nothing, and its aggregates are those of its   *)
(* own results: each case is scored on one observation, whatever the run   *)
(* does while the pass works.                                              *)
PassIsConsistent ==
  \A p \in Passes :
    IF passes[p] = "COMPLETED"
    THEN /\ aggregates[p] = _aggregate(results[p])
         /\ \A c \in Cases : \E o \in ToSet(attempts[c]) \cup {None} :
              Scores(results[p][c]) = score_case(o, PassSelected[p], TRUE)
    ELSE aggregates[p] = NoRows /\ \A c \in Cases : results[p][c] = NoRows

(* When the tasks of a run have ended, its aggregates are those of its     *)
(* results, also after retries, unless two tasks overlapped or the score   *)
(* command got its scores in.                                              *)
SettledRunIsAggregated ==
  Unshared /\ (\A t \in Tasks : job[t].pc = "idle") =>
    aggregates[Run] = _aggregate(results[Run])

(* The aggregates of a metric are ordered, and they count every case once. *)
QuantilesAreOrdered ==
  Quiet => \A s \in Scopes : \A m \in DOMAIN aggregates[s] :
    LET row == aggregates[s][m]
        up  == <<"min", "p50", "p75", "p90", "p95", "p99", "max">>
    IN /\ row.available_count + row.failed_count <= row.sample_count
       /\ Same(row.of.count, <<row.available_count, 1>>)
       /\ row.status = "COMPUTED" =>
            /\ \A i \in 1..Len(up) - 1 : AtMost(row.of[up[i]], row.of[up[i + 1]])
            /\ AtMost(row.of.min, row.of.mean) /\ AtMost(row.of.mean, row.of.max)
            /\ Same(row.of.std, Zero) <=> Same(row.of.min, row.of.max)

ThisRun == [identity |-> Identity, aggregates |-> aggregates[Run], results |-> results[Run]]
Opposite == [improved |-> "regressed", regressed |-> "improved",
             unchanged |-> "unchanged", inconclusive |-> "inconclusive"]

(* Exchanging the two runs of a comparison turns every improvement into a  *)
(* regression and leaves the rest, and a run is no better than itself.     *)
ComparisonsMirror ==
  Quiet => \A b \in Baselines :
    LET to   == Assessments(b, ThisRun)
        from == Assessments(ThisRun, b)
        self == Assessments(ThisRun, ThisRun)
    IN /\ DOMAIN to = DOMAIN from
       /\ \A k \in DOMAIN to : from[k] = Opposite[to[k]]
       /\ \A k \in DOMAIN self : self[k] = "unchanged"
       /\ ~Compatible(b, ThisRun) => Warnings(ThisRun, b) # {}

Opposed(a, b) == a = b \/ (a # None /\ b # None /\ Same(Plus(a, b), Zero))

(* The statistics of a comparison do not depend on which run comes first   *)
(* but for their sign; a p-value is a positive share, the interval holds   *)
(* the mean difference, and the effect points the same way.                *)
StatisticsAreSound ==
  Quiet => \A b \in Baselines :
    LET to   == Statistics(b, ThisRun)
        from == Statistics(ThisRun, b)
    IN \A m \in DOMAIN to :
         LET s == to[m]
             d == Differences(b, ThisRun, m)
             pairs == _paired_values(b, ThisRun, m)
         IN /\ s.p_value = from[m].p_value
            /\ Opposed(s.rank_biserial, from[m].rank_biserial)
            /\ Opposed(s.effect_size, from[m].effect_size)
            /\ d # <<>> =>
                 /\ s.p_value[1] > 0 /\ AtMost(s.p_value, One)
                 /\ AtMost(s.interval[1], mean(d)) /\ AtMost(mean(d), s.interval[2])
                 /\ s.effect_size[1] > 0 => Total(d) > 0
                 /\ cliffs_delta(pairs.left, pairs.right)[1]
                       = -cliffs_delta(pairs.right, pairs.left)[1]

(* The corrected p-values keep the order of the p-values, ties included,   *)
(* only raise them, and Holm is the stricter of the two.                   *)
CorrectionsKeepOrder ==
  Quiet => \A b \in Baselines :
    LET a == compare_runs(b, ThisRun).adjusted
    IN \A i \in DOMAIN a.p :
         /\ AtMost(a.p[i], a.bh[i]) /\ AtMost(a.bh[i], a.holm[i]) /\ AtMost(a.holm[i], One)
         /\ \A j \in DOMAIN a.p : AtMost(a.p[i], a.p[j]) =>
              AtMost(a.bh[i], a.bh[j]) /\ AtMost(a.holm[i], a.holm[j])

TypeOK ==
  /\ status \in [Cases -> {"PENDING", "COMPLETE", "FAILED"}]
  /\ \A c \in Cases : Len(attempts[c]) <= MaxAttempts
  /\ \A s \in Scopes, c \in Cases : DOMAIN results[s][c] \subseteq Metrics
  /\ \A s \in Scopes : DOMAIN aggregates[s] \subseteq Metrics
  /\ \A p \in Passes : passes[p] \in {None, "PENDING", "COMPLETED"}
  /\ \A t \in Tasks : job[t].pc \in {"idle", "running", "collected", "deleted"}
  /\ \A j \in Passes \cup {Cli} :
       job[j].pc \in {"idle", "scoring", "committed", "rolled back"}

(* The scores of a run: complete, and those of the final observations.     *)
ScoresAreCurrent == TypeOK /\ CompleteIsScored /\ LinkedScoresAreFinal

(* What a report reads off the scores once nothing works on them.          *)
ReportsAreSound ==
  QuantilesAreOrdered /\ ComparisonsMirror /\ StatisticsAreSound /\ CorrectionsKeepOrder

=============================================================================
