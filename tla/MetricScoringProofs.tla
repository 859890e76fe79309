-------------------------- MODULE MetricScoringProofs --------------------------
(***************************************************************************)
(* Theorems about MetricScoring for any number of cases, metrics, tasks    *)
(* and scoring passes: in whatever order workers, overlapping aggregation  *)
(* tasks, passes and the score command commit, the scores, the passes and  *)
(* the aggregates of the run stay consistent, whatever an aggregate is     *)
(* computed from its rows. What a report reads off them is sound, for any  *)
(* scores and any finished run to compare with: the second part, which     *)
(* rests on lemmas about ScoreStatistics.                                  *)
(***************************************************************************)
EXTENDS MetricScoring, FiniteSetTheorems, TLAPS

-----------------------------------------------------------------------------
(* Scores, the rows of a case, and the tables of a transaction *)

(* What an attempt may have observed. *)
Obs == Observations \cup {Broken, None}
Values == {None, Zero, One} \cup {<<o, 1>> : o \in Observations}
Score == [status : Statuses, value : Values]
RowType == [status : Statuses, value : Values, linked : BOOLEAN]
ScoreRows == UNION {[D -> Score] : D \in SUBSET Metrics}
MetricRows == UNION {[D -> RowType] : D \in SUBSET Metrics}

(* A metric returns a result whatever was observed, and a case has one result *)
(* per selected metric that is registered.                                    *)
LEMMA MetricScores ==
  ASSUME NEW m, NEW o \in Obs, NEW metadata \in BOOLEAN
  PROVE  _execute_metric_safe(m, o, metadata) \in Score
<1>1. \A v \in Values : Computed(v) \in Score
  BY DEF Computed, Score, Statuses
<1>2. Missing \in Score /\ Failed \in Score
  BY DEF Missing, Failed, Score, Statuses, Values
<1>3. SuccessRate(o) \in Score /\ ErrorRate \in Score /\ Availability(o) \in Score
  BY <1>1 DEF SuccessRate, ErrorRate, Availability, Indicator, Values
<1>4. Value(o) \in Score
  <2>1. CASE o \in Observations /\ o # None /\ o # Broken
    BY <1>1, <2>1 DEF Value, Values
  <2> QED
    BY <1>2, <2>1 DEF Value, Obs
<1> QED
  BY <1>2, <1>3, <1>4 DEF _execute_metric_safe, LatencyP50, LatencyP99

LEMMA CaseScores ==
  ASSUME NEW o \in Obs, NEW selected, NEW metadata \in BOOLEAN
  PROVE  /\ score_case(o, selected, metadata) \in ScoreRows
         /\ DOMAIN score_case(o, selected, metadata) = _select_metrics(selected)
         /\ \A m \in _select_metrics(selected) :
              score_case(o, selected, metadata)[m] = _execute_metric_safe(m, o, metadata)
<1>1. _select_metrics(selected) \in SUBSET Metrics
  BY DEF _select_metrics
<1>2. score_case(o, selected, metadata) \in [_select_metrics(selected) -> Score]
  BY MetricScores DEF score_case
<1> QED
  BY <1>1, <1>2 DEF ScoreRows, score_case

(* Linking the results of a case to its execution changes no score. *)
LEMMA LinkedRows ==
  ASSUME NEW scored \in ScoreRows, NEW linked \in BOOLEAN
  PROVE  /\ Rows(scored, linked) \in MetricRows
         /\ DOMAIN Rows(scored, linked) = DOMAIN scored
         /\ \A m \in DOMAIN scored :
              /\ Rows(scored, linked)[m].linked = linked
              /\ Unlinked(Rows(scored, linked)[m]) = scored[m]
<1>1. \A score \in Score : /\ Row(score, linked) \in RowType
                           /\ Row(score, linked).linked = linked
                           /\ Unlinked(Row(score, linked)) = score
  BY DEF Score, RowType, Row, Unlinked
<1>2. PICK D \in SUBSET Metrics : scored \in [D -> Score]
  BY DEF ScoreRows
<1>3. \A m \in DOMAIN scored : Rows(scored, linked)[m] = Row(scored[m], linked)
  BY DEF Rows
<1>4. DOMAIN Rows(scored, linked) = D /\ DOMAIN scored = D
  BY <1>2 DEF Rows
<1>5. Rows(scored, linked) \in [D -> RowType]
  BY <1>1, <1>2, <1>3, <1>4 DEF Rows
<1> QED
  BY <1>1, <1>2, <1>3, <1>4, <1>5 DEF MetricRows

(* Persisted rows replace those of the same metrics and leave the others. *)
LEMMA PersistedRows ==
  ASSUME NEW old \in MetricRows, NEW new \in MetricRows
  PROVE  /\ persist_metric(old, new) \in MetricRows
         /\ DOMAIN persist_metric(old, new) = DOMAIN old \cup DOMAIN new
         /\ \A m \in DOMAIN new : persist_metric(old, new)[m] = new[m]
         /\ \A m \in DOMAIN old \ DOMAIN new : persist_metric(old, new)[m] = old[m]
<1>1. PICK A \in SUBSET Metrics, B \in SUBSET Metrics : old \in [A -> RowType] /\ new \in [B -> RowType]
  BY DEF MetricRows
<1>2. persist_metric(old, new) \in [A \cup B -> RowType]
  BY <1>1 DEF persist_metric
<1> QED
  BY <1>1, <1>2 DEF persist_metric, MetricRows

(* The rows a transaction has collected or written, and its state. *)
Tables == UNION {[D -> ScoreRows \cup MetricRows] : D \in SUBSET Cases}
Job == [pc : {"idle", "running", "collected", "deleted", "scoring", "committed", "rolled back"},
        left : SUBSET Cases, loaded : Seq(Obs), rows : Tables, beaten : BOOLEAN]

(* The types of all variables, those of attempts and rows included. *)
Types ==
  /\ status \in [Cases -> {"PENDING", "COMPLETE", "FAILED"}]
  /\ attempts \in [Cases -> Seq(Obs)]
  /\ results \in [Scopes -> [Cases -> MetricRows]]
  /\ DOMAIN aggregates = Scopes
  /\ \A s \in Scopes : DOMAIN aggregates[s] \subseteq Metrics
  /\ passes \in [Passes -> {None, "PENDING", "COMPLETED"}]
  /\ job \in [Jobs -> Job]
  /\ \A t \in Tasks : job[t].pc \in {"idle", "running", "collected", "deleted"}
  /\ \A j \in Passes \cup {Cli} :
       job[j].pc \in {"idle", "scoring", "committed", "rolled back"}

-----------------------------------------------------------------------------
(* How the actions move the jobs *)

(* Only job j moves, to these values. *)
Becomes(j, pc, left, loaded, rows, beaten) ==
  /\ job' \in [Jobs -> Job]
  /\ job'[j].pc = pc /\ job'[j].left = left /\ job'[j].loaded = loaded
  /\ job'[j].rows = rows /\ job'[j].beaten = beaten
  /\ \A k \in Jobs \ {j} : job'[k] = job[k]

LEMMA JobBecomes ==
  ASSUME job \in [Jobs -> Job], NEW j \in Jobs, NEW new \in Job,
         job' = [job EXCEPT ![j] = new]
  PROVE  Becomes(j, new.pc, new.left, new.loaded, new.rows, new.beaten)
BY DEF Becomes

LEMMA IdleJob == Idle \in Job /\ NoRows \in Tables /\ NoRows \in MetricRows
<1>1. NoRows \in [{} -> ScoreRows \cup MetricRows] /\ NoRows \in [{} -> RowType]
  BY DEF NoRows
<1>2. NoRows \in Tables /\ NoRows \in MetricRows
  BY <1>1 DEF Tables, MetricRows
<1> QED
  BY <1>2 DEF Idle, Job

LEMMA LatestTyped ==
  ASSUME attempts \in [Cases -> Seq(Obs)], NEW c \in Cases PROVE Latest(c) \in Obs
BY DEF Latest, Obs

LEMMA WithRows ==
  ASSUME NEW rows \in Tables, NEW c \in Cases, NEW scores \in ScoreRows
  PROVE  /\ With(rows, c, scores) \in Tables
         /\ DOMAIN With(rows, c, scores) = DOMAIN rows \cup {c}
         /\ With(rows, c, scores)[c] = scores
         /\ \A d \in DOMAIN rows \ {c} : With(rows, c, scores)[d] = rows[d]
<1>1. PICK D \in SUBSET Cases : rows \in [D -> ScoreRows \cup MetricRows]
  BY DEF Tables
<1>2. With(rows, c, scores) \in [D \cup {c} -> ScoreRows \cup MetricRows]
  BY <1>1 DEF With
<1> QED
  BY <1>1, <1>2 DEF With, Tables

LEMMA OneCaseLess ==
  ASSUME job \in [Jobs -> Job], NEW t \in Tasks, NEW c,
         job' = [job EXCEPT ![t].left = @ \ {c}]
  PROVE  Becomes(t, job[t].pc, job[t].left \ {c}, job[t].loaded, job[t].rows, job[t].beaten)
<1> DEFINE new == [job[t] EXCEPT !.left = @ \ {c}]
<1>1. new \in Job /\ t \in Jobs
  BY DEF Job, Jobs
<1>2. job' = [job EXCEPT ![t] = new]
  BY <1>1
<1>3. /\ new.pc = job[t].pc /\ new.left = job[t].left \ {c} /\ new.loaded = job[t].loaded
      /\ new.rows = job[t].rows /\ new.beaten = job[t].beaten
  BY <1>1 DEF Job
<1> HIDE DEF new
<1> QED
  BY <1>1, <1>2, <1>3, JobBecomes

LEMMA RetryMoves ==
  ASSUME Types, NEW t \in Tasks, NEW c \in Cases, RetryCase(t, c)
  PROVE  Becomes(t, "running", {c}, <<>>, NoRows, FALSE)
<1> DEFINE new == [Idle EXCEPT !.pc = "running", !.left = {c}]
<1>1. new \in Job /\ t \in Jobs
  BY IdleJob DEF Job, Jobs
<1>2. job' = [job EXCEPT ![t] = new]
  BY DEF RetryCase
<1>3. /\ new.pc = "running" /\ new.left = {c} /\ new.loaded = <<>>
      /\ new.rows = NoRows /\ new.beaten = FALSE
  BY DEF Idle
<1> HIDE DEF new
<1>4. Becomes(t, new.pc, new.left, new.loaded, new.rows, new.beaten)
  BY <1>1, <1>2, JobBecomes DEF Types
<1> QED
  BY <1>3, <1>4

(* What an aggregation lists are the rows of the run. *)
LEMMA CollectMoves ==
  ASSUME Types, NEW t \in Tasks, Collect(t)
  PROVE  Becomes(t, "collected", job[t].left, job[t].loaded, results[Run], job[t].beaten)
<1> DEFINE listed == [c \in Cases |-> Listed(list_rows(Run), c)]
           new == [job[t] EXCEPT !.pc = "collected", !.rows = listed]
<1>1. results[Run] \in [Cases -> MetricRows]
  BY DEF Types, Scopes
<1>2. ASSUME NEW c \in Cases PROVE Listed(list_rows(Run), c) = results[Run][c]
  <2> DEFINE old == results[Run][c]
  <2>0. old \in MetricRows
    BY <1>1
  <2>1. PICK D \in SUBSET Metrics : old \in [D -> RowType]
    BY <2>0 DEF MetricRows
  <2>2. UNION {DOMAIN results[s][c] : s \in list_rows(Run)} = D
    BY <2>1 DEF list_rows
  <2>3. \A m \in D : (CHOOSE s \in list_rows(Run) : m \in DOMAIN results[s][c]) = Run
    BY <2>1 DEF list_rows
  <2> QED
    BY <2>1, <2>2, <2>3 DEF Listed
<1>3. listed = results[Run]
  BY <1>1, <1>2
<1>4. listed \in Tables
  BY <1>1, <1>3 DEF Tables
<1> HIDE DEF listed
<1>5. new \in Job /\ t \in Jobs /\ job[t] \in Job
  <2>1. t \in Jobs /\ job[t] \in Job
    BY DEF Jobs, Types
  <2> QED
    BY <1>4, <2>1 DEF Job
<1>6. job' = [job EXCEPT ![t] = new]
  BY <1>5 DEF Collect, listed
<1>7. /\ new.pc = "collected" /\ new.left = job[t].left /\ new.loaded = job[t].loaded
      /\ new.rows = listed /\ new.beaten = job[t].beaten
  BY <1>5 DEF Job
<1> HIDE DEF new
<1>8. Becomes(t, new.pc, new.left, new.loaded, new.rows, new.beaten)
  BY <1>5, <1>6, JobBecomes DEF Types
<1> QED
  BY <1>3, <1>7, <1>8

LEMMA DeleteMoves ==
  ASSUME Types, NEW t \in Tasks, DeleteAggregates(t)
  PROVE  Becomes(t, "deleted", job[t].left, job[t].loaded, job[t].rows, job[t].beaten)
<1> DEFINE new == [job[t] EXCEPT !.pc = "deleted"]
<1>1. new \in Job /\ t \in Jobs /\ job[t] \in Job
  <2>1. t \in Jobs /\ job[t] \in Job
    BY DEF Jobs, Types
  <2> QED
    BY <2>1 DEF Job
<1>2. job' = [job EXCEPT ![t] = new]
  BY <1>1 DEF DeleteAggregates
<1>3. /\ new.pc = "deleted" /\ new.left = job[t].left /\ new.loaded = job[t].loaded
      /\ new.rows = job[t].rows /\ new.beaten = job[t].beaten
  BY <1>1 DEF Job
<1> HIDE DEF new
<1>4. Becomes(t, new.pc, new.left, new.loaded, new.rows, new.beaten)
  BY <1>1, <1>2, JobBecomes DEF Types
<1> QED
  BY <1>3, <1>4

LEMMA CommandMoves ==
  ASSUME Types
  PROVE  /\ StartCommand => Becomes(Cli, "scoring", Cases, job[Cli].loaded, job[Cli].rows,
                                    job[Cli].beaten)
         /\ LoadObservation => \E c \in Cases :
              Becomes(Cli, "scoring", job[Cli].left, <<Latest(c)>>, job[Cli].rows,
                      job[Cli].beaten)
         /\ PersistScores => \E c \in job[Cli].left, o \in Obs :
              Becomes(Cli, job[Cli].pc, job[Cli].left \ {c}, <<>>,
                      With(job[Cli].rows, c, score_case(o, None, FALSE)), job[Cli].beaten)
<1>1. Cli \in Jobs /\ job[Cli] \in Job /\ job \in [Jobs -> Job]
  BY DEF Jobs, Types
<1>2. ASSUME StartCommand
      PROVE  Becomes(Cli, "scoring", Cases, job[Cli].loaded, job[Cli].rows, job[Cli].beaten)
  <2> DEFINE new == [job[Cli] EXCEPT !.pc = "scoring", !.left = Cases]
  <2>1. new \in Job
    BY <1>1 DEF Job
  <2>2. job' = [job EXCEPT ![Cli] = new]
    BY <1>1, <1>2 DEF StartCommand
  <2>3. /\ new.pc = "scoring" /\ new.left = Cases /\ new.loaded = job[Cli].loaded
        /\ new.rows = job[Cli].rows /\ new.beaten = job[Cli].beaten
    BY <1>1 DEF Job
  <2> HIDE DEF new
  <2>4. Becomes(Cli, new.pc, new.left, new.loaded, new.rows, new.beaten)
    BY <1>1, <2>1, <2>2, JobBecomes
  <2> QED
    BY <2>3, <2>4
<1>3. ASSUME LoadObservation
      PROVE  \E c \in Cases : Becomes(Cli, "scoring", job[Cli].left, <<Latest(c)>>,
                                      job[Cli].rows, job[Cli].beaten)
  <2>1. PICK c \in Cases : job' = [job EXCEPT ![Cli].loaded = <<Latest(c)>>]
    BY <1>3 DEF LoadObservation
  <2>2. <<Latest(c)>> \in Seq(Obs)
    <3> DEFINE o == Latest(c)
    <3>1. o \in Obs
      BY LatestTyped DEF Types
    <3> HIDE DEF o
    <3>2. <<o>> \in Seq(Obs)
      BY <3>1
    <3> QED
      BY <3>2 DEF o
  <2> DEFINE loaded == <<Latest(c)>>
             new == [job[Cli] EXCEPT !.loaded = loaded]
  <2> HIDE DEF loaded
  <2>3. new \in Job
    BY <1>1, <2>2 DEF Job, loaded
  <2>4. job' = [job EXCEPT ![Cli] = new]
    BY <1>1, <2>1 DEF loaded
  <2>5. /\ new.pc = "scoring" /\ new.left = job[Cli].left /\ new.loaded = loaded
        /\ new.rows = job[Cli].rows /\ new.beaten = job[Cli].beaten
    BY <1>1, <1>3 DEF Job, LoadObservation
  <2> HIDE DEF new
  <2>6. Becomes(Cli, new.pc, new.left, new.loaded, new.rows, new.beaten)
    BY <1>1, <2>3, <2>4, JobBecomes
  <2> QED
    BY <2>5, <2>6 DEF loaded
<1>4. ASSUME PersistScores
      PROVE  \E c \in job[Cli].left, o \in Obs :
               Becomes(Cli, job[Cli].pc, job[Cli].left \ {c}, <<>>,
                       With(job[Cli].rows, c, score_case(o, None, FALSE)), job[Cli].beaten)
  <2> DEFINE o == job[Cli].loaded[1]
  <2>1. job[Cli].loaded \in Seq(Obs) /\ job[Cli].loaded # <<>>
    BY <1>1, <1>4 DEF Job, PersistScores
  <2>2. o \in Obs
    BY <2>1
  <2>3. PICK c \in Cases :
          /\ c \in job[Cli].left
          /\ job' = [job EXCEPT ![Cli].left = @ \ {c}, ![Cli].loaded = <<>>,
                       ![Cli].rows = With(@, c, score_case(o, None, FALSE))]
    BY <1>4 DEF PersistScores, IsNext
  <2> HIDE DEF o
  <2> DEFINE rows == With(job[Cli].rows, c, score_case(o, None, FALSE))
             new == [job[Cli] EXCEPT !.left = @ \ {c}, !.loaded = <<>>, !.rows = rows]
  <2>4. job[Cli].rows \in Tables
    BY <1>1 DEF Job
  <2>5. rows \in Tables
    BY <2>2, <2>4, CaseScores, WithRows
  <2>6. job' = [job EXCEPT ![Cli] = new]
    BY <1>1, <2>3
  <2> HIDE DEF rows
  <2>7. new \in Job
    <3> DEFINE none == <<>>
    <3>1. none \in Seq(Obs)
      OBVIOUS
    <3>2. job[Cli].left \ {c} \in SUBSET Cases
      BY <1>1 DEF Job
    <3> QED
      BY <1>1, <2>5, <3>1, <3>2 DEF Job
  <2>8. /\ new.pc = job[Cli].pc /\ new.left = job[Cli].left \ {c} /\ new.loaded = <<>>
        /\ new.rows = rows /\ new.beaten = job[Cli].beaten
    BY <1>1 DEF Job
  <2> HIDE DEF new
  <2>9. Becomes(Cli, new.pc, new.left, new.loaded, new.rows, new.beaten)
    BY <1>1, <2>6, <2>7, JobBecomes
  <2> QED
    BY <2>2, <2>3, <2>8, <2>9 DEF rows
<1> QED
  BY <1>2, <1>3, <1>4

LEMMA PassMoves ==
  ASSUME Types, NEW p \in Passes
  PROVE  /\ create_metric_run(p) /\ job' # job =>
              Becomes(p, "scoring", Cases, job[p].loaded, job[p].rows, job[p].beaten)
         /\ ScoreCase(p) => \E c \in job[p].left :
              Becomes(p, "scoring", job[p].left \ {c}, job[p].loaded,
                      With(job[p].rows, c, score_case(Latest(c), PassSelected[p], TRUE)),
                      job[p].beaten)
         /\ FinishPass(p) \/ FailPass(p) =>
              Becomes(p, "idle", {}, <<>>, NoRows, FALSE)
<1>1. p \in Jobs /\ job[p] \in Job /\ job \in [Jobs -> Job]
  BY DEF Jobs, Types
<1>2. ASSUME create_metric_run(p), job' # job
      PROVE  Becomes(p, "scoring", Cases, job[p].loaded, job[p].rows, job[p].beaten)
  <2> DEFINE new == [job[p] EXCEPT !.pc = "scoring", !.left = Cases]
  <2>1. new \in Job
    BY <1>1 DEF Job
  <2>2. job' = [job EXCEPT ![p] = new]
    BY <1>1, <1>2 DEF create_metric_run
  <2>3. /\ new.pc = "scoring" /\ new.left = Cases /\ new.loaded = job[p].loaded
        /\ new.rows = job[p].rows /\ new.beaten = job[p].beaten
    BY <1>1 DEF Job
  <2> HIDE DEF new
  <2>4. Becomes(p, new.pc, new.left, new.loaded, new.rows, new.beaten)
    BY <1>1, <2>1, <2>2, JobBecomes
  <2> QED
    BY <2>3, <2>4
<1>3. ASSUME ScoreCase(p)
      PROVE  \E c \in job[p].left :
               Becomes(p, "scoring", job[p].left \ {c}, job[p].loaded,
                       With(job[p].rows, c, score_case(Latest(c), PassSelected[p], TRUE)),
                       job[p].beaten)
  <2>1. PICK c \in Cases :
          /\ c \in job[p].left
          /\ job' = [job EXCEPT ![p].left = @ \ {c},
                       ![p].rows = With(@, c, score_case(Latest(c), PassSelected[p], TRUE))]
    BY <1>3 DEF ScoreCase, IsNext
  <2> DEFINE rows == With(job[p].rows, c, score_case(Latest(c), PassSelected[p], TRUE))
             new == [job[p] EXCEPT !.left = @ \ {c}, !.rows = rows]
  <2>2. Latest(c) \in Obs
    BY LatestTyped DEF Types
  <2>3. rows \in Tables
    <3>1. job[p].rows \in Tables
      BY <1>1 DEF Job
    <3> QED
      BY <2>2, <3>1, CaseScores, WithRows
  <2>4. job' = [job EXCEPT ![p] = new]
    BY <1>1, <2>1
  <2> HIDE DEF rows
  <2>5. new \in Job
    BY <1>1, <2>3 DEF Job
  <2>6. /\ new.pc = "scoring" /\ new.left = job[p].left \ {c} /\ new.loaded = job[p].loaded
        /\ new.rows = rows /\ new.beaten = job[p].beaten
    BY <1>1, <1>3 DEF Job, ScoreCase
  <2> HIDE DEF new
  <2>7. Becomes(p, new.pc, new.left, new.loaded, new.rows, new.beaten)
    BY <1>1, <2>4, <2>5, JobBecomes
  <2> QED
    BY <2>1, <2>6, <2>7 DEF rows
<1>4. ASSUME FinishPass(p) \/ FailPass(p)
      PROVE  Becomes(p, "idle", {}, <<>>, NoRows, FALSE)
  <2>1. job' = [job EXCEPT ![p] = Idle]
    BY <1>4 DEF FinishPass, FailPass
  <2>2. Becomes(p, Idle.pc, Idle.left, Idle.loaded, Idle.rows, Idle.beaten)
    BY <1>1, <2>1, IdleJob, JobBecomes
  <2> QED
    BY <2>2 DEF Idle
<1> QED
  BY <1>2, <1>3, <1>4

(* Job j is over; the others may be told that they were beaten. *)
IsOver(j, pc) ==
  /\ job' \in [Jobs -> Job]
  /\ job'[j] = [Idle EXCEPT !.pc = pc]
  /\ \A k \in Jobs \ {j} : /\ job'[k].pc = job[k].pc /\ job'[k].left = job[k].left
                           /\ job'[k].loaded = job[k].loaded /\ job'[k].rows = job[k].rows
                           /\ job'[k] = job[k] \/ (pc # "rolled back" /\ job[k].pc = "deleted")

LEMMA BeatenJob ==
  ASSUME NEW old \in Job
  PROVE  LET new == [old EXCEPT !.beaten = TRUE]
         IN /\ new \in Job /\ new.pc = old.pc /\ new.left = old.left
            /\ new.loaded = old.loaded /\ new.rows = old.rows
BY DEF Job

LEMMA OverJob ==
  ASSUME NEW pc \in {"idle", "committed", "rolled back"}
  PROVE  LET new == [Idle EXCEPT !.pc = pc]
         IN /\ new \in Job /\ new.pc = pc /\ new.left = {} /\ new.loaded = <<>>
            /\ new.rows = NoRows /\ new.beaten = FALSE
BY IdleJob DEF Job, Idle

LEMMA JobIsOver ==
  ASSUME job \in [Jobs -> Job], NEW j \in Jobs, NEW pc \in {"idle", "committed", "rolled back"},
         NEW B, \A k \in B : pc # "rolled back" /\ job[k].pc = "deleted",
         job' = [k \in Jobs |-> IF k = j THEN [Idle EXCEPT !.pc = pc]
                                ELSE IF k \in B THEN [job[k] EXCEPT !.beaten = TRUE]
                                ELSE job[k]]
  PROVE  IsOver(j, pc)
<1>1. \A k \in Jobs : job'[k] \in Job
  BY BeatenJob, OverJob
<1>2. job' \in [Jobs -> Job]
  BY <1>1
<1>3. \A k \in Jobs \ {j} : /\ job'[k].pc = job[k].pc /\ job'[k].left = job[k].left
                            /\ job'[k].loaded = job[k].loaded /\ job'[k].rows = job[k].rows
                            /\ job'[k] = job[k] \/ (pc # "rolled back" /\ job[k].pc = "deleted")
  BY BeatenJob
<1>4. job'[j] = [Idle EXCEPT !.pc = pc]
  OBVIOUS
<1> QED
  BY <1>2, <1>3, <1>4 DEF IsOver

LEMMA InsertMoves ==
  ASSUME Types, NEW t \in Tasks, InsertAggregates(t)
  PROVE  IsOver(t, "idle")
<1>1. t \in Jobs /\ job \in [Jobs -> Job]
  BY DEF Jobs, Types
<1>0. [Idle EXCEPT !.pc = "idle"] = Idle
  <2>1. \A old \in Job : old.pc = "idle" => [old EXCEPT !.pc = "idle"] = old
    BY DEF Job
  <2>2. Idle.pc = "idle"
    BY DEF Idle
  <2> QED
    BY <2>1, <2>2, IdleJob
<1> DEFINE lost == job[t].beaten /\ _aggregate(job[t].rows) # NoRows
           B == {k \in Tasks \ {t} : /\ ~lost /\ job[k].pc = "deleted"
                                      /\ _aggregate(job[t].rows) # NoRows}
<1>2. job' = [k \in Jobs |-> IF k = t THEN [Idle EXCEPT !.pc = "idle"]
                             ELSE IF k \in B THEN [job[k] EXCEPT !.beaten = TRUE]
                             ELSE job[k]]
  <2>1. CASE lost
    BY <1>0, <1>1, <2>1 DEF InsertAggregates
  <2>2. CASE ~lost
    BY <1>0, <1>1, <2>2 DEF InsertAggregates
  <2> QED
    BY <2>1, <2>2
<1>3. \A k \in B : "idle" # "rolled back" /\ job[k].pc = "deleted"
  OBVIOUS
<1> HIDE DEF B
<1> QED
  BY <1>1, <1>2, <1>3, JobIsOver

LEMMA EndMoves ==
  ASSUME Types, EndCommand
  PROVE  \/ aggregates[Run] # NoRows /\ IsOver(Cli, "rolled back")
         \/ aggregates[Run] = NoRows /\ IsOver(Cli, "committed")
<1>1. Cli \in Jobs /\ job \in [Jobs -> Job]
  BY DEF Jobs, Types
<1>2. CASE aggregates[Run] # NoRows
  <2> DEFINE B == {}
  <2>1. job' = [k \in Jobs |-> IF k = Cli THEN [Idle EXCEPT !.pc = "rolled back"]
                               ELSE IF k \in B THEN [job[k] EXCEPT !.beaten = TRUE]
                               ELSE job[k]]
    BY <1>1, <1>2 DEF EndCommand
  <2>2. \A k \in B : FALSE
    OBVIOUS
  <2> HIDE DEF B
  <2> QED
    BY <1>1, <1>2, <2>1, <2>2, JobIsOver
<1>3. CASE aggregates[Run] = NoRows
  <2> DEFINE B == {k \in Jobs : job[k].pc = "deleted"}
  <2>1. job' = [k \in Jobs |-> IF k = Cli THEN [Idle EXCEPT !.pc = "committed"]
                               ELSE IF k \in B THEN [job[k] EXCEPT !.beaten = TRUE]
                               ELSE job[k]]
    BY <1>1, <1>3 DEF EndCommand
  <2>2. \A k \in B : "committed" # "rolled back" /\ job[k].pc = "deleted"
    OBVIOUS
  <2> HIDE DEF B
  <2> QED
    BY <1>1, <1>3, <2>1, <2>2, JobIsOver
<1> QED
  BY <1>2, <1>3

-----------------------------------------------------------------------------
(* The inductive invariant, part by part *)

(* A case to go is pending and belongs to one running task, and a pending  *)
(* case may have one more attempt.                                         *)
WorkInv ==
  /\ \A t \in Tasks : \A c \in job[t].left :
       /\ job[t].pc = "running" /\ status[c] = "PENDING"
       /\ \A u \in Tasks \ {t} : c \notin job[u].left
  /\ \A c \in Cases : /\ Len(attempts[c]) <= MaxAttempts
                      /\ status[c] = "PENDING" => Len(attempts[c]) < MaxAttempts

(* The score command has a score for each case but those to go. *)
CommandInv ==
  /\ job[Cli].pc = "idle" => job[Cli].rows = NoRows
  /\ job[Cli].pc # "scoring" => job[Cli].left = {}
  /\ job[Cli].pc = "scoring" =>
       /\ DOMAIN job[Cli].rows = Cases \ job[Cli].left
       /\ \A c \in DOMAIN job[Cli].rows : job[Cli].rows[c] \in ScoreRows

(* So has a pass, and each is the score of something the case observed. *)
PassInv ==
  \A p \in Passes :
    /\ job[p].pc \in {"idle", "scoring"}
    /\ job[p].pc = "idle" => job[p].rows = NoRows
    /\ job[p].pc = "scoring" =>
         /\ DOMAIN job[p].rows = Cases \ job[p].left
         /\ \A c \in DOMAIN job[p].rows : \E o \in ToSet(attempts[c]) \cup {None} :
              job[p].rows[c] = score_case(o, PassSelected[p], TRUE)

-----------------------------------------------------------------------------
(* What the transactions write *)

LEMMA CompleteWrites ==
  ASSUME Types, NEW t \in Tasks, NEW c \in Cases, NEW o \in Observations \cup {Broken},
         CompleteCase(t, c, o)
  PROVE  /\ results' \in [Scopes -> [Cases -> MetricRows]]
         /\ results'[Run][c] = persist_metric(results[Run][c],
                                              Rows(score_case(o, Selected, TRUE), TRUE))
         /\ \A d \in Cases \ {c} : results'[Run][d] = results[Run][d]
         /\ \A p \in Passes : results'[p] = results[p]
<1> DEFINE row == persist_metric(results[Run][c], Rows(score_case(o, Selected, TRUE), TRUE))
           table == [results[Run] EXCEPT ![c] = row]
<1>1. Run \in Scopes /\ Passes \subseteq Scopes /\ Run \notin Passes
  BY ScoringAssumption DEF Scopes
<1>2. results[Run] \in [Cases -> MetricRows]
  BY <1>1 DEF Types
<1>3. row \in MetricRows
  <2>1. o \in Obs
    BY DEF Obs
  <2>2. score_case(o, Selected, TRUE) \in ScoreRows
    BY <2>1, CaseScores
  <2>3. Rows(score_case(o, Selected, TRUE), TRUE) \in MetricRows
    BY <2>2, LinkedRows
  <2>4. results[Run][c] \in MetricRows
    BY <1>2
  <2> QED
    BY <2>3, <2>4, PersistedRows
<1>4. results' = [results EXCEPT ![Run] = table]
  BY <1>1, <1>2 DEF CompleteCase
<1> HIDE DEF row
<1>5. table \in [Cases -> MetricRows] /\ table[c] = row
      /\ \A d \in Cases \ {c} : table[d] = results[Run][d]
  BY <1>2, <1>3
<1> HIDE DEF table
<1>6. results' \in [Scopes -> [Cases -> MetricRows]] /\ results'[Run] = table
      /\ \A p \in Passes : results'[p] = results[p]
  BY <1>1, <1>4, <1>5 DEF Types
<1> QED
  BY <1>5, <1>6 DEF row

LEMMA EndWrites ==
  ASSUME Types, CommandInv, EndCommand, aggregates[Run] = NoRows
  PROVE  /\ DOMAIN job[Cli].rows = Cases
         /\ \A c \in Cases : job[Cli].rows[c] \in ScoreRows
         /\ results' \in [Scopes -> [Cases -> MetricRows]]
         /\ \A c \in Cases : results'[Run][c] =
              persist_metric(results[Run][c], Rows(job[Cli].rows[c], FALSE))
         /\ \A p \in Passes : results'[p] = results[p]
<1> DEFINE table == [c \in Cases |-> persist_metric(results[Run][c], Rows(job[Cli].rows[c], FALSE))]
<1>1. Run \in Scopes /\ Passes \subseteq Scopes /\ Run \notin Passes
  BY ScoringAssumption DEF Scopes
<1>2. results[Run] \in [Cases -> MetricRows]
  BY <1>1 DEF Types
<1>3. DOMAIN job[Cli].rows = Cases /\ \A c \in Cases : job[Cli].rows[c] \in ScoreRows
  BY DEF CommandInv, EndCommand
<1>4. table \in [Cases -> MetricRows]
  <2> SUFFICES ASSUME NEW c \in Cases
               PROVE  persist_metric(results[Run][c], Rows(job[Cli].rows[c], FALSE)) \in MetricRows
    OBVIOUS
  <2>1. Rows(job[Cli].rows[c], FALSE) \in MetricRows
    BY <1>3, LinkedRows
  <2>2. results[Run][c] \in MetricRows
    BY <1>2
  <2> QED
    BY <2>1, <2>2, PersistedRows
<1>5. results' = [results EXCEPT ![Run] = table]
  BY <1>1, <1>2 DEF EndCommand
<1>6. \A c \in Cases : table[c] = persist_metric(results[Run][c], Rows(job[Cli].rows[c], FALSE))
  OBVIOUS
<1> HIDE DEF table
<1>7. results' \in [Scopes -> [Cases -> MetricRows]] /\ results'[Run] = table
      /\ \A p \in Passes : results'[p] = results[p]
  BY <1>1, <1>4, <1>5 DEF Types
<1> QED
  BY <1>3, <1>6, <1>7

LEMMA PassScores ==
  ASSUME Types, PassInv, NEW p \in Passes, job[p].pc = "scoring", NEW c \in DOMAIN job[p].rows
  PROVE  job[p].rows[c] \in ScoreRows
<1>1. c \in Cases
  BY DEF PassInv
<1>2. PICK o \in ToSet(attempts[c]) \cup {None} :
        job[p].rows[c] = score_case(o, PassSelected[p], TRUE)
  BY DEF PassInv
<1>3. o \in Obs
  <2>1. attempts[c] \in Seq(Obs) /\ None \in Obs
    BY <1>1 DEF Types, Obs
  <2> QED
    BY <1>2, <2>1 DEF ToSet
<1>4. score_case(o, PassSelected[p], TRUE) \in ScoreRows
  BY <1>3, CaseScores
<1> QED
  BY <1>2, <1>4

LEMMA FinishWrites ==
  ASSUME Types, PassInv, NEW p \in Passes, FinishPass(p)
  PROVE  /\ DOMAIN job[p].rows = Cases
         /\ \A c \in Cases : job[p].rows[c] \in ScoreRows
         /\ results' \in [Scopes -> [Cases -> MetricRows]]
         /\ results'[p] = [c \in Cases |-> Rows(job[p].rows[c], FALSE)]
         /\ \A s \in Scopes \ {p} : results'[s] = results[s]
<1> DEFINE table == [c \in Cases |-> Rows(job[p].rows[c], FALSE)]
<1>1. job[p].pc = "scoring" /\ job[p].left = {} /\ p \in Scopes
  BY DEF FinishPass, Scopes
<1>2. DOMAIN job[p].rows = Cases
  BY <1>1 DEF PassInv
<1>3. \A c \in Cases : job[p].rows[c] \in ScoreRows
  BY <1>1, <1>2, PassScores
<1>4. table \in [Cases -> MetricRows]
  BY <1>3, LinkedRows
<1>5. results' = [results EXCEPT ![p] = table]
  BY DEF FinishPass
<1> HIDE DEF table
<1>6. results' \in [Scopes -> [Cases -> MetricRows]] /\ results'[p] = table
      /\ \A s \in Scopes \ {p} : results'[s] = results[s]
  BY <1>1, <1>4, <1>5 DEF Types
<1> QED
  BY <1>2, <1>3, <1>6 DEF table

(* The aggregates of a table do not depend on who wrote its rows. *)
LEMMA AggregatedMetrics ==
  ASSUME NEW rows, DOMAIN rows \subseteq Cases,
         \A c \in DOMAIN rows : rows[c] \in ScoreRows \cup MetricRows
  PROVE  DOMAIN _aggregate(rows) \subseteq Metrics
<1>1. \A c \in DOMAIN rows : DOMAIN rows[c] \subseteq Metrics
  <2> SUFFICES ASSUME NEW c \in DOMAIN rows PROVE DOMAIN rows[c] \subseteq Metrics
    OBVIOUS
  <2> DEFINE row == rows[c]
  <2>1. row \in ScoreRows \cup MetricRows
    OBVIOUS
  <2> HIDE DEF row
  <2>2. PICK D \in SUBSET Metrics : row \in [D -> Score] \/ row \in [D -> RowType]
    BY <2>1 DEF ScoreRows, MetricRows
  <2> QED
    BY <2>2 DEF row
<1> QED
  BY <1>1 DEF _aggregate

LEMMA AggregatesAgree ==
  ASSUME NEW rows, DOMAIN rows = Cases, \A c \in Cases : rows[c] \in ScoreRows,
         NEW linked \in BOOLEAN
  PROVE  _aggregate([c \in Cases |-> Rows(rows[c], linked)]) = _aggregate(rows)
<1> DEFINE table == [c \in Cases |-> Rows(rows[c], linked)]
<1>1. ASSUME NEW c \in Cases
      PROVE  /\ DOMAIN table[c] = DOMAIN rows[c]
             /\ \A m \in DOMAIN rows[c] : Unlinked(table[c][m]) = Unlinked(rows[c][m])
  <2>1. rows[c] \in ScoreRows /\ table[c] = Rows(rows[c], linked)
    OBVIOUS
  <2>2. \A m \in DOMAIN rows[c] : Unlinked(table[c][m]) = rows[c][m]
    BY <2>1, LinkedRows
  <2>3. \A m \in DOMAIN rows[c] : Unlinked(rows[c][m]) = rows[c][m]
    <3> DEFINE row == rows[c]
    <3>1. PICK D \in SUBSET Metrics : row \in [D -> Score]
      BY <2>1 DEF ScoreRows
    <3>2. \A score \in Score : Unlinked(score) = score
      BY DEF Score, Unlinked
    <3> QED
      BY <3>1, <3>2
  <2> QED
    BY <2>1, <2>2, <2>3, LinkedRows
<1>2. DOMAIN table = Cases
  OBVIOUS
<1> HIDE DEF table
<1>3. ASSUME NEW m PROVE RowsOf(table, m) = RowsOf(rows, m)
  BY <1>1, <1>2 DEF RowsOf
<1>4. UNION {DOMAIN table[c] : c \in DOMAIN table} = UNION {DOMAIN rows[c] : c \in DOMAIN rows}
  BY <1>1, <1>2
<1>5. _aggregate(table) = _aggregate(rows)
  BY <1>3, <1>4 DEF _aggregate
<1> QED
  BY <1>5 DEF table

-----------------------------------------------------------------------------
(* Types *)

JobTypes ==
  /\ job \in [Jobs -> Job]
  /\ \A t \in Tasks : job[t].pc \in {"idle", "running", "collected", "deleted"}
  /\ \A j \in Passes \cup {Cli} :
       job[j].pc \in {"idle", "scoring", "committed", "rolled back"}

(* The disjuncts of Next by the job that moves. *)
TaskStep(t) ==
  \/ \E c \in Cases :
       \/ \E o \in Observations \cup {Broken} : CompleteCase(t, c, o)
       \/ FailCase(t, c) \/ RetryCase(t, c)
  \/ Collect(t) \/ DeleteAggregates(t) \/ InsertAggregates(t)
CommandStep == StartCommand \/ LoadObservation \/ PersistScores \/ EndCommand
PassStep(p) == create_metric_run(p) \/ ScoreCase(p) \/ FinishPass(p) \/ FailPass(p)

LEMMA WhoseJob ==
  /\ Tasks \subseteq Jobs /\ Passes \subseteq Jobs /\ Cli \in Jobs
  /\ Cli \notin Tasks /\ Cli \notin Passes /\ \A t \in Tasks : t \notin Passes
  /\ Run \in Scopes /\ Passes \subseteq Scopes /\ Run \notin Passes
BY ScoringAssumption DEF Jobs, Scopes

LEMMA TaskBecomes ==
  ASSUME JobTypes, NEW t \in Tasks, NEW pc \in {"idle", "running", "collected", "deleted"},
         NEW left, NEW loaded, NEW rows, NEW beaten,
         Becomes(t, pc, left, loaded, rows, beaten)
  PROVE  JobTypes'
BY WhoseJob DEF JobTypes, Becomes, Jobs

LEMMA ScorerBecomes ==
  ASSUME JobTypes, NEW j \in Passes \cup {Cli},
         NEW pc \in {"idle", "scoring", "committed", "rolled back"},
         NEW left, NEW loaded, NEW rows, NEW beaten,
         Becomes(j, pc, left, loaded, rows, beaten)
  PROVE  JobTypes'
BY WhoseJob DEF JobTypes, Becomes, Jobs

LEMMA OverTypes ==
  ASSUME JobTypes, NEW j \in Jobs, NEW pc, IsOver(j, pc),
         \/ j \in Tasks /\ pc = "idle"
         \/ j = Cli /\ pc \in {"committed", "rolled back"}
  PROVE  JobTypes'
<1>1. job'[j].pc = pc
  <2>1. pc \in {"idle", "committed", "rolled back"}
    OBVIOUS
  <2>2. [Idle EXCEPT !.pc = pc].pc = pc
    BY <2>1, OverJob
  <2> QED
    BY <2>2 DEF IsOver
<1>2. job' \in [Jobs -> Job] /\ \A k \in Jobs \ {j} : job'[k].pc = job[k].pc
  BY DEF IsOver
<1>3. \A t \in Tasks : job'[t].pc \in {"idle", "running", "collected", "deleted"}
  BY <1>1, <1>2, WhoseJob DEF JobTypes
<1>4. \A k \in Passes \cup {Cli} :
        job'[k].pc \in {"idle", "scoring", "committed", "rolled back"}
  BY <1>1, <1>2, WhoseJob DEF JobTypes
<1> QED
  BY <1>2, <1>3, <1>4 DEF JobTypes

LEMMA JobsTyped == ASSUME Types, Next PROVE JobTypes'
<1>1. JobTypes
  BY DEF Types, JobTypes
<1>2. ASSUME NEW t \in Tasks, TaskStep(t) PROVE JobTypes'
  <2>1. ASSUME NEW c \in Cases, NEW o, CompleteCase(t, c, o) \/ FailCase(t, c) PROVE JobTypes'
    <3>1. /\ job' = [job EXCEPT ![t].left = @ \ {c}] /\ job[t].pc = "running"
      BY <2>1 DEF CompleteCase, FailCase
    <3> QED
      BY <1>1, <3>1, OneCaseLess, TaskBecomes DEF Types
  <2>2. ASSUME NEW c \in Cases, RetryCase(t, c) PROVE JobTypes'
    BY <1>1, <2>2, RetryMoves, TaskBecomes
  <2>3. CASE Collect(t)
    BY <1>1, <2>3, CollectMoves, TaskBecomes
  <2>4. CASE DeleteAggregates(t)
    BY <1>1, <2>4, DeleteMoves, TaskBecomes
  <2>5. CASE InsertAggregates(t)
    BY <1>1, <2>5, InsertMoves, OverTypes, WhoseJob
  <2> QED
    BY <1>2, <2>1, <2>2, <2>3, <2>4, <2>5 DEF TaskStep
<1>3. ASSUME CommandStep PROVE JobTypes'
  <2>1. CASE StartCommand
    BY <1>1, <2>1, CommandMoves, ScorerBecomes
  <2>2. CASE LoadObservation
    BY <1>1, <2>2, CommandMoves, ScorerBecomes
  <2>3. CASE PersistScores
    BY <1>1, <2>3, CommandMoves, ScorerBecomes DEF JobTypes
  <2>4. CASE EndCommand
    BY <1>1, <2>4, EndMoves, OverTypes, WhoseJob
  <2> QED
    BY <1>3, <2>1, <2>2, <2>3, <2>4 DEF CommandStep
<1>4. ASSUME NEW p \in Passes, PassStep(p) PROVE JobTypes'
  <2>1. CASE create_metric_run(p) /\ job' # job
    BY <1>1, <2>1, PassMoves, ScorerBecomes
  <2>2. CASE job' = job
    BY <1>1, <2>2 DEF JobTypes
  <2>3. CASE ScoreCase(p)
    BY <1>1, <2>3, PassMoves, ScorerBecomes
  <2>4. CASE FinishPass(p) \/ FailPass(p)
    BY <1>1, <2>4, PassMoves, ScorerBecomes
  <2> QED
    BY <1>4, <2>1, <2>2, <2>3, <2>4 DEF PassStep
<1> QED
  BY <1>2, <1>3, <1>4 DEF Next, TaskStep, CommandStep, PassStep

LEMMA AttemptAppended ==
  ASSUME attempts \in [Cases -> Seq(Obs)], NEW c \in Cases, NEW o \in Obs,
         attempts' = [attempts EXCEPT ![c] = Append(@, o)]
  PROVE  /\ attempts' \in [Cases -> Seq(Obs)]
         /\ Len(attempts'[c]) = Len(attempts[c]) + 1 /\ Latest(c)' = o
         /\ \A d \in Cases \ {c} : attempts'[d] = attempts[d]
         /\ \A d \in Cases : ToSet(attempts[d]) \subseteq ToSet(attempts'[d])
<1> DEFINE old == attempts[c]
           new == Append(old, o)
<1>1. old \in Seq(Obs)
  OBVIOUS
<1>2. /\ new \in Seq(Obs) /\ Len(new) = Len(old) + 1 /\ new[Len(new)] = o
      /\ \A i \in 1..Len(old) : new[i] = old[i]
  BY <1>1
<1>3. new # <<>> /\ ToSet(old) \subseteq ToSet(new)
  <2>1. DOMAIN old = 1..Len(old) /\ DOMAIN new = 1..Len(new) /\ Len(old) \in Nat
    BY <1>1, <1>2
  <2>2. new # <<>>
    BY <1>1, <1>2
  <2> HIDE DEF new, old
  <2>3. \A i \in DOMAIN old : i \in DOMAIN new /\ new[i] = old[i]
    BY <1>2, <2>1
  <2> QED
    BY <2>2, <2>3 DEF ToSet
<1>4. attempts' = [attempts EXCEPT ![c] = new]
  OBVIOUS
<1>5. attempts'[c] = new
  BY <1>4
<1> HIDE DEF new
<1>6. \A d \in Cases : ToSet(attempts[d]) \subseteq ToSet(attempts'[d])
  BY <1>3, <1>4, <1>5
<1>7. Latest(c)' = o
  BY <1>2, <1>3, <1>5 DEF Latest
<1> QED
  BY <1>2, <1>4, <1>5, <1>6, <1>7

(* The attempts of a case only grow, and only a worker adds to them. *)
LEMMA AttemptsGrow ==
  ASSUME Types, Next
  PROVE  /\ attempts' \in [Cases -> Seq(Obs)]
         /\ \A d \in Cases : ToSet(attempts[d]) \subseteq ToSet(attempts'[d])
<1>1. ASSUME NEW t \in Tasks, NEW c \in Cases, NEW o \in Observations \cup {Broken},
             CompleteCase(t, c, o)
      PROVE  attempts' = [attempts EXCEPT ![c] = Append(@, o)] /\ o \in Obs
  BY <1>1 DEF CompleteCase, Obs
<1>2. ASSUME NEW t \in Tasks, NEW c \in Cases, FailCase(t, c)
      PROVE  attempts' = [attempts EXCEPT ![c] = Append(@, None)] /\ None \in Obs
  BY <1>2 DEF FailCase, Obs
<1>3. CASE attempts' = attempts
  BY <1>3 DEF Types
<1>4. CASE \E c \in Cases : \E o \in Obs : attempts' = [attempts EXCEPT ![c] = Append(@, o)]
  BY <1>4, AttemptAppended DEF Types
<1> QED
  BY <1>1, <1>2, <1>3, <1>4
  DEF Next, RetryCase, Collect, DeleteAggregates, InsertAggregates, StartCommand,
      LoadObservation, PersistScores, EndCommand, create_metric_run, ScoreCase, FinishPass,
      FailPass, runVars

LEMMA TypesKept == ASSUME Types, CommandInv, PassInv, [Next]_vars PROVE Types'
<1>1. CASE UNCHANGED vars
  BY <1>1 DEF Types, vars, runVars
<1>2. CASE Next
  <2> USE <1>2
  <2>1. status' \in [Cases -> {"PENDING", "COMPLETE", "FAILED"}]
    BY DEF Types, Next, CompleteCase, FailCase, RetryCase, Collect, DeleteAggregates,
           InsertAggregates, StartCommand, LoadObservation, PersistScores, EndCommand,
           create_metric_run, ScoreCase, FinishPass, FailPass, runVars
  <2>2. attempts' \in [Cases -> Seq(Obs)]
    BY AttemptsGrow
  <2>3. results' \in [Scopes -> [Cases -> MetricRows]]
    <3>1. CASE results' = results
      BY <3>1 DEF Types
    <3>2. CASE \E t \in Tasks, c \in Cases : \E o \in Observations \cup {Broken} :
                 CompleteCase(t, c, o)
      BY <3>2, CompleteWrites
    <3>3. CASE EndCommand /\ aggregates[Run] = NoRows
      BY <3>3, EndWrites
    <3>4. CASE \E p \in Passes : FinishPass(p)
      BY <3>4, FinishWrites
    <3> QED
      BY <3>1, <3>2, <3>3, <3>4
      DEF Next, FailCase, RetryCase, Collect, DeleteAggregates, InsertAggregates,
          StartCommand, LoadObservation, PersistScores, EndCommand, create_metric_run,
          ScoreCase, FailPass
  <2>4. DOMAIN aggregates' = Scopes
        /\ \A s \in Scopes : DOMAIN aggregates'[s] \subseteq Metrics
    <3>1. CASE aggregates' = aggregates
      BY <3>1 DEF Types
    <3>2. ASSUME NEW t \in Tasks, InsertAggregates(t), aggregates' # aggregates
          PROVE  /\ DOMAIN aggregates' = Scopes
                 /\ \A s \in Scopes : DOMAIN aggregates'[s] \subseteq Metrics
      <4> DEFINE new == _aggregate(job[t].rows)
      <4>1. job[t].rows \in Tables
        BY WhoseJob DEF Types, Job
      <4>2. DOMAIN new \subseteq Metrics
        BY <4>1, AggregatedMetrics DEF Tables
      <4>3. aggregates' = [s \in Scopes |-> IF s = Run THEN new
                                            ELSE IF s \in list_rows(Run) THEN NoRows
                                            ELSE aggregates[s]]
        BY <3>2 DEF InsertAggregates
      <4>4. DOMAIN NoRows \subseteq Metrics
        BY DEF NoRows
      <4> HIDE DEF new
      <4> QED
        BY <4>2, <4>3, <4>4 DEF Types
    <3>3. ASSUME NEW s \in Scopes, NEW j \in Jobs,
                 aggregates' = [aggregates EXCEPT ![s] = _aggregate(job[j].rows)]
          PROVE  /\ DOMAIN aggregates' = Scopes
                 /\ \A r \in Scopes : DOMAIN aggregates'[r] \subseteq Metrics
      <4> DEFINE new == _aggregate(job[j].rows)
      <4>1. job[j].rows \in Tables
        BY DEF Types, Job
      <4>2. DOMAIN new \subseteq Metrics
        BY <4>1, AggregatedMetrics DEF Tables
      <4> HIDE DEF new
      <4> QED
        BY <3>3, <4>2 DEF Types, new
    <3>4. CASE EndCommand /\ aggregates' # aggregates
      BY <3>3, <3>4, WhoseJob DEF EndCommand
    <3>5. ASSUME NEW p \in Passes, FinishPass(p)
          PROVE  /\ DOMAIN aggregates' = Scopes
                 /\ \A s \in Scopes : DOMAIN aggregates'[s] \subseteq Metrics
      BY <3>3, <3>5, WhoseJob DEF FinishPass
    <3> QED
      BY <3>1, <3>2, <3>4, <3>5
      DEF Next, CompleteCase, FailCase, RetryCase, Collect, DeleteAggregates,
          StartCommand, LoadObservation, PersistScores, create_metric_run, ScoreCase,
          FailPass
  <2>5. passes' \in [Passes -> {None, "PENDING", "COMPLETED"}]
    BY DEF Types, Next, CompleteCase, FailCase, RetryCase, Collect, DeleteAggregates,
           InsertAggregates, StartCommand, LoadObservation, PersistScores, EndCommand,
           create_metric_run, ScoreCase, FinishPass, FailPass
  <2> QED
    BY <2>1, <2>2, <2>3, <2>4, <2>5, JobsTyped DEF Types, JobTypes
<1> QED
  BY <1>1, <1>2

-----------------------------------------------------------------------------
(* The cases of the tasks *)

LEMMA WorkFrame ==
  ASSUME WorkInv, status' = status, attempts' = attempts,
         \A t \in Tasks : /\ job'[t].left \subseteq job[t].left
                          /\ job'[t].left # {} => job'[t].pc = job[t].pc
  PROVE  WorkInv'
<1>1. \A t \in Tasks : \A c \in job'[t].left :
        /\ job'[t].pc = "running" /\ status'[c] = "PENDING"
        /\ \A u \in Tasks \ {t} : c \notin job'[u].left
  BY DEF WorkInv
<1> QED
  BY <1>1 DEF WorkInv

LEMMA WorkKept == ASSUME Types, WorkInv, [Next]_vars PROVE WorkInv'
<1>1. CASE UNCHANGED vars
  BY <1>1, WorkFrame DEF vars, runVars
<1>2. ASSUME NEW t \in Tasks, TaskStep(t) PROVE WorkInv'
  <2>1. ASSUME NEW c \in Cases, NEW o \in Obs, NEW end \in {"COMPLETE", "FAILED"},
               c \in job[t].left, job' = [job EXCEPT ![t].left = @ \ {c}],
               status' = [status EXCEPT ![c] = end],
               attempts' = [attempts EXCEPT ![c] = Append(@, o)]
        PROVE  WorkInv'
    <3>1. Becomes(t, job[t].pc, job[t].left \ {c}, job[t].loaded, job[t].rows, job[t].beaten)
      BY <2>1, OneCaseLess DEF Types
    <3>2. job'[t].pc = job[t].pc /\ job'[t].left = job[t].left \ {c}
          /\ \A u \in Tasks \ {t} : job'[u] = job[u]
      BY <3>1, WhoseJob DEF Becomes
    <3>3. status[c] = "PENDING" /\ \A u \in Tasks \ {t} : c \notin job[u].left
      BY <2>1 DEF WorkInv
    <3>4. status'[c] = end /\ \A d \in Cases \ {c} : status'[d] = status[d]
      BY <2>1 DEF Types
    <3>5. Len(attempts'[c]) = Len(attempts[c]) + 1
          /\ \A d \in Cases \ {c} : attempts'[d] = attempts[d]
      BY <2>1, AttemptAppended DEF Types
    <3>6. Len(attempts[c]) \in Nat /\ MaxAttempts \in Nat
      <4>1. attempts[c] \in Seq(Obs)
        BY DEF Types
      <4> QED
        BY <4>1, ScoringAssumption
    <3>7. \A u \in Tasks : job[u].left \subseteq Cases
      BY WhoseJob DEF Types, Job
    <3>8. ASSUME NEW u \in Tasks, NEW d \in job'[u].left
          PROVE  /\ job'[u].pc = "running" /\ status'[d] = "PENDING"
                 /\ \A v \in Tasks \ {u} : d \notin job'[v].left
      <4>1. d # c /\ d \in job[u].left /\ d \in Cases
        BY <3>2, <3>3, <3>7
      <4> QED
        BY <3>2, <3>4, <4>1 DEF WorkInv
    <3>9. ASSUME NEW d \in Cases
          PROVE  /\ Len(attempts'[d]) <= MaxAttempts
                 /\ status'[d] = "PENDING" => Len(attempts'[d]) < MaxAttempts
      BY <3>3, <3>4, <3>5, <3>6 DEF WorkInv
    <3> QED
      BY <3>8, <3>9 DEF WorkInv
  <2>2. ASSUME NEW c \in Cases, NEW o \in Observations \cup {Broken}, CompleteCase(t, c, o)
        PROVE  WorkInv'
    <3>1. o \in Obs /\ c \in job[t].left
      BY <2>2 DEF Obs, CompleteCase
    <3> QED
      BY <2>1, <2>2, <3>1 DEF CompleteCase
  <2>3. ASSUME NEW c \in Cases, FailCase(t, c) PROVE WorkInv'
    <3>1. None \in Obs /\ c \in job[t].left
      BY <2>3 DEF Obs, FailCase
    <3> QED
      BY <2>1, <2>3, <3>1 DEF FailCase
  <2>4. ASSUME NEW c \in Cases, RetryCase(t, c) PROVE WorkInv'
    <3>1. Becomes(t, "running", {c}, <<>>, NoRows, FALSE)
      BY <2>4, RetryMoves
    <3>2. job'[t].pc = "running" /\ job'[t].left = {c}
          /\ \A u \in Tasks \ {t} : job'[u] = job[u]
      BY <3>1, WhoseJob DEF Becomes
    <3>3. \A u \in Tasks : c \notin job[u].left
      BY <2>4 DEF RetryCase, WorkInv
    <3>4. /\ status'[c] = "PENDING" /\ \A d \in Cases \ {c} : status'[d] = status[d]
          /\ attempts' = attempts /\ Len(attempts[c]) < MaxAttempts
      BY <2>4 DEF RetryCase, Types, runVars
    <3>5. \A u \in Tasks : job[u].left \subseteq Cases
      BY WhoseJob DEF Types, Job
    <3>6. ASSUME NEW u \in Tasks, NEW d \in job'[u].left
          PROVE  /\ job'[u].pc = "running" /\ status'[d] = "PENDING"
                 /\ \A v \in Tasks \ {u} : d \notin job'[v].left
      <4>1. CASE u = t
        BY <3>2, <3>3, <3>4, <4>1
      <4>2. CASE u # t
        <5>1. d # c /\ d \in job[u].left /\ d \in Cases
          BY <3>2, <3>3, <3>5, <4>2
        <5> QED
          BY <3>2, <3>4, <4>2, <5>1 DEF WorkInv
      <4> QED
        BY <4>1, <4>2
    <3>7. ASSUME NEW d \in Cases
          PROVE  /\ Len(attempts'[d]) <= MaxAttempts
                 /\ status'[d] = "PENDING" => Len(attempts'[d]) < MaxAttempts
      BY <3>4 DEF WorkInv
    <3> QED
      BY <3>6, <3>7 DEF WorkInv
  <2>5. ASSUME NEW pc, NEW loaded, NEW rows, NEW beaten,
               Becomes(t, pc, job[t].left, loaded, rows, beaten), job[t].left = {},
               UNCHANGED runVars
        PROVE  WorkInv'
    BY <2>5, WorkFrame, WhoseJob DEF Becomes, runVars
  <2>6. CASE Collect(t)
    BY <2>5, <2>6, CollectMoves DEF Collect
  <2>7. CASE DeleteAggregates(t)
    <3>1. job[t].left = {} /\ UNCHANGED runVars
      BY <2>7 DEF DeleteAggregates, WorkInv
    <3> QED
      BY <2>5, <2>7, <3>1, DeleteMoves
  <2>8. CASE InsertAggregates(t)
    <3>1. job'[t].left = {}
      BY <2>8, InsertMoves, OverJob DEF IsOver
    <3>2. \A u \in Tasks \ {t} : job'[u].left = job[u].left /\ job'[u].pc = job[u].pc
      BY <2>8, InsertMoves, WhoseJob DEF IsOver
    <3> QED
      BY <2>8, <3>1, <3>2, WorkFrame DEF InsertAggregates, runVars
  <2> QED
    BY <1>2, <2>2, <2>3, <2>4, <2>6, <2>7, <2>8 DEF TaskStep
<1>3. ASSUME NEW j \in Passes \cup {Cli}, UNCHANGED runVars,
             \A k \in Jobs \ {j} : job'[k].pc = job[k].pc /\ job'[k].left = job[k].left
      PROVE  WorkInv'
  BY <1>3, WorkFrame, WhoseJob DEF runVars
<1>4. ASSUME CommandStep PROVE WorkInv'
  <2>1. UNCHANGED runVars
    BY <1>4 DEF CommandStep, StartCommand, LoadObservation, PersistScores, EndCommand
  <2>2. \A k \in Jobs \ {Cli} : job'[k].pc = job[k].pc /\ job'[k].left = job[k].left
    BY <1>4, CommandMoves, EndMoves DEF CommandStep, Becomes, IsOver
  <2> QED
    BY <1>3, <2>1, <2>2
<1>5. ASSUME NEW p \in Passes, PassStep(p) PROVE WorkInv'
  <2>1. UNCHANGED runVars
    BY <1>5 DEF PassStep, create_metric_run, ScoreCase, FinishPass, FailPass
  <2>2. \A k \in Jobs \ {p} : job'[k].pc = job[k].pc /\ job'[k].left = job[k].left
    BY <1>5, PassMoves DEF PassStep, Becomes
  <2> QED
    BY <1>3, <2>1, <2>2
<1> QED
  BY <1>1, <1>2, <1>4, <1>5 DEF Next, TaskStep, CommandStep, PassStep

-----------------------------------------------------------------------------
(* The scores of the run *)

(* Both are inductive as they stand, once WorkInv says that no complete    *)
(* case is worked on again.                                                *)
ScoreInv == CompleteIsScored /\ LinkedScoresAreFinal

LEMMA RunRows == ASSUME Types, NEW c \in Cases PROVE results[Run][c] \in MetricRows
<1>1. results[Run] \in [Cases -> MetricRows]
  BY WhoseJob DEF Types
<1> QED
  BY <1>1

LEMMA ScoreFrame ==
  ASSUME ScoreInv, results'[Run] = results[Run],
         \A c \in Cases : \/ status'[c] = status[c] /\ attempts'[c] = attempts[c]
                          \/ status[c] # "COMPLETE" /\ status'[c] # "COMPLETE"
  PROVE  ScoreInv'
<1>1. \A c \in Cases : (status'[c] = "COMPLETE") = (status[c] = "COMPLETE")
  OBVIOUS
<1>2. \A c \in Cases : status[c] = "COMPLETE" => Latest(c)' = Latest(c)
  BY DEF Latest
<1>3. CompleteIsScored'
  BY <1>1 DEF ScoreInv, CompleteIsScored
<1>4. ASSUME NEW c \in Cases, NEW m \in DOMAIN results'[Run][c], results'[Run][c][m].linked
      PROVE  /\ status'[c] = "COMPLETE"
             /\ Unlinked(results'[Run][c][m]) = _execute_metric_safe(m, Latest(c)', TRUE)
  <2>1. /\ status[c] = "COMPLETE"
        /\ Unlinked(results[Run][c][m]) = _execute_metric_safe(m, Latest(c), TRUE)
    BY <1>4 DEF ScoreInv, LinkedScoresAreFinal
  <2> QED
    BY <1>1, <1>2, <2>1
<1>5. LinkedScoresAreFinal'
  BY <1>4 DEF LinkedScoresAreFinal
<1> QED
  BY <1>3, <1>5 DEF ScoreInv

(* The scores of the case that completes are those of its observation. *)
LEMMA CompletedScores ==
  ASSUME Types, WorkInv, ScoreInv, NEW t \in Tasks, NEW c \in Cases,
         NEW o \in Observations \cup {Broken}, CompleteCase(t, c, o)
  PROVE  ScoreInv'
<1> DEFINE scored == score_case(o, Selected, TRUE)
           new == Rows(scored, TRUE)
<1>1. o \in Obs
  BY DEF Obs
<1>2. /\ scored \in ScoreRows /\ DOMAIN scored = _select_metrics(Selected)
      /\ \A m \in DOMAIN scored : scored[m] = _execute_metric_safe(m, o, TRUE)
  BY <1>1, CaseScores
<1> HIDE DEF scored
<1>3. /\ new \in MetricRows /\ DOMAIN new = DOMAIN scored
      /\ \A m \in DOMAIN scored : Unlinked(new[m]) = scored[m]
  BY <1>2, LinkedRows
<1>4. /\ results'[Run][c] = persist_metric(results[Run][c], new)
      /\ \A d \in Cases \ {c} : results'[Run][d] = results[Run][d]
  BY CompleteWrites DEF scored
<1> HIDE DEF new
<1>6. /\ DOMAIN results'[Run][c] = DOMAIN results[Run][c] \cup DOMAIN new
      /\ \A m \in DOMAIN new : results'[Run][c][m] = new[m]
      /\ \A m \in DOMAIN results[Run][c] \ DOMAIN new :
           results'[Run][c][m] = results[Run][c][m]
  <2> DEFINE old == results[Run][c]
  <2>1. old \in MetricRows
    BY RunRows
  <2>2. results'[Run][c] = persist_metric(old, new)
    BY <1>4
  <2> HIDE DEF old
  <2>3. /\ DOMAIN persist_metric(old, new) = DOMAIN old \cup DOMAIN new
        /\ \A m \in DOMAIN new : persist_metric(old, new)[m] = new[m]
        /\ \A m \in DOMAIN old \ DOMAIN new : persist_metric(old, new)[m] = old[m]
    BY <1>3, <2>1, PersistedRows
  <2> QED
    BY <2>2, <2>3 DEF old
<1>7. /\ status[c] = "PENDING" /\ status'[c] = "COMPLETE" /\ Latest(c)' = o
      /\ \A d \in Cases \ {c} : status'[d] = status[d] /\ Latest(d)' = Latest(d)
  <2>1. status[c] = "PENDING"
    BY DEF CompleteCase, WorkInv
  <2>2. Latest(c)' = o /\ \A d \in Cases \ {c} : attempts'[d] = attempts[d]
    BY <1>1, AttemptAppended DEF CompleteCase, Types
  <2> QED
    BY <2>1, <2>2 DEF CompleteCase, Types, Latest
<1>8. \A m \in DOMAIN results[Run][c] : ~results[Run][c][m].linked
  BY <1>7 DEF ScoreInv, LinkedScoresAreFinal
<1>9. CompleteIsScored'
  BY <1>2, <1>3, <1>4, <1>6, <1>7 DEF ScoreInv, CompleteIsScored
<1>10. ASSUME NEW d \in Cases, NEW m \in DOMAIN results'[Run][d], results'[Run][d][m].linked
       PROVE  /\ status'[d] = "COMPLETE"
              /\ Unlinked(results'[Run][d][m]) = _execute_metric_safe(m, Latest(d)', TRUE)
  <2>1. CASE d # c
    BY <1>4, <1>7, <1>10, <2>1 DEF ScoreInv, LinkedScoresAreFinal
  <2>2. CASE d = c
    <3>1. m \in DOMAIN new
      BY <1>6, <1>8, <1>10, <2>2
    <3> QED
      BY <1>2, <1>3, <1>6, <1>7, <2>2, <3>1
  <2> QED
    BY <2>1, <2>2
<1>11. LinkedScoresAreFinal'
  BY <1>10 DEF LinkedScoresAreFinal
<1> QED
  BY <1>9, <1>11 DEF ScoreInv

(* The score command unlinks what it overwrites. *)
LEMMA CommandScores ==
  ASSUME Types, CommandInv, ScoreInv, EndCommand, aggregates[Run] = NoRows PROVE ScoreInv'
<1>1. ASSUME NEW c \in Cases
      PROVE  LET new == Rows(job[Cli].rows[c], FALSE)
             IN /\ DOMAIN results'[Run][c] = DOMAIN results[Run][c] \cup DOMAIN new
                /\ \A m \in DOMAIN new : ~results'[Run][c][m].linked
                /\ \A m \in DOMAIN results[Run][c] \ DOMAIN new :
                     results'[Run][c][m] = results[Run][c][m]
  <2> DEFINE scored == job[Cli].rows[c]
             new == Rows(scored, FALSE)
  <2>1. scored \in ScoreRows /\ results'[Run][c] = persist_metric(results[Run][c], new)
    BY EndWrites
  <2> HIDE DEF scored
  <2>2. new \in MetricRows /\ \A m \in DOMAIN new : ~new[m].linked
    BY <2>1, LinkedRows
  <2> HIDE DEF new
  <2> DEFINE old == results[Run][c]
  <2>3. old \in MetricRows
    BY RunRows
  <2>4. results'[Run][c] = persist_metric(old, new)
    BY <2>1
  <2> HIDE DEF old
  <2>5. /\ DOMAIN persist_metric(old, new) = DOMAIN old \cup DOMAIN new
        /\ \A m \in DOMAIN new : persist_metric(old, new)[m] = new[m]
        /\ \A m \in DOMAIN old \ DOMAIN new : persist_metric(old, new)[m] = old[m]
    BY <2>2, <2>3, PersistedRows
  <2> QED
    BY <2>2, <2>4, <2>5 DEF new, scored, old
<1>2. \A c \in Cases : status'[c] = status[c] /\ Latest(c)' = Latest(c)
  BY DEF EndCommand, runVars, Latest
<1>3. CompleteIsScored'
  BY <1>1, <1>2 DEF ScoreInv, CompleteIsScored
<1>4. ASSUME NEW c \in Cases, NEW m \in DOMAIN results'[Run][c], results'[Run][c][m].linked
      PROVE  /\ status'[c] = "COMPLETE"
             /\ Unlinked(results'[Run][c][m]) = _execute_metric_safe(m, Latest(c)', TRUE)
  <2>1. m \in DOMAIN results[Run][c] /\ results'[Run][c][m] = results[Run][c][m]
    BY <1>1, <1>4
  <2>2. /\ status[c] = "COMPLETE"
        /\ Unlinked(results[Run][c][m]) = _execute_metric_safe(m, Latest(c), TRUE)
    BY <1>4, <2>1 DEF ScoreInv, LinkedScoresAreFinal
  <2> QED
    BY <1>2, <2>1, <2>2
<1>5. LinkedScoresAreFinal'
  BY <1>4 DEF LinkedScoresAreFinal
<1> QED
  BY <1>3, <1>5 DEF ScoreInv

LEMMA ScoreKept ==
  ASSUME Types, WorkInv, CommandInv, PassInv, ScoreInv, [Next]_vars PROVE ScoreInv'
<1>1. CASE UNCHANGED runVars /\ results'[Run] = results[Run]
  BY <1>1, ScoreFrame DEF runVars
<1>2. ASSUME NEW t \in Tasks, NEW c \in Cases, FailCase(t, c) \/ RetryCase(t, c)
      PROVE  ScoreInv'
  <2>1. results' = results /\ status[c] # "COMPLETE" /\ status'[c] # "COMPLETE"
    BY <1>2 DEF FailCase, RetryCase, Types, WorkInv
  <2>2. \A d \in Cases \ {c} : status'[d] = status[d] /\ attempts'[d] = attempts[d]
    BY <1>2 DEF FailCase, RetryCase, Types, runVars
  <2> QED
    BY <2>1, <2>2, ScoreFrame
<1>3. ASSUME NEW p \in Passes, FinishPass(p)
      PROVE  UNCHANGED runVars /\ results'[Run] = results[Run]
  BY <1>3, FinishWrites, WhoseJob DEF FinishPass
<1>4. CASE EndCommand /\ aggregates[Run] = NoRows
  BY <1>4, CommandScores
<1> QED
  BY <1>1, <1>2, <1>3, <1>4, CompletedScores
  DEF Next, vars, runVars, Collect, DeleteAggregates, InsertAggregates, StartCommand,
      LoadObservation, PersistScores, EndCommand, create_metric_run, ScoreCase, FailPass

-----------------------------------------------------------------------------
(* The score command and the passes *)

(* A step leaves the jobs of the others alone. *)
LEMMA TaskLeaves ==
  ASSUME Types, NEW t \in Tasks, TaskStep(t), NEW k \in Jobs \ {t}
  PROVE  job'[k].pc = job[k].pc /\ job'[k].left = job[k].left /\ job'[k].rows = job[k].rows
<1>1. CASE \E c \in Cases : FailCase(t, c) \/ \E o \in Observations \cup {Broken} :
             CompleteCase(t, c, o)
  BY <1>1, OneCaseLess DEF CompleteCase, FailCase, Becomes, Types
<1>2. CASE \E c \in Cases : RetryCase(t, c)
  BY <1>2, RetryMoves DEF Becomes
<1>3. CASE Collect(t)
  BY <1>3, CollectMoves DEF Becomes
<1>4. CASE DeleteAggregates(t)
  BY <1>4, DeleteMoves DEF Becomes
<1>5. CASE InsertAggregates(t)
  BY <1>5, InsertMoves DEF IsOver
<1> QED
  BY <1>1, <1>2, <1>3, <1>4, <1>5 DEF TaskStep

LEMMA CommandLeaves ==
  ASSUME Types, CommandStep, NEW k \in Jobs \ {Cli}
  PROVE  job'[k].pc = job[k].pc /\ job'[k].left = job[k].left /\ job'[k].rows = job[k].rows
BY CommandMoves, EndMoves DEF CommandStep, Becomes, IsOver

LEMMA PassLeaves ==
  ASSUME Types, NEW p \in Passes, PassStep(p), NEW k \in Jobs \ {p}
  PROVE  job'[k] = job[k]
BY PassMoves DEF PassStep, Becomes, create_metric_run

LEMMA CommandKept == ASSUME Types, CommandInv, [Next]_vars PROVE CommandInv'
<1>1. ASSUME job'[Cli].pc = job[Cli].pc, job'[Cli].left = job[Cli].left,
             job'[Cli].rows = job[Cli].rows
      PROVE  CommandInv'
  BY <1>1 DEF CommandInv
<1>2. CASE StartCommand
  <2>1. /\ job'[Cli].pc = "scoring" /\ job'[Cli].left = Cases
        /\ job'[Cli].rows = job[Cli].rows
    BY <1>2, CommandMoves DEF Becomes
  <2>2. job[Cli].rows = NoRows
    BY <1>2 DEF StartCommand, CommandInv
  <2>3. DOMAIN job'[Cli].rows = {}
    BY <2>1, <2>2 DEF NoRows
  <2> QED
    BY <2>1, <2>3 DEF CommandInv
<1>3. CASE LoadObservation
  <2>1. /\ job'[Cli].pc = "scoring" /\ job'[Cli].left = job[Cli].left
        /\ job'[Cli].rows = job[Cli].rows
    BY <1>3, CommandMoves DEF Becomes
  <2> QED
    BY <1>1, <1>3, <2>1 DEF LoadObservation
<1>4. CASE PersistScores
  <2>1. PICK c \in job[Cli].left, o \in Obs :
          Becomes(Cli, job[Cli].pc, job[Cli].left \ {c}, <<>>,
                  With(job[Cli].rows, c, score_case(o, None, FALSE)), job[Cli].beaten)
    BY <1>4, CommandMoves
  <2> DEFINE old == job[Cli].rows
             scored == score_case(o, None, FALSE)
  <2>2. old \in Tables /\ job[Cli].left \in SUBSET Cases
    BY WhoseJob DEF Types, Job
  <2>3. job[Cli].pc = "scoring" /\ DOMAIN old = Cases \ job[Cli].left
        /\ \A d \in DOMAIN old : old[d] \in ScoreRows
    BY <2>1 DEF CommandInv
  <2>4. scored \in ScoreRows
    BY CaseScores
  <2>5. /\ job'[Cli].pc = "scoring" /\ job'[Cli].left = job[Cli].left \ {c}
        /\ job'[Cli].rows = With(old, c, scored)
    BY <2>1, <2>3 DEF Becomes
  <2> HIDE DEF old, scored
  <2>6. /\ DOMAIN With(old, c, scored) = DOMAIN old \cup {c}
        /\ With(old, c, scored)[c] = scored
        /\ \A d \in DOMAIN old \ {c} : With(old, c, scored)[d] = old[d]
    BY DEF With
  <2>7. DOMAIN job'[Cli].rows = Cases \ job'[Cli].left
    BY <2>2, <2>3, <2>5, <2>6
  <2>8. \A d \in DOMAIN job'[Cli].rows : job'[Cli].rows[d] \in ScoreRows
    BY <2>3, <2>4, <2>5, <2>6
  <2> QED
    BY <2>5, <2>7, <2>8 DEF CommandInv
<1>5. CASE EndCommand
  <2>1. PICK pc \in {"rolled back", "committed"} : IsOver(Cli, pc)
    BY <1>5, EndMoves
  <2>2. job'[Cli].pc = pc /\ job'[Cli].left = {}
    BY <2>1, OverJob DEF IsOver
  <2> QED
    BY <2>2 DEF CommandInv
<1>6. ASSUME NEW t \in Tasks, TaskStep(t) PROVE CommandInv'
  BY <1>1, <1>6, TaskLeaves, WhoseJob
<1>7. ASSUME NEW p \in Passes, PassStep(p) PROVE CommandInv'
  BY <1>1, <1>7, PassLeaves, WhoseJob
<1>8. CASE UNCHANGED vars
  BY <1>1, <1>8 DEF vars
<1> QED
  BY <1>2, <1>3, <1>4, <1>5, <1>6, <1>7, <1>8 DEF Next, TaskStep, PassStep

(* What a pass knows of one case. *)
ScoredOnce(p, c) ==
  \E o \in ToSet(attempts[c]) \cup {None} :
    job[p].rows[c] = score_case(o, PassSelected[p], TRUE)

LEMMA OnePassKept ==
  ASSUME Types, PassInv, Next, NEW p \in Passes
  PROVE  /\ job'[p].pc \in {"idle", "scoring"}
         /\ job'[p].pc = "idle" => job'[p].rows = NoRows
         /\ job'[p].pc = "scoring" =>
              /\ DOMAIN job'[p].rows = Cases \ job'[p].left
              /\ \A c \in DOMAIN job'[p].rows : ScoredOnce(p, c)'
<1>1. \A c \in Cases : ToSet(attempts[c]) \subseteq ToSet(attempts'[c])
  BY AttemptsGrow
<1>2. /\ job[p].pc \in {"idle", "scoring"}
      /\ job[p].pc = "idle" => job[p].rows = NoRows
      /\ job[p].pc = "scoring" => /\ DOMAIN job[p].rows = Cases \ job[p].left
                                  /\ \A c \in DOMAIN job[p].rows : ScoredOnce(p, c)
  BY DEF PassInv, ScoredOnce
<1>3. ASSUME job'[p].pc = job[p].pc, job'[p].left = job[p].left, job'[p].rows = job[p].rows
      PROVE  /\ job'[p].pc \in {"idle", "scoring"}
             /\ job'[p].pc = "idle" => job'[p].rows = NoRows
             /\ job'[p].pc = "scoring" =>
                  /\ DOMAIN job'[p].rows = Cases \ job'[p].left
                  /\ \A c \in DOMAIN job'[p].rows : ScoredOnce(p, c)'
  <2>1. ASSUME job[p].pc = "scoring", NEW c \in DOMAIN job[p].rows PROVE ScoredOnce(p, c)'
    <3>1. c \in Cases /\ ScoredOnce(p, c)
      BY <1>2, <2>1
    <3> QED
      BY <1>1, <1>3, <3>1 DEF ScoredOnce
  <2> QED
    BY <1>2, <1>3, <2>1
<1>4. CASE create_metric_run(p) /\ job' # job
  <2>1. /\ job'[p].pc = "scoring" /\ job'[p].left = Cases /\ job'[p].rows = job[p].rows
    BY <1>4, PassMoves DEF Becomes
  <2>2. DOMAIN job'[p].rows = {}
    BY <1>2, <1>4, <2>1 DEF create_metric_run, NoRows
  <2> QED
    BY <2>1, <2>2
<1>5. CASE ScoreCase(p)
  <2> DEFINE scored(c) == score_case(Latest(c), PassSelected[p], TRUE)
             old == job[p].rows
  <2>1. PICK c \in job[p].left :
          Becomes(p, "scoring", job[p].left \ {c}, job[p].loaded, With(old, c, scored(c)),
                  job[p].beaten)
    BY <1>5, PassMoves
  <2>2. old \in Tables /\ job[p].left \in SUBSET Cases /\ c \in Cases
    BY WhoseJob DEF Types, Job
  <2>3. /\ job'[p].pc = "scoring" /\ job'[p].left = job[p].left \ {c}
        /\ job'[p].rows = With(old, c, scored(c))
    BY <2>1 DEF Becomes
  <2>4. /\ DOMAIN old = Cases \ job[p].left
        /\ \A d \in DOMAIN old : ScoredOnce(p, d)
    BY <1>2, <1>5 DEF ScoreCase
  <2>5. scored(c) \in ScoreRows
    <3>1. Latest(c) \in Obs
      BY <2>2, LatestTyped DEF Types
    <3> QED
      BY <3>1, CaseScores
  <2>6. Latest(c) \in ToSet(attempts'[c]) \cup {None}
    <3>1. attempts[c] \in Seq(Obs)
      BY <2>2 DEF Types
    <3>2. CASE attempts[c] # <<>>
      <4>1. Len(attempts[c]) \in DOMAIN attempts[c]
        BY <3>1, <3>2
      <4>2. Latest(c) \in ToSet(attempts[c])
        BY <3>2, <4>1 DEF Latest, ToSet
      <4> QED
        BY <1>1, <2>2, <4>2
    <3> QED
      BY <3>2 DEF Latest
  <2>7. /\ DOMAIN job'[p].rows = DOMAIN old \cup {c}
        /\ job'[p].rows[c] = scored(c)
        /\ \A d \in DOMAIN old \ {c} : job'[p].rows[d] = old[d]
    <3> DEFINE scores == scored(c)
               rows == old
    <3>1. job'[p].rows = With(rows, c, scores)
      BY <2>3
    <3> HIDE DEF scores, rows
    <3>2. /\ DOMAIN With(rows, c, scores) = DOMAIN rows \cup {c}
          /\ With(rows, c, scores)[c] = scores
          /\ \A d \in DOMAIN rows \ {c} : With(rows, c, scores)[d] = rows[d]
      BY DEF With
    <3> QED
      BY <3>1, <3>2 DEF scores, rows
  <2>8. ScoredOnce(p, c)'
    BY <2>6, <2>7 DEF ScoredOnce
  <2>9. \A d \in DOMAIN old \ {c} : ScoredOnce(p, d)'
    BY <1>1, <2>4, <2>7 DEF ScoredOnce
  <2>10. DOMAIN job'[p].rows = Cases \ job'[p].left
    BY <2>2, <2>3, <2>4, <2>7
  <2> QED
    BY <2>3, <2>7, <2>8, <2>9, <2>10
<1>6. CASE FinishPass(p) \/ FailPass(p)
  BY <1>6, PassMoves DEF Becomes
<1>7. CASE \E q \in Passes \ {p} : PassStep(q)
  BY <1>3, <1>7, PassLeaves, WhoseJob
<1>8. CASE \E t \in Tasks : TaskStep(t)
  BY <1>3, <1>8, TaskLeaves, WhoseJob
<1>9. CASE CommandStep
  BY <1>3, <1>9, CommandLeaves, WhoseJob
<1>10. CASE job' = job
  BY <1>3, <1>10
<1> QED
  BY <1>4, <1>5, <1>6, <1>7, <1>8, <1>9, <1>10
  DEF Next, TaskStep, CommandStep, PassStep

LEMMA PassKept == ASSUME Types, PassInv, [Next]_vars PROVE PassInv'
<1>1. CASE UNCHANGED vars
  BY <1>1 DEF vars, runVars, PassInv
<1>2. CASE Next
  BY <1>2, OnePassKept DEF PassInv, ScoredOnce
<1> QED
  BY <1>1, <1>2

(* The table of a pass that is finished scores each case on one observation. *)
LEMMA FinishedPass ==
  ASSUME Types, PassInv, NEW p \in Passes, FinishPass(p)
  PROVE  /\ aggregates'[p] = _aggregate(results'[p])
         /\ \A c \in Cases : \E o \in ToSet(attempts[c]) \cup {None} :
              Scores(results'[p][c]) = score_case(o, PassSelected[p], TRUE)
<1> DEFINE rows == job[p].rows
<1>1. /\ DOMAIN rows = Cases /\ \A c \in Cases : rows[c] \in ScoreRows
      /\ results'[p] = [c \in Cases |-> Rows(rows[c], FALSE)]
  BY FinishWrites
<1>2. aggregates'[p] = _aggregate(rows)
  BY WhoseJob DEF FinishPass, Types
<1>3. \A c \in Cases : \E o \in ToSet(attempts[c]) \cup {None} :
        rows[c] = score_case(o, PassSelected[p], TRUE)
  BY <1>1 DEF PassInv, FinishPass
<1> HIDE DEF rows
<1>4. aggregates'[p] = _aggregate(results'[p])
  BY <1>1, <1>2, AggregatesAgree
<1>5. ASSUME NEW c \in Cases PROVE Scores(results'[p][c]) = rows[c]
  <2> DEFINE scored == rows[c]
  <2>1. scored \in ScoreRows /\ results'[p][c] = Rows(scored, FALSE)
    BY <1>1
  <2> HIDE DEF scored
  <2>2. PICK D \in SUBSET Metrics : scored \in [D -> Score]
    BY <2>1 DEF ScoreRows
  <2>3. /\ DOMAIN Rows(scored, FALSE) = D
        /\ \A m \in D : Unlinked(Rows(scored, FALSE)[m]) = scored[m]
    BY <2>1, <2>2, LinkedRows
  <2>4. Scores(Rows(scored, FALSE)) = scored
    BY <2>2, <2>3 DEF Scores
  <2> QED
    BY <2>1, <2>4 DEF scored
<1> QED
  BY <1>3, <1>4, <1>5

(* PassIsConsistent for one pass. *)
Consistent(p) ==
  IF passes[p] = "COMPLETED"
  THEN /\ aggregates[p] = _aggregate(results[p])
       /\ \A c \in Cases : \E o \in ToSet(attempts[c]) \cup {None} :
            Scores(results[p][c]) = score_case(o, PassSelected[p], TRUE)
  ELSE aggregates[p] = NoRows /\ \A c \in Cases : results[p][c] = NoRows

LEMMA ConsistentFrame ==
  ASSUME NEW p \in Passes, Consistent(p), results'[p] = results[p],
         aggregates'[p] = aggregates[p],
         (passes'[p] = "COMPLETED") = (passes[p] = "COMPLETED"),
         \A c \in Cases : ToSet(attempts[c]) \subseteq ToSet(attempts'[c])
  PROVE  Consistent(p)'
<1>1. CASE passes[p] = "COMPLETED"
  <2>1. ASSUME NEW c \in Cases
        PROVE  \E o \in ToSet(attempts'[c]) \cup {None} :
                 Scores(results'[p][c]) = score_case(o, PassSelected[p], TRUE)
    <3>1. PICK o \in ToSet(attempts[c]) \cup {None} :
            Scores(results[p][c]) = score_case(o, PassSelected[p], TRUE)
      BY <1>1 DEF Consistent
    <3> QED
      BY <3>1
  <2> QED
    BY <1>1, <2>1 DEF Consistent
<1>2. CASE passes[p] # "COMPLETED"
  BY <1>2 DEF Consistent
<1> QED
  BY <1>1, <1>2

LEMMA PassConsistencyKept ==
  ASSUME Types, CommandInv, PassInv, PassIsConsistent, [Next]_vars PROVE PassIsConsistent'
<1> SUFFICES ASSUME NEW p \in Passes PROVE Consistent(p)'
  BY DEF PassIsConsistent, Consistent
<1>1. Consistent(p)
  BY DEF PassIsConsistent, Consistent
<1>2. CASE UNCHANGED vars
  BY <1>1, <1>2, ConsistentFrame DEF vars, runVars
<1>3. CASE Next
  <2>1. \A c \in Cases : ToSet(attempts[c]) \subseteq ToSet(attempts'[c])
    BY <1>3, AttemptsGrow
  <2>2. CASE FinishPass(p)
    <3>1. passes'[p] = "COMPLETED" /\ attempts' = attempts
      BY <2>2 DEF FinishPass, Types, runVars
    <3> QED
      BY <2>2, <3>1, FinishedPass DEF Consistent
  <2>3. results'[p] = results[p] \/ FinishPass(p)
    <3>1. ASSUME NEW q \in Passes, FinishPass(q), q # p PROVE results'[p] = results[p]
      BY <3>1, FinishWrites, WhoseJob
    <3>2. ASSUME EndCommand PROVE results'[p] = results[p]
      BY <3>2, EndWrites DEF EndCommand
    <3>3. ASSUME NEW t \in Tasks, NEW c \in Cases, NEW o \in Observations \cup {Broken},
                 CompleteCase(t, c, o)
          PROVE  results'[p] = results[p]
      BY <3>3, CompleteWrites
    <3> QED
      BY <1>3, <3>1, <3>2, <3>3
      DEF Next, FailCase, RetryCase, Collect, DeleteAggregates, InsertAggregates,
          StartCommand, LoadObservation, PersistScores, create_metric_run, ScoreCase,
          FailPass
  <2>4. aggregates'[p] = aggregates[p] \/ FinishPass(p)
    <3>1. ASSUME NEW q \in Passes, FinishPass(q), q # p PROVE aggregates'[p] = aggregates[p]
      BY <3>1, WhoseJob DEF FinishPass, Types
    <3>2. ASSUME EndCommand PROVE aggregates'[p] = aggregates[p]
      BY <3>2, WhoseJob DEF EndCommand, Types
    <3>3. ASSUME NEW t \in Tasks, InsertAggregates(t) PROVE aggregates'[p] = aggregates[p]
      <4>1. \/ aggregates' = aggregates
            \/ aggregates' = [s \in Scopes |-> IF s = Run THEN _aggregate(job[t].rows)
                                               ELSE IF s \in list_rows(Run) THEN NoRows
                                               ELSE aggregates[s]]
        BY <3>3 DEF InsertAggregates
      <4>2. p \in Scopes /\ p # Run /\ p \notin list_rows(Run)
        BY WhoseJob DEF list_rows
      <4> QED
        BY <4>1, <4>2
    <3> QED
      BY <1>3, <3>1, <3>2, <3>3
      DEF Next, CompleteCase, FailCase, RetryCase, Collect, DeleteAggregates,
          StartCommand, LoadObservation, PersistScores, create_metric_run, ScoreCase,
          FailPass
  <2>5. (passes'[p] = "COMPLETED") = (passes[p] = "COMPLETED") \/ FinishPass(p)
    <3>1. ASSUME NEW q \in Passes, FinishPass(q), q # p PROVE passes'[p] = passes[p]
      BY <3>1 DEF FinishPass, Types
    <3>2. ASSUME NEW q \in Passes, create_metric_run(q)
          PROVE  (passes'[p] = "COMPLETED") = (passes[p] = "COMPLETED")
      <4>1. CASE q = p
        BY <3>2, <4>1, ScoringAssumption DEF create_metric_run, Types
      <4>2. CASE q # p
        BY <3>2, <4>2 DEF create_metric_run, Types
      <4> QED
        BY <4>1, <4>2
    <3>3. CASE passes' = passes
      BY <3>3
    <3> QED
      BY <1>3, <3>1, <3>2, <3>3
      DEF Next, CompleteCase, FailCase, RetryCase, Collect, DeleteAggregates,
          InsertAggregates, StartCommand, LoadObservation, PersistScores, EndCommand,
          ScoreCase, FailPass
  <2> QED
    BY <1>1, <2>1, <2>2, <2>3, <2>4, <2>5, ConsistentFrame
<1> QED
  BY <1>2, <1>3

-----------------------------------------------------------------------------
(* The aggregates of the run *)

(* Only a transaction that has deleted aggregates can have been beaten. *)
BeatenInv == \A t \in Tasks : job[t].beaten => job[t].pc = "deleted"
(* Without overlap one task at a time is at work, nobody beats it, and the *)
(* rows it has collected are still those of the run when it inserts their  *)
(* aggregates.                                                             *)
AggregateInv ==
  /\ BeatenInv
  /\ Unshared =>
       /\ \A t, u \in Tasks : job[t].pc # "idle" /\ job[u].pc # "idle" => t = u
       /\ \A t \in Tasks : /\ ~job[t].beaten
                           /\ job[t].pc \in {"collected", "deleted"} => job[t].rows = results[Run]
       /\ (\A t \in Tasks : job[t].pc = "idle") => aggregates[Run] = _aggregate(results[Run])

LEMMA AggregateFrame ==
  ASSUME AggregateInv, Unshared' => Unshared, \A t \in Tasks : job'[t] = job[t],
         Unshared => UNCHANGED <<results[Run], aggregates[Run]>>
  PROVE  AggregateInv'
<1>1. BeatenInv'
  BY DEF AggregateInv, BeatenInv
<1> QED
  BY <1>1 DEF AggregateInv

LEMMA TaskAggregates ==
  ASSUME Types, WorkInv, AggregateInv, NEW t \in Tasks, TaskStep(t) PROVE AggregateInv'
<1>1. job'[Cli].pc = job[Cli].pc
  BY TaskLeaves, WhoseJob
<1>2. \A u \in Tasks : job[u].beaten => job[u].pc = "deleted"
  BY DEF AggregateInv, BeatenInv
<1>3. ASSUME Unshared
      PROVE  /\ job[t].pc # "idle" => \A u \in Tasks \ {t} : job[u].pc = "idle"
             /\ \A u \in Tasks : ~job[u].beaten
             /\ job[t].pc \in {"collected", "deleted"} => job[t].rows = results[Run]
  BY <1>3 DEF AggregateInv
<1>4. ASSUME job[t].pc # "idle", job'[t].pc # "idle", overlapped' = overlapped,
             \A u \in Tasks \ {t} : job'[u] = job[u],
             job'[t].beaten = job[t].beaten, job[t].beaten => job'[t].pc = "deleted",
             job'[t].pc \in {"collected", "deleted"} /\ Unshared =>
               job'[t].rows = results'[Run]
      PROVE  AggregateInv'
  <2>1. BeatenInv'
    BY <1>2, <1>4 DEF BeatenInv
  <2>2. Unshared' = Unshared
    BY <1>1, <1>4 DEF Unshared
  <2> SUFFICES ASSUME Unshared
               PROVE  /\ \A u, v \in Tasks : job'[u].pc # "idle" /\ job'[v].pc # "idle" => u = v
                      /\ \A u \in Tasks : ~job'[u].beaten
                      /\ \A u \in Tasks :
                           job'[u].pc \in {"collected", "deleted"} => job'[u].rows = results'[Run]
    BY <1>4, <2>1, <2>2 DEF AggregateInv
  <2>3. \A u \in Tasks \ {t} : job[u].pc = "idle"
    BY <1>3, <1>4
  <2> QED
    BY <1>3, <1>4, <2>3
<1>5. ASSUME NEW c \in Cases, NEW o, CompleteCase(t, c, o) \/ FailCase(t, c)
      PROVE  AggregateInv'
  <2>1. job' = [job EXCEPT ![t].left = @ \ {c}] /\ job[t].pc = "running"
        /\ overlapped' = overlapped
    BY <1>5 DEF CompleteCase, FailCase
  <2>2. Becomes(t, job[t].pc, job[t].left \ {c}, job[t].loaded, job[t].rows, job[t].beaten)
    BY <2>1, OneCaseLess DEF Types
  <2> QED
    BY <1>2, <1>4, <2>1, <2>2, WhoseJob DEF Becomes
<1>6. ASSUME NEW c \in Cases, RetryCase(t, c) PROVE AggregateInv'
  <2>1. /\ job'[t].pc = "running" /\ job'[t].beaten = FALSE
        /\ \A u \in Tasks \ {t} : job'[u] = job[u]
    BY <1>6, RetryMoves, WhoseJob DEF Becomes
  <2>2. BeatenInv'
    BY <1>2, <2>1 DEF BeatenInv
  <2> SUFFICES ASSUME Unshared'
               PROVE  /\ \A u, v \in Tasks : job'[u].pc # "idle" /\ job'[v].pc # "idle" => u = v
                      /\ \A u \in Tasks : ~job'[u].beaten
                      /\ \A u \in Tasks :
                           job'[u].pc \in {"collected", "deleted"} => job'[u].rows = results'[Run]
    BY <2>1, <2>2 DEF AggregateInv
  <2>3. \A u \in Tasks : job[u].pc = "idle"
    BY <1>6 DEF RetryCase, Unshared
  <2>4. \A u \in Tasks \ {t} : job'[u].pc = "idle" /\ ~job'[u].beaten
    <3>1. \A u \in Tasks : ~job[u].beaten
      <4>1. \A u \in Tasks : job[u].pc # "deleted"
        BY <2>3
      <4>2. \A u \in Tasks : job[u].beaten \in BOOLEAN
        BY WhoseJob DEF Types, Job
      <4> QED
        BY <1>2, <4>1, <4>2
    <3> QED
      BY <2>1, <2>3, <3>1
  <2> QED
    BY <2>1, <2>4
<1>7. CASE Collect(t)
  <2>1. job[t].pc = "running" /\ overlapped' = overlapped /\ results' = results
    BY <1>7 DEF Collect
  <2> QED
    BY <1>2, <1>4, <1>7, <2>1, CollectMoves, WhoseJob DEF Becomes
<1>8. CASE DeleteAggregates(t)
  <2>1. job[t].pc = "collected" /\ overlapped' = overlapped /\ results' = results
    BY <1>8 DEF DeleteAggregates
  <2> QED
    BY <1>2, <1>3, <1>4, <1>8, <2>1, DeleteMoves, WhoseJob DEF Becomes
<1>9. CASE InsertAggregates(t)
  <2>1. /\ job[t].pc = "deleted" /\ overlapped' = overlapped /\ results' = results
        /\ \/ job[t].beaten
           \/ aggregates' = [s \in Scopes |-> IF s = Run THEN _aggregate(job[t].rows)
                                              ELSE IF s \in list_rows(Run) THEN NoRows
                                              ELSE aggregates[s]]
    BY <1>9 DEF InsertAggregates
  <2>2. /\ job'[t].pc = "idle" /\ job'[t].beaten = FALSE
        /\ \A u \in Tasks \ {t} : /\ job'[u].pc = job[u].pc
                                  /\ job'[u] = job[u] \/ job[u].pc = "deleted"
    BY <1>9, InsertMoves, OverJob, WhoseJob DEF IsOver
  <2>3. BeatenInv'
    BY <1>2, <2>2 DEF BeatenInv
  <2>4. Unshared' = Unshared
    BY <1>1, <2>1 DEF Unshared
  <2> SUFFICES ASSUME Unshared
               PROVE  /\ \A u \in Tasks : job'[u].pc = "idle" /\ ~job'[u].beaten
                      /\ aggregates'[Run] = _aggregate(results'[Run])
    BY <2>3, <2>4 DEF AggregateInv
  <2>5. \A u \in Tasks \ {t} : job[u].pc = "idle"
    BY <1>3, <2>1
  <2>6. \A u \in Tasks : job'[u].pc = "idle" /\ ~job'[u].beaten
    BY <1>3, <2>2, <2>5
  <2>7. aggregates'[Run] = _aggregate(job[t].rows) /\ job[t].rows = results[Run]
    BY <1>3, <2>1, WhoseJob
  <2> QED
    BY <2>1, <2>6, <2>7
<1> QED
  BY <1>5, <1>6, <1>7, <1>8, <1>9 DEF TaskStep

LEMMA CommandAggregates ==
  ASSUME Types, CommandInv, AggregateInv, CommandStep PROVE AggregateInv'
<1>1. CASE StartCommand \/ LoadObservation \/ PersistScores
  <2>1. \A t \in Tasks : job'[t] = job[t]
    BY <1>1, CommandMoves, WhoseJob DEF Becomes
  <2>2. results' = results /\ aggregates' = aggregates /\ overlapped' = overlapped
    BY <1>1 DEF StartCommand, LoadObservation, PersistScores
  <2>3. job[Cli].pc # "committed"
    <3>1. ASSUME PersistScores PROVE job[Cli].left # {}
      BY <3>1 DEF PersistScores, IsNext
    <3> QED
      BY <1>1, <3>1 DEF StartCommand, LoadObservation, CommandInv
  <2> QED
    BY <2>1, <2>2, <2>3, AggregateFrame DEF Unshared
<1>2. CASE EndCommand /\ aggregates[Run] # NoRows
  <2>1. \A t \in Tasks : job'[t] = job[t]
    BY <1>2, EndMoves, WhoseJob DEF IsOver
  <2>2. results' = results /\ aggregates' = aggregates /\ overlapped' = overlapped
        /\ job[Cli].pc = "scoring"
    BY <1>2 DEF EndCommand
  <2> QED
    BY <2>1, <2>2, AggregateFrame DEF Unshared
<1>3. CASE EndCommand /\ aggregates[Run] = NoRows
  <2>1. /\ job'[Cli].pc = "committed"
        /\ \A u \in Tasks : /\ job'[u].pc = job[u].pc
                            /\ job'[u] = job[u] \/ job[u].pc = "deleted"
    BY <1>3, EndMoves, OverJob, WhoseJob DEF IsOver
  <2>2. BeatenInv'
    BY <2>1 DEF BeatenInv, AggregateInv
  <2> QED
    BY <2>1, <2>2 DEF AggregateInv, Unshared
<1> QED
  BY <1>1, <1>2, <1>3 DEF CommandStep

LEMMA AggregateKept ==
  ASSUME Types, WorkInv, CommandInv, PassInv, AggregateInv, [Next]_vars PROVE AggregateInv'
<1>1. CASE UNCHANGED vars
  BY <1>1, AggregateFrame DEF vars, Unshared
<1>2. ASSUME NEW p \in Passes, PassStep(p) PROVE AggregateInv'
  <2>1. (\A t \in Tasks : job'[t] = job[t]) /\ job'[Cli] = job[Cli]
    BY <1>2, PassLeaves, WhoseJob
  <2>2. overlapped' = overlapped
    BY <1>2 DEF PassStep, create_metric_run, ScoreCase, FinishPass, FailPass
  <2>3. results'[Run] = results[Run] /\ aggregates'[Run] = aggregates[Run]
    <3>1. CASE FinishPass(p)
      BY <3>1, FinishWrites, WhoseJob DEF FinishPass, Types
    <3>2. CASE ~FinishPass(p)
      BY <1>2, <3>2 DEF PassStep, create_metric_run, ScoreCase, FailPass
    <3> QED
      BY <3>1, <3>2
  <2> QED
    BY <2>1, <2>2, <2>3, AggregateFrame DEF Unshared
<1> QED
  BY <1>1, <1>2, TaskAggregates, CommandAggregates DEF Next, TaskStep, CommandStep, PassStep

-----------------------------------------------------------------------------
(* The theorems *)

Inv ==
  /\ Types /\ WorkInv /\ CommandInv /\ PassInv
  /\ ScoreInv /\ PassIsConsistent /\ AggregateInv

LEMMA InitInv == Init => Inv
<1> SUFFICES ASSUME Init PROVE Inv
  OBVIOUS
<1> PICK t \in Tasks :
      job = [j \in Jobs |-> IF j = t THEN [Idle EXCEPT !.pc = "running", !.left = Cases]
                            ELSE Idle]
  BY DEF Init
<1> DEFINE first == [Idle EXCEPT !.pc = "running", !.left = Cases]
<1>1. /\ first \in Job /\ first.pc = "running" /\ first.left = Cases /\ first.beaten = FALSE
  BY IdleJob DEF Job, Idle
<1>2. /\ Idle \in Job /\ Idle.pc = "idle" /\ Idle.left = {} /\ Idle.rows = NoRows
      /\ Idle.beaten = FALSE
  BY IdleJob DEF Idle
<1>3. job = [j \in Jobs |-> IF j = t THEN first ELSE Idle]
  OBVIOUS
<1> HIDE DEF first
<1>4. job \in [Jobs -> Job]
  BY <1>1, <1>2, <1>3
<1>5. job[t] = first /\ \A j \in Jobs \ {t} : job[j] = Idle
  BY <1>3, WhoseJob
<1>6. results \in [Scopes -> [Cases -> MetricRows]]
  BY IdleJob DEF Init
<1>7. attempts \in [Cases -> Seq(Obs)] /\ \A c \in Cases : Len(attempts[c]) = 0
  BY DEF Init
<1>8. DOMAIN aggregates = Scopes /\ \A s \in Scopes : DOMAIN aggregates[s] \subseteq Metrics
  BY DEF Init, NoRows
<1>9. Types
  BY <1>1, <1>2, <1>4, <1>5, <1>6, <1>7, <1>8, WhoseJob DEF Init, Types
<1>10. WorkInv
  BY <1>1, <1>2, <1>5, <1>7, WhoseJob, ScoringAssumption DEF Init, WorkInv
<1>11. CommandInv /\ PassInv
  BY <1>2, <1>5, WhoseJob DEF CommandInv, PassInv
<1>12. ScoreInv
  <2>1. \A c \in Cases : DOMAIN results[Run][c] = {}
    BY WhoseJob DEF Init, NoRows
  <2> QED
    BY <2>1 DEF Init, ScoreInv, CompleteIsScored, LinkedScoresAreFinal
<1>13. PassIsConsistent
  BY WhoseJob, ScoringAssumption DEF Init, PassIsConsistent
<1>14. AggregateInv
  BY <1>1, <1>2, <1>5, WhoseJob DEF AggregateInv, BeatenInv
<1> QED
  BY <1>9, <1>10, <1>11, <1>12, <1>13, <1>14 DEF Inv

LEMMA Invariance == Spec => []Inv
<1>1. Inv /\ [Next]_vars => Inv'
  BY TypesKept, WorkKept, CommandKept, PassKept, ScoreKept, PassConsistencyKept, AggregateKept
  DEF Inv
<1> QED
  BY <1>1, InitInv, PTL DEF Spec

(* A complete case has a result for every selected metric, and a result    *)
(* linked to its case execution is the score of the observation the case   *)
(* was completed with, whatever tasks, retries and score commands do.      *)
THEOREM ScoresCorrect == Spec => []ScoresAreCurrent
<1>1. Inv => ScoresAreCurrent
  <2> SUFFICES ASSUME Inv PROVE ScoresAreCurrent
    OBVIOUS
  <2>1. Types /\ WorkInv /\ ScoreInv
    BY DEF Inv
  <2>2. ASSUME NEW s \in Scopes, NEW c \in Cases PROVE DOMAIN results[s][c] \subseteq Metrics
    <3> DEFINE rows == results[s][c]
    <3>1. rows \in MetricRows
      <4>1. results[s] \in [Cases -> MetricRows]
        BY <2>1 DEF Types
      <4> QED
        BY <4>1
    <3> HIDE DEF rows
    <3> QED
      BY <3>1 DEF MetricRows, rows
  <2>3. TypeOK
    BY <2>1, <2>2 DEF Types, WorkInv, TypeOK
  <2> QED
    BY <2>1, <2>3 DEF ScoresAreCurrent, ScoreInv
<1> QED
  BY <1>1, Invariance, PTL

(* A scoring pass is all or nothing, scores each case on one observation   *)
(* and aggregates its own results, whatever commits while it works.        *)
THEOREM PassesCorrect == Spec => []PassIsConsistent
<1>1. Inv => PassIsConsistent
  BY DEF Inv
<1> QED
  BY <1>1, Invariance, PTL

(* Once the tasks of a run have ended its aggregates are those of its      *)
(* results, unless tasks overlapped or the score command committed.        *)
THEOREM AggregatesCorrect == Spec => []SettledRunIsAggregated
<1>1. Inv => SettledRunIsAggregated
  BY DEF Inv, AggregateInv, SettledRunIsAggregated
<1> QED
  BY <1>1, Invariance, PTL

-----------------------------------------------------------------------------
(* Sums and folds *)

(* A set of natural numbers that is not empty has a least one. *)
LEMMA LeastNatural ==
  ASSUME NEW T \in SUBSET Nat, T # {}
  PROVE  \E m \in T : \A k \in T : m <= k
<1> DEFINE R == {ss \in Nat \X Nat : ss[1] < ss[2]}
<1>1. IsWellFoundedOn(R, Nat)
  BY NatLessThanWellFounded, Zenon DEF OpToRel
<1> HIDE DEF R
<1>2. PICK m \in T : \A k \in T : <<k, m>> \notin R
  BY <1>1, WFMin
<1>3. ASSUME NEW k \in T PROVE m <= k
  <2>1. ~(k < m)
    BY <1>2 DEF R
  <2> QED
    BY <2>1
<1> QED
  BY <1>3

(* Induction up to n, over the numbers that are in T. *)
LEMMA UpTo ==
  ASSUME NEW n \in Nat, NEW T, 0 \in T, \A k \in 1..n : k - 1 \in T => k \in T
  PROVE  \A k \in 0..n : k \in T
<1> DEFINE F == {k \in 0..n : k \notin T}
<1>1. CASE F = {}
  BY <1>1
<1>2. CASE F # {}
  <2>1. F \in SUBSET Nat
    OBVIOUS
  <2>2. PICK m \in F : \A k \in F : m <= k
    BY <1>2, <2>1, LeastNatural
  <2>3. m \in 1..n
    BY <2>2
  <2>4. m - 1 \notin F /\ m - 1 \in 0..n
    BY <2>2, <2>3
  <2> QED
    BY <2>2, <2>3, <2>4
<1> QED
  BY <1>1, <1>2

(* A fold over the subsets of a finite set is a function of them: pick is *)
(* the element taken first, step what it does to the fold of the rest.    *)
Picks(pick, D) == \A S \in SUBSET D : S # {} => pick[S] \in S
(* A function that is the fold of the subsets of D. *)
IsFold(g, D, V, base, pick, step) ==
  /\ g \in [SUBSET D -> V]
  /\ \A S \in SUBSET D :
       g[S] = IF S = {} THEN base ELSE step[<<pick[S], g[S \ {pick[S]}]>>]

(* There is a fold of the subsets of a finite set, for every pick and step. *)
LEMMA FoldExists ==
  ASSUME NEW D, IsFiniteSet(D), NEW V, NEW base \in V, NEW pick, Picks(pick, D),
         NEW step \in [D \X V -> V]
  PROVE  \E g : IsFold(g, D, V, base, pick, step)
<1> DEFINE Small(k) == {S \in SUBSET D : Cardinality(S) <= k}
           Good(g, k) == /\ g \in [Small(k) -> V]
                         /\ \A S \in Small(k) :
                              g[S] = IF S = {} THEN base ELSE step[<<pick[S], g[S \ {pick[S]}]>>]
           n == Cardinality(D)
           T == {k \in 0..n : \E g : Good(g, k)}
<1>1. n \in Nat
  BY FS_CardinalityType
<1> USE DEF Picks
<1>2. \A S \in SUBSET D : IsFiniteSet(S) /\ Cardinality(S) \in Nat /\ Cardinality(S) <= n
  BY FS_Subset, FS_CardinalityType
<1>3. \A S \in SUBSET D : Cardinality(S) = 0 <=> S = {}
  BY <1>2, FS_EmptySet
<1>4. \A S \in SUBSET D : S # {} =>
        S \ {pick[S]} \in SUBSET D /\ Cardinality(S \ {pick[S]}) = Cardinality(S) - 1
  BY <1>2, FS_RemoveElement
<1>5. 0 \in T
  <2> DEFINE g == [S \in Small(0) |-> base]
  <2>1. \A S \in Small(0) : S = {}
    BY <1>2, <1>3
  <2>2. Good(g, 0)
    BY <2>1
  <2> HIDE DEF g, Good
  <2> QED
    BY <1>1, <2>2
<1>6. ASSUME NEW k \in 1..n, k - 1 \in T PROVE k \in T
  <2>1. PICK g : Good(g, k - 1)
    BY <1>6
  <2> DEFINE h == [S \in Small(k) |-> IF S \in Small(k - 1) THEN g[S]
                                      ELSE step[<<pick[S], g[S \ {pick[S]}]>>]]
  <2>2. \A S \in Small(k) : S # {} => pick[S] \in D /\ S \ {pick[S]} \in Small(k - 1)
    BY <1>1, <1>2, <1>4
  <2>3. {} \in Small(k - 1)
    BY <1>1, <1>3
  <2>4. \A S \in Small(k - 1) : g[S] \in V
    BY <2>1
  <2>5. \A S \in Small(k) : h[S] \in V
    <3> SUFFICES ASSUME NEW S \in Small(k) PROVE h[S] \in V
      OBVIOUS
    <3>1. CASE S \in Small(k - 1)
      BY <2>4, <3>1
    <3>2. CASE S \notin Small(k - 1)
      <4>1. S # {}
        BY <2>3, <3>2
      <4>2. pick[S] \in D /\ g[S \ {pick[S]}] \in V
        BY <2>2, <2>4, <4>1
      <4> QED
        BY <3>2, <4>2
    <3> QED
      BY <3>1, <3>2
  <2>6. ASSUME NEW S \in Small(k)
        PROVE  h[S] = IF S = {} THEN base ELSE step[<<pick[S], h[S \ {pick[S]}]>>]
    <3>1. \A R \in Small(k - 1) : R \in Small(k) /\ h[R] = g[R]
      BY <1>1, <1>2
    <3>2. CASE S = {}
      BY <2>1, <2>3, <3>1, <3>2
    <3>3. CASE S # {}
      <4>1. h[S \ {pick[S]}] = g[S \ {pick[S]}]
        BY <2>2, <3>1, <3>3
      <4>2. h[S] = step[<<pick[S], g[S \ {pick[S]}]>>]
        <5>1. CASE S \in Small(k - 1)
          BY <2>1, <3>1, <3>3, <5>1
        <5>2. CASE S \notin Small(k - 1)
          BY <5>2
        <5> QED
          BY <5>1, <5>2
      <4> QED
        BY <3>3, <4>1, <4>2
    <3> QED
      BY <3>2, <3>3
  <2>7. h \in [Small(k) -> V]
    BY <2>5
  <2> HIDE DEF h, Small
  <2>8. Good(h, k)
    BY <2>6, <2>7
  <2> HIDE DEF Good
  <2> QED
    BY <2>8
<1> HIDE DEF T
<1>7. n \in T
  BY <1>1, <1>5, <1>6, UpTo
<1>8. PICK g : Good(g, n)
  BY <1>7 DEF T
<1>9. Small(n) = SUBSET D
  BY <1>1, <1>2
<1> QED
  BY <1>8, <1>9 DEF IsFold

(* The greatest of some positions is one of them. *)
LEMMA MaxIsLast ==
  ASSUME NEW n \in Nat, NEW S \in SUBSET (1..n), S # {}
  PROVE  Max(S) \in S
<1> DEFINE U == {u \in 0..n : \A y \in S : u >= y}
<1>1. n \in U /\ U \in SUBSET Nat
  OBVIOUS
<1>2. PICK m \in U : \A u \in U : m <= u
  BY <1>1, LeastNatural
<1>3. m \in S
  <2>1. SUFFICES ASSUME m \notin S PROVE FALSE
    OBVIOUS
  <2>2. \A y \in S : m - 1 >= y
    BY <1>2, <2>1
  <2>3. m - 1 >= 0
    <3>1. PICK y \in S : TRUE
      OBVIOUS
    <3>2. y \in 1..n /\ m - 1 >= y
      BY <2>2, <3>1
    <3> QED
      BY <3>2
  <2>4. m - 1 \in U
    BY <1>2, <2>2, <2>3
  <2> QED
    BY <1>2, <2>4
<1>4. \E x \in S : \A y \in S : x >= y
  BY <1>2, <1>3
<1> QED
  BY <1>4 DEF Max

(* The sum of a list adds its elements one by one. *)
LEMMA TotalPrefix ==
  ASSUME NEW n \in Nat, NEW s \in [1..n -> Int]
  PROVE  \E P \in [0..n -> Int] :
           /\ P[0] = 0 /\ Total(s) = P[n]
           /\ \A k \in 1..n : P[k] = P[k - 1] + s[k]
<1> DEFINE D == 1..n
           Body(g) == [S \in SUBSET DOMAIN s |-> IF S = {} THEN 0
                                                 ELSE g[S \ {Max(S)}] + s[Max(S)]]
           h == CHOOSE g : g = Body(g)
           pick == [S \in SUBSET D |-> Max(S)]
           step == [e \in D \X Int |-> e[2] + s[e[1]]]
<1>1. IsFiniteSet(D)
  BY FS_Interval
<1>2. ASSUME NEW S \in SUBSET D, S # {} PROVE Max(S) \in S
  BY <1>2, MaxIsLast
<1>3. PICK g : IsFold(g, D, Int, 0, pick, step)
  <2>1. step \in [D \X Int -> Int]
    OBVIOUS
  <2>2. Picks(pick, D)
    BY <1>2 DEF Picks
  <2>3. 0 \in Int
    OBVIOUS
  <2> HIDE DEF step, pick, D
  <2> QED
    BY <1>1, <2>1, <2>2, <2>3, FoldExists
<1> USE DEF IsFold
<1>4. g = Body(g)
  <2>1. ASSUME NEW S \in SUBSET D, S # {} PROVE g[S] = g[S \ {Max(S)}] + s[Max(S)]
    <3>1. Max(S) \in D /\ g[S \ {Max(S)}] \in Int
      BY <1>2, <1>3, <2>1
    <3>2. step[<<Max(S), g[S \ {Max(S)}]>>] = g[S \ {Max(S)}] + s[Max(S)]
      BY <3>1
    <3> QED
      BY <1>3, <2>1, <3>2
  <2>2. g[{}] = 0
    BY <1>3
  <2> QED
    BY <1>3, <2>1, <2>2
<1>5. h = Body(h)
  <2>1. \E x : x = Body(x)
    BY <1>4
  <2> HIDE DEF Body
  <2> QED
    BY <2>1
<1>6. Total(s) = h[DOMAIN s]
  <2>1. \E x : x = Body(x)
    BY <1>4
  <2> QED
    BY <2>1 DEF Total, FoldLeft, MapThenFoldSet
<1> HIDE DEF h
<1>7. h[{}] = 0
  BY <1>5
<1>8. ASSUME NEW k \in 1..n PROVE h[1..k] = h[1..k - 1] + s[k]
  <2>1. Max(1..k) = k
    BY DEF Max
  <2>2. /\ (1..k) \ {k} = 1..k - 1
        /\ 1..k # {}
        /\ 1..k \in SUBSET DOMAIN s
    <3>1. k \in 1..k
      OBVIOUS
    <3>2. DOMAIN s = 1..n
      OBVIOUS
    <3>3. (1..k) \ {k} = 1..k - 1
      OBVIOUS
    <3>4. 1..k \in SUBSET DOMAIN s
      BY <3>2
    <3> QED
      BY <3>1, <3>3, <3>4
  <2>3. \A S \in SUBSET DOMAIN s : S # {} => h[S] = h[S \ {Max(S)}] + s[Max(S)]
    BY <1>5
  <2>4. h[1..k] = h[(1..k) \ {Max(1..k)}] + s[Max(1..k)]
    BY <2>2, <2>3
  <2> QED
    BY <2>1, <2>2, <2>4
<1> DEFINE T == {k \in 0..n : h[1..k] \in Int}
<1>9. \A k \in 0..n : k \in T
  <2>1. 0 \in T
    <3>1. 1..0 = {}
      OBVIOUS
    <3> QED
      BY <1>7, <3>1
  <2>2. \A k \in 1..n : k - 1 \in T => k \in T
    BY <1>8
  <2> HIDE DEF T
  <2> QED
    BY <2>1, <2>2, UpTo
<1> DEFINE P == [k \in 0..n |-> h[1..k]]
<1>10. P \in [0..n -> Int]
  BY <1>9
<1>11. P[0] = 0
  <2>1. 1..0 = {}
    OBVIOUS
  <2> QED
    BY <1>7, <2>1
<1>12. \A k \in 1..n : P[k] = P[k - 1] + s[k]
  BY <1>8
<1>13. Total(s) = P[n]
  BY <1>6
<1> QED
  BY <1>10, <1>11, <1>12, <1>13

(* A sum is the end of any sequence of partial sums. *)
LEMMA TotalIs ==
  ASSUME NEW n \in Nat, NEW s \in [1..n -> Int], NEW Q \in [0..n -> Int],
         Q[0] = 0, \A k \in 1..n : Q[k] = Q[k - 1] + s[k]
  PROVE  Total(s) = Q[n]
<1>1. PICK P \in [0..n -> Int] :
        /\ P[0] = 0 /\ Total(s) = P[n]
        /\ \A k \in 1..n : P[k] = P[k - 1] + s[k]
  BY TotalPrefix
<1> DEFINE T == {k \in 0..n : P[k] = Q[k]}
<1>2. 0 \in T
  BY <1>1
<1>3. \A k \in 1..n : k - 1 \in T => k \in T
  BY <1>1
<1> HIDE DEF T
<1>4. n \in T
  <2>1. \A k \in 0..n : k \in T
    BY <1>2, <1>3, UpTo
  <2> QED
    BY <2>1
<1> QED
  BY <1>1, <1>4 DEF T

(* A sum of numbers is a number. *)
LEMMA TotalType ==
  ASSUME NEW n \in Nat, NEW s \in [1..n -> Int]
  PROVE  Total(s) \in Int
BY TotalPrefix

(* Each element of t is made of those of q and x at the same place. *)
Affine(t, n, a, q, b, x, c) ==
  /\ n \in Nat /\ a \in Int /\ b \in Int /\ c \in Int
  /\ t \in [1..n -> Int] /\ q \in [1..n -> Int] /\ x \in [1..n -> Int]
  /\ \A i \in 1..n : t[i] = a * q[i] + b * x[i] + c

(* The sum of such a list is made of the two sums in the same way. *)
LEMMA TotalAffine ==
  ASSUME NEW t, NEW n, NEW a, NEW q, NEW b, NEW x, NEW c, Affine(t, n, a, q, b, x, c)
  PROVE  Total(t) = a * Total(q) + b * Total(x) + c * n
<1> USE DEF Affine
<1>1. PICK P \in [0..n -> Int] :
        /\ P[0] = 0 /\ Total(q) = P[n]
        /\ \A k \in 1..n : P[k] = P[k - 1] + q[k]
  BY TotalPrefix
<1>2. PICK R \in [0..n -> Int] :
        /\ R[0] = 0 /\ Total(x) = R[n]
        /\ \A k \in 1..n : R[k] = R[k - 1] + x[k]
  BY TotalPrefix
<1> DEFINE Q == [k \in 0..n |-> a * P[k] + b * R[k] + c * k]
<1>3. Q \in [0..n -> Int]
  OBVIOUS
<1>4. Q[0] = 0
  BY <1>1, <1>2
<1>5. ASSUME NEW k \in 1..n PROVE Q[k] = Q[k - 1] + t[k]
  <2>1. k - 1 \in 0..n /\ k \in 0..n
    OBVIOUS
  <2>2. PICK p \in Int, r \in Int, y \in Int, z \in Int :
          p = P[k - 1] /\ r = R[k - 1] /\ y = q[k] /\ z = x[k]
    BY <2>1
  <2>3. /\ Q[k] = a * (p + y) + b * (r + z) + c * k
        /\ Q[k - 1] = a * p + b * r + c * (k - 1)
        /\ t[k] = a * y + b * z + c
    BY <1>1, <1>2, <2>1, <2>2
  <2>4. a * (p + y) + b * (r + z) + c * k
          = (a * p + b * r + c * (k - 1)) + (a * y + b * z + c)
    OBVIOUS
  <2> QED
    BY <2>3, <2>4
<1> HIDE DEF Q
<1>6. Total(t) = Q[n]
  BY <1>3, <1>4, <1>5, TotalIs
<1>7. Q[n] = a * P[n] + b * R[n] + c * n
  BY DEF Q
<1> QED
  BY <1>1, <1>2, <1>6, <1>7

(* Turning the signs of a list turns the sign of its sum. *)
LEMMA TotalNegated ==
  ASSUME NEW n \in Nat, NEW s \in [1..n -> Int], NEW t \in [1..n -> Int],
         \A i \in 1..n : t[i] = -s[i]
  PROVE  Total(t) = -Total(s)
<1>1. PICK P \in [0..n -> Int] :
        /\ P[0] = 0 /\ Total(s) = P[n]
        /\ \A k \in 1..n : P[k] = P[k - 1] + s[k]
  BY TotalPrefix
<1> DEFINE Q == [k \in 0..n |-> -P[k]]
<1>2. Q \in [0..n -> Int] /\ Q[0] = 0
  BY <1>1
<1>3. ASSUME NEW k \in 1..n PROVE Q[k] = Q[k - 1] + t[k]
  <2>1. k - 1 \in 0..n /\ P[k] \in Int /\ P[k - 1] \in Int /\ s[k] \in Int
    OBVIOUS
  <2> QED
    BY <1>1, <2>1
<1> HIDE DEF Q
<1>4. Total(t) = Q[n]
  BY <1>2, <1>3, TotalIs
<1> QED
  BY <1>1, <1>4 DEF Q

(* A sum lies between the bounds of its elements, times their number. *)
LEMMA TotalBounds ==
  ASSUME NEW n \in Nat, NEW s \in [1..n -> Int], NEW lo \in Int, NEW hi \in Int,
         \A i \in 1..n : lo <= s[i] /\ s[i] <= hi
  PROVE  n * lo <= Total(s) /\ Total(s) <= n * hi
<1>1. PICK P \in [0..n -> Int] :
        /\ P[0] = 0 /\ Total(s) = P[n]
        /\ \A k \in 1..n : P[k] = P[k - 1] + s[k]
  BY TotalPrefix
<1> DEFINE T == {k \in 0..n : k * lo <= P[k] /\ P[k] <= k * hi}
<1>2. 0 \in T
  BY <1>1
<1>3. ASSUME NEW k \in 1..n, k - 1 \in T PROVE k \in T
  <2>1. PICK p \in Int, y \in Int : p = P[k - 1] /\ y = s[k]
    OBVIOUS
  <2>2. /\ (k - 1) * lo <= p /\ p <= (k - 1) * hi
        /\ lo <= y /\ y <= hi /\ P[k] = p + y
    BY <1>1, <1>3, <2>1
  <2>3. k * lo = (k - 1) * lo + lo /\ k * hi = (k - 1) * hi + hi
    OBVIOUS
  <2>4. k * lo <= p + y /\ p + y <= k * hi
    BY <2>2, <2>3
  <2> QED
    BY <2>2, <2>4
<1> HIDE DEF T
<1>4. n \in T
  <2>1. \A k \in 0..n : k \in T
    BY <1>2, <1>3, UpTo
  <2> QED
    BY <2>1
<1> QED
  BY <1>1, <1>4 DEF T

(* A sum of numbers that are not negative is zero only when all of them are. *)
LEMMA TotalZero ==
  ASSUME NEW n \in Nat, NEW s \in [1..n -> Int], \A i \in 1..n : s[i] >= 0
  PROVE  Total(s) >= 0 /\ (Total(s) = 0 => \A i \in 1..n : s[i] = 0)
<1>1. PICK P \in [0..n -> Int] :
        /\ P[0] = 0 /\ Total(s) = P[n]
        /\ \A k \in 1..n : P[k] = P[k - 1] + s[k]
  BY TotalPrefix
<1> DEFINE T == {k \in 0..n : P[k] >= 0 /\ (P[k] = 0 => \A i \in 1..k : s[i] = 0)}
<1>2. 0 \in T
  BY <1>1
<1>3. ASSUME NEW k \in 1..n, k - 1 \in T PROVE k \in T
  <2>1. P[k - 1] >= 0 /\ P[k - 1] \in Int /\ s[k] \in Int /\ s[k] >= 0 /\ P[k] = P[k - 1] + s[k]
    BY <1>1, <1>3
  <2>2. P[k] = 0 => P[k - 1] = 0 /\ s[k] = 0
    BY <2>1
  <2>3. P[k] = 0 => \A i \in 1..k : s[i] = 0
    <3>1. \A i \in 1..k : i \in 1..k - 1 \/ i = k
      OBVIOUS
    <3> QED
      BY <1>3, <2>2, <3>1
  <2> QED
    BY <2>1, <2>3
<1> HIDE DEF T
<1>4. n \in T
  <2>1. \A k \in 0..n : k \in T
    BY <1>2, <1>3, UpTo
  <2> QED
    BY <2>1
<1> QED
  BY <1>1, <1>4 DEF T

(* Moving the first element to the end leaves the sum. *)
LEMMA TotalTurned ==
  ASSUME NEW n \in Nat \ {0}, NEW s \in [1..n -> Int], NEW t \in [1..n -> Int],
         \A i \in 1..n - 1 : t[i] = s[i + 1], t[n] = s[1]
  PROVE  Total(t) = Total(s)
<1>1. PICK P \in [0..n -> Int] :
        /\ P[0] = 0 /\ Total(s) = P[n]
        /\ \A k \in 1..n : P[k] = P[k - 1] + s[k]
  BY TotalPrefix
<1> DEFINE Q == [k \in 0..n |-> IF k = n THEN P[n] ELSE P[k + 1] - s[1]]
<1>2. Q \in [0..n -> Int]
  <2>1. \A k \in 0..n : k # n => P[k + 1] \in Int
    OBVIOUS
  <2> QED
    BY <2>1
<1>3. Q[0] = 0
  <2>1. 1 \in 1..n /\ 0 # n
    OBVIOUS
  <2>2. P[1] = P[0] + s[1]
    BY <1>1, <2>1
  <2> QED
    BY <1>1, <2>1, <2>2
<1>4. ASSUME NEW k \in 1..n PROVE Q[k] = Q[k - 1] + t[k]
  <2>1. Q[k - 1] = P[k] - s[1]
    <3>1. k - 1 \in 0..n /\ k - 1 # n /\ (k - 1) + 1 = k
      OBVIOUS
    <3> QED
      BY <3>1
  <2>2. CASE k = n
    <3>1. s[1] \in Int /\ P[n] \in Int
      OBVIOUS
    <3> QED
      BY <2>1, <2>2, <3>1
  <2>3. CASE k # n
    <3>1. k \in 1..n - 1 /\ k + 1 \in 1..n /\ (k + 1) - 1 = k
      BY <2>3
    <3>2. P[k + 1] = P[k] + s[k + 1]
      BY <1>1, <3>1
    <3>3. Q[k] = P[k + 1] - s[1]
      BY <2>3
    <3>4. PICK x \in Int, y \in Int, z \in Int : x = P[k] /\ y = s[k + 1] /\ z = s[1]
      <4>1. k \in 0..n /\ 1 \in 1..n
        OBVIOUS
      <4>2. P[k] \in Int /\ s[k + 1] \in Int /\ s[1] \in Int
        BY <3>1, <4>1
      <4> QED
        BY <4>2
    <3>5. Q[k] = (x + y) - z /\ Q[k - 1] = x - z
      BY <2>1, <3>2, <3>3, <3>4
    <3>6. t[k] = y
      BY <3>1, <3>4
    <3> QED
      BY <3>5, <3>6
  <2> QED
    BY <2>2, <2>3
<1> HIDE DEF Q
<1>5. Total(t) = Q[n]
  BY <1>2, <1>3, <1>4, TotalIs
<1> QED
  BY <1>1, <1>5 DEF Q

-----------------------------------------------------------------------------
(* Arranging a set or a list *)

(* Evaluating a list does not change it. *)
LEMMA EvaluatedSame ==
  ASSUME NEW n \in Nat, NEW S, NEW s \in [1..n -> S]
  PROVE  Evaluated(s) = s
<1>1. s \in Seq(S) /\ Len(s) = n
  OBVIOUS
<1>2. <<>> \in Seq(S) /\ Len(<<>>) = 0
  OBVIOUS
<1>3. Evaluated(s) \in Seq(S) /\ Len(Evaluated(s)) = n
  BY <1>1, <1>2 DEF Evaluated
<1>4. \A i \in 1..n : Evaluated(s)[i] = s[i]
  BY <1>1, <1>2 DEF Evaluated
<1> HIDE DEF Evaluated
<1> QED
  BY <1>1, <1>3, <1>4

(* R is a strict total order of S. *)
StrictOrder(R, S) ==
  /\ \A x \in S : <<x, x>> \notin R
  /\ \A x, y, z \in S : <<x, y>> \in R /\ <<y, z>> \in R => <<x, z>> \in R
  /\ \A x, y \in S : x = y \/ <<x, y>> \in R \/ <<y, x>> \in R
(* The elements before x, and the place of every element. *)
Under(x, S, R) == {y \in S : <<y, x>> \in R}
Placed(S, R) == {<<Cardinality(Under(x, S, R)) + 1, x>> : x \in S}
(* f lists the elements of S in the order R, each at one place. *)
Arranges(f, S, R) ==
  /\ f \in [1..Cardinality(S) -> S]
  /\ \A x \in S : \E k \in 1..Cardinality(S) : f[k] = x
  /\ \A j, k \in 1..Cardinality(S) : j < k <=> <<f[j], f[k]>> \in R

(* In a strict order of a finite set the places are those from one to its size. *)
LEMMA Placement ==
  ASSUME NEW S, IsFiniteSet(S), NEW R, StrictOrder(R, S)
  PROVE  \E place \in [S -> 1..Cardinality(S)] :
           /\ \A x \in S : place[x] = Cardinality(Under(x, S, R)) + 1
           /\ \A k \in 1..Cardinality(S) : \E x \in S : place[x] = k
           /\ \A x, y \in S : <<x, y>> \in R <=> place[x] < place[y]
           /\ \A x, y \in S : place[x] = place[y] => x = y
<1> DEFINE n == Cardinality(S)
           place == [x \in S |-> Cardinality(Under(x, S, R)) + 1]
<1>1. n \in Nat
  BY FS_CardinalityType
<1>2. ASSUME NEW x \in S
      PROVE  /\ IsFiniteSet(Under(x, S, R)) /\ Cardinality(Under(x, S, R)) \in Nat
             /\ Cardinality(Under(x, S, R)) < n
  <2>1. Under(x, S, R) \in SUBSET S /\ x \notin Under(x, S, R)
    BY DEF Under, StrictOrder
  <2>2. IsFiniteSet(Under(x, S, R)) /\ Cardinality(Under(x, S, R)) <= n
    BY <2>1, FS_Subset
  <2>3. Cardinality(Under(x, S, R)) # n
    BY <2>1, FS_Subset
  <2> QED
    BY <1>1, <2>2, <2>3, FS_CardinalityType
<1>3. place \in [S -> 1..n]
  <2>1. \A x \in S : Cardinality(Under(x, S, R)) + 1 \in 1..n
    BY <1>1, <1>2
  <2> QED
    BY <2>1
<1>4. ASSUME NEW x \in S, NEW y \in S, <<x, y>> \in R PROVE place[x] < place[y]
  <2>1. Under(x, S, R) \in SUBSET Under(y, S, R)
    BY <1>4 DEF Under, StrictOrder
  <2>2. x \in Under(y, S, R) /\ x \notin Under(x, S, R)
    BY <1>4 DEF Under, StrictOrder
  <2>3. IsFiniteSet(Under(y, S, R))
    BY <1>2
  <2>4. Cardinality(Under(x, S, R)) <= Cardinality(Under(y, S, R))
    BY <2>1, <2>3, FS_Subset
  <2>5. Cardinality(Under(x, S, R)) # Cardinality(Under(y, S, R))
    BY <2>1, <2>2, <2>3, FS_Subset
  <2> QED
    BY <1>2, <2>4, <2>5
<1>5. \A x, y \in S : x = y \/ place[x] < place[y] \/ place[y] < place[x]
  BY <1>4 DEF StrictOrder
<1>6. \A x \in S : place[x] \in Nat
  BY <1>1, <1>3
<1> HIDE DEF place
<1>7. \A x, y \in S : place[x] = place[y] => x = y
  BY <1>5, <1>6
<1>8. \A x, y \in S : <<x, y>> \in R <=> place[x] < place[y]
  <2> SUFFICES ASSUME NEW x \in S, NEW y \in S, place[x] < place[y] PROVE <<x, y>> \in R
    BY <1>4
  <2>1. x # y /\ <<y, x>> \notin R
    BY <1>4, <1>6
  <2> QED
    BY <2>1 DEF StrictOrder
<1>9. \A k \in 1..n : \E x \in S : place[x] = k
  <2>1. place \in Injection(S, 1..n)
    BY <1>3, <1>7 DEF Injection, IsInjective
  <2>2. IsFiniteSet(1..n) /\ Cardinality(1..n) = n
    BY <1>1, FS_Interval
  <2>3. place \in Surjection(S, 1..n)
    BY <2>1, <2>2, FS_Injection
  <2> QED
    BY <2>3 DEF Surjection
<1>10. \A x \in S : place[x] = Cardinality(Under(x, S, R)) + 1
  BY DEF place
<1> QED
  BY <1>3, <1>7, <1>8, <1>9, <1>10

(* So choosing the element of each place arranges the set. *)
LEMMA PlacesArrange ==
  ASSUME NEW S, IsFiniteSet(S), NEW R, StrictOrder(R, S), NEW placed,
         placed = Placed(S, R)
  PROVE  Arranges([k \in 1..Cardinality(S) |-> (CHOOSE p \in placed : p[1] = k)[2]], S, R)
<1> DEFINE n == Cardinality(S)
           f == [k \in 1..n |-> (CHOOSE p \in placed : p[1] = k)[2]]
<1>1. PICK place \in [S -> 1..n] :
        /\ \A x \in S : place[x] = Cardinality(Under(x, S, R)) + 1
        /\ \A k \in 1..n : \E x \in S : place[x] = k
        /\ \A x, y \in S : <<x, y>> \in R <=> place[x] < place[y]
        /\ \A x, y \in S : place[x] = place[y] => x = y
  BY Placement
<1>2. placed = {<<place[x], x>> : x \in S}
  BY <1>1 DEF Placed
<1>3. ASSUME NEW k \in 1..n PROVE f[k] \in S /\ place[f[k]] = k
  <2>0. PICK y \in S : place[y] = k
    BY <1>1
  <2>1. <<k, y>> \in placed
    BY <1>2, <2>0
  <2> DEFINE p == CHOOSE q \in placed : q[1] = k
  <2>2. p \in placed /\ p[1] = k
    BY <2>1
  <2>5. f[k] = p[2]
    OBVIOUS
  <2> HIDE DEF p, f
  <2>3. PICK x \in S : p = <<place[x], x>>
    BY <1>2, <2>2
  <2>4. f[k] = x /\ place[x] = k
    BY <2>2, <2>3, <2>5
  <2> QED
    BY <2>4
<1>4. f \in [1..n -> S]
  BY <1>3
<1>5. \A x \in S : f[place[x]] = x
  <2> SUFFICES ASSUME NEW x \in S PROVE f[place[x]] = x
    OBVIOUS
  <2>1. place[x] \in 1..n
    OBVIOUS
  <2>2. f[place[x]] \in S /\ place[f[place[x]]] = place[x]
    BY <1>3, <2>1
  <2> HIDE DEF f
  <2> QED
    BY <1>1, <2>2
<1> HIDE DEF f
<1>6. \A x \in S : \E k \in 1..n : f[k] = x
  BY <1>5
<1>7. \A j, k \in 1..n : j < k <=> <<f[j], f[k]>> \in R
  BY <1>1, <1>3
<1>8. Arranges(f, S, R)
  BY <1>4, <1>6, <1>7 DEF Arranges
<1> QED
  BY <1>8 DEF f

Rising(S) == {p \in S \X S : p[1] < p[2]}

(* Ascending arranges a finite set of numbers in their order. *)
LEMMA AscendingArranges ==
  ASSUME NEW S \in SUBSET Int, IsFiniteSet(S)
  PROVE  Arranges(Ascending(S), S, Rising(S))
<1> DEFINE R == Rising(S)
           placed == {<<Cardinality({y \in S : y < x}) + 1, x>> : x \in S}
           f == [k \in 1..Cardinality(S) |-> (CHOOSE p \in placed : p[1] = k)[2]]
<1>1. StrictOrder(R, S)
  BY DEF StrictOrder, Rising
<1>2. \A x \in S : {y \in S : y < x} = Under(x, S, R)
  BY DEF Under, Rising
<1>3. placed = Placed(S, R)
  BY <1>2 DEF Placed
<1>4. Ascending(S) = Evaluated(f)
  BY DEF Ascending, Arranged
<1>5. Arranges(f, S, R)
  <2> HIDE DEF placed, R
  <2> QED
    BY <1>1, <1>3, PlacesArrange
<1>6. Evaluated(f) = f
  <2> HIDE DEF f
  <2>1. f \in [1..Cardinality(S) -> S] /\ Cardinality(S) \in Nat
    BY <1>5, FS_CardinalityType DEF Arranges
  <2> QED
    BY <2>1, EvaluatedSame
<1> QED
  BY <1>4, <1>5, <1>6

-----------------------------------------------------------------------------
(* Ratios, sorting and ranking *)

(* Multiplying both sides by a positive number keeps a comparison. *)
LEMMA Scaled ==
  ASSUME NEW a \in Int, NEW b \in Int, NEW c \in Nat \ {0}
  PROVE  (a <= b <=> a * c <= b * c) /\ (a = b <=> a * c = b * c)
<1>1. a < b => a * c < b * c
  <2>1. PICK e \in Nat : a < b => b = a + e /\ e > 0
    <3>1. CASE a < b
      <4>1. b - a \in Nat /\ b = a + (b - a) /\ b - a > 0
        BY <3>1
      <4> QED
        BY <4>1
    <3> QED
      BY <3>1
  <2>2. (a + e) * c = a * c + e * c
    OBVIOUS
  <2>3. e > 0 => e * c > 0
    OBVIOUS
  <2>4. a * c \in Int /\ e * c \in Int
    OBVIOUS
  <2> QED
    BY <2>1, <2>2, <2>3, <2>4
<1>2. b < a => b * c < a * c
  <2>1. PICK e \in Nat : b < a => a = b + e /\ e > 0
    <3>1. CASE b < a
      <4>1. a - b \in Nat /\ a = b + (a - b) /\ a - b > 0
        BY <3>1
      <4> QED
        BY <4>1
    <3> QED
      BY <3>1
  <2>2. (b + e) * c = b * c + e * c
    OBVIOUS
  <2>3. e > 0 => e * c > 0
    OBVIOUS
  <2>4. b * c \in Int /\ e * c \in Int
    OBVIOUS
  <2> QED
    BY <2>1, <2>2, <2>3, <2>4
<1>3. a * c \in Int /\ b * c \in Int
  OBVIOUS
<1> QED
  BY <1>1, <1>2, <1>3

(* A product grows with its factor. *)
LEMMA Monotone ==
  ASSUME NEW a \in Int, NEW b \in Int, NEW c \in Nat, a <= b
  PROVE  a * c <= b * c
<1>1. CASE c = 0
  BY <1>1
<1>2. CASE c # 0
  BY <1>2, Scaled
<1> QED
  BY <1>1, <1>2

(* AtMost orders the ratios, and ratios are the Same when each is at most the other. *)
LEMMA RatioOrder ==
  /\ \A a \in Ratios : AtMost(a, a)
  /\ \A a, b \in Ratios : AtMost(a, b) \/ AtMost(b, a)
  /\ \A a, b \in Ratios : Same(a, b) <=> AtMost(a, b) /\ AtMost(b, a)
  /\ \A a, b, c \in Ratios : AtMost(a, b) /\ AtMost(b, c) => AtMost(a, c)
<1>1. \A a \in Ratios : a[1] \in Int /\ a[2] \in Nat \ {0}
  BY DEF Ratios
<1>2. \A a, b \in Ratios : a[1] * b[2] \in Int
  BY <1>1
<1>3. ASSUME NEW a \in Ratios, NEW b \in Ratios, NEW c \in Ratios, AtMost(a, b), AtMost(b, c)
      PROVE  AtMost(a, c)
  <2>1. PICK a1 \in Int, a2 \in Nat \ {0}, b1 \in Int, b2 \in Nat \ {0},
             c1 \in Int, c2 \in Nat \ {0} :
          a1 = a[1] /\ a2 = a[2] /\ b1 = b[1] /\ b2 = b[2] /\ c1 = c[1] /\ c2 = c[2]
    BY <1>1
  <2>2. a1 * b2 <= b1 * a2 /\ b1 * c2 <= c1 * b2
    BY <1>3, <2>1 DEF AtMost
  <2>3. (a1 * b2) * c2 <= (b1 * a2) * c2
    <3>1. a1 * b2 \in Int /\ b1 * a2 \in Int
      OBVIOUS
    <3> QED
      BY <2>2, <3>1, Scaled
  <2>4. (b1 * c2) * a2 <= (c1 * b2) * a2
    <3>1. b1 * c2 \in Int /\ c1 * b2 \in Int
      OBVIOUS
    <3> QED
      BY <2>2, <3>1, Scaled
  <2>5. /\ (a1 * b2) * c2 = (a1 * c2) * b2
        /\ (b1 * a2) * c2 = (b1 * c2) * a2
        /\ (c1 * b2) * a2 = (c1 * a2) * b2
    OBVIOUS
  <2>6. (a1 * c2) * b2 <= (c1 * a2) * b2
    <3>1. /\ (a1 * b2) * c2 \in Int /\ (b1 * a2) * c2 \in Int
          /\ (b1 * c2) * a2 \in Int /\ (c1 * b2) * a2 \in Int
      OBVIOUS
    <3> QED
      BY <2>3, <2>4, <2>5, <3>1
  <2>7. a1 * c2 <= c1 * a2
    <3>1. a1 * c2 \in Int /\ c1 * a2 \in Int
      OBVIOUS
    <3> QED
      BY <2>6, <3>1, Scaled
  <2> QED
    BY <2>1, <2>7 DEF AtMost
<1> QED
  BY <1>1, <1>2, <1>3 DEF AtMost, Same

(* The order of positions in a stable sort. *)
Firmly(s) ==
  {p \in (DOMAIN s) \X (DOMAIN s) :
     s[p[1]] < s[p[2]] \/ (s[p[1]] = s[p[2]] /\ p[1] < p[2])}

(* Stable arranges the positions of a list. *)
LEMMA StableArranges ==
  ASSUME NEW n \in Nat, NEW s \in [1..n -> Int]
  PROVE  Cardinality(1..n) = n /\ Arranges(Stable(s), 1..n, Firmly(s))
<1> DEFINE S == 1..n
           R == Firmly(s)
           placed == {<<Cardinality({y \in DOMAIN s : s[y] < s[x] \/ (s[y] = s[x] /\ y < x)}) + 1, x>>
                        : x \in DOMAIN s}
           f == [k \in 1..Cardinality(DOMAIN s) |-> (CHOOSE p \in placed : p[1] = k)[2]]
<1>0. IsFiniteSet(S) /\ Cardinality(S) = n
  BY FS_Interval
<1>a. \A x, y \in S : <<x, y>> \in R <=> s[x] < s[y] \/ (s[x] = s[y] /\ x < y)
  BY DEF Firmly
<1>1. StrictOrder(R, S)
  <2>1. \A x \in S : s[x] \in Int /\ x \in Int
    OBVIOUS
  <2> HIDE DEF R, S
  <2>2. \A x \in S : <<x, x>> \notin R
    BY <1>a, <2>1
  <2>3. ASSUME NEW x \in S, NEW y \in S, NEW z \in S, <<x, y>> \in R, <<y, z>> \in R
        PROVE  <<x, z>> \in R
    <3>1. /\ s[x] < s[y] \/ (s[x] = s[y] /\ x < y)
          /\ s[y] < s[z] \/ (s[y] = s[z] /\ y < z)
      BY <1>a, <2>3
    <3>2. s[x] < s[z] \/ (s[x] = s[z] /\ x < z)
      BY <2>1, <3>1
    <3> QED
      BY <1>a, <3>2
  <2>4. ASSUME NEW x \in S, NEW y \in S PROVE x = y \/ <<x, y>> \in R \/ <<y, x>> \in R
    <3>1. \/ s[x] < s[y] \/ (s[x] = s[y] /\ x < y)
          \/ s[y] < s[x] \/ (s[y] = s[x] /\ y < x)
          \/ x = y
      BY <2>1
    <3> QED
      BY <1>a, <3>1
  <2> QED
    BY <2>2, <2>3, <2>4 DEF StrictOrder
<1>2. \A x \in S : {y \in DOMAIN s : s[y] < s[x] \/ (s[y] = s[x] /\ y < x)} = Under(x, S, R)
  BY <1>a DEF Under
<1>3. placed = Placed(S, R)
  BY <1>2 DEF Placed
<1>4. Stable(s) = Evaluated(f)
  BY DEF Stable, Arranged
<1>5. Arranges(f, S, R)
  <2>1. DOMAIN s = S
    OBVIOUS
  <2> HIDE DEF placed, R, S
  <2>2. Arranges([k \in 1..Cardinality(S) |-> (CHOOSE p \in placed : p[1] = k)[2]], S, R)
    BY <1>0, <1>1, <1>3, PlacesArrange
  <2> QED
    BY <2>1, <2>2
<1>6. Evaluated(f) = f
  <2> HIDE DEF f
  <2>1. f \in [1..n -> S]
    BY <1>0, <1>5 DEF Arranges
  <2> QED
    BY <2>1, EvaluatedSame
<1> QED
  BY <1>0, <1>4, <1>5, <1>6

(* o holds the elements of s in ascending order. *)
Ascends(o, s, n) ==
  /\ o \in [1..n -> Int]
  /\ \A j, k \in 1..n : j <= k => o[j] <= o[k]
  /\ \A k \in 1..n : \E i \in 1..n : o[k] = s[i]
  /\ \A i \in 1..n : \E k \in 1..n : o[k] = s[i]

(* Sorted puts the elements of a list in ascending order (sorted()). *)
LEMMA SortedAscends ==
  ASSUME NEW n \in Nat, NEW s \in [1..n -> Int]
  PROVE  Ascends(Sorted(s), s, n)
<1> DEFINE o == Stable(s)
<1>1. /\ o \in [1..n -> 1..n]
      /\ \A x \in 1..n : \E k \in 1..n : o[k] = x
      /\ \A j, k \in 1..n : j < k <=> <<o[j], o[k]>> \in Firmly(s)
  BY StableArranges DEF Arranges
<1>2. Sorted(s) = [k \in 1..n |-> s[o[k]]]
  BY <1>1 DEF Sorted
<1> HIDE DEF o
<1>3. \A k \in 1..n : o[k] \in 1..n /\ s[o[k]] \in Int
  BY <1>1
<1>4. ASSUME NEW j \in 1..n, NEW k \in 1..n, j <= k PROVE s[o[j]] <= s[o[k]]
  <2>1. CASE j = k
    BY <1>3, <2>1
  <2>2. CASE j < k
    <3>1. <<o[j], o[k]>> \in Firmly(s)
      BY <1>1, <2>2
    <3>2. s[o[j]] < s[o[k]] \/ s[o[j]] = s[o[k]]
      BY <3>1 DEF Firmly
    <3> QED
      BY <1>3, <3>2
  <2> QED
    BY <1>4, <2>1, <2>2
<1>5. \A k \in 1..n : Sorted(s)[k] = s[o[k]]
  BY <1>2
<1>6. Sorted(s) \in [1..n -> Int]
  BY <1>2, <1>3
<1>7. \A j, k \in 1..n : j <= k => Sorted(s)[j] <= Sorted(s)[k]
  BY <1>4, <1>5
<1>8. \A k \in 1..n : \E i \in 1..n : Sorted(s)[k] = s[i]
  BY <1>3, <1>5
<1>9. ASSUME NEW i \in 1..n PROVE \E k \in 1..n : Sorted(s)[k] = s[i]
  <2>1. PICK k \in 1..n : o[k] = i
    BY <1>1
  <2> QED
    BY <1>5, <2>1
<1> QED
  BY <1>6, <1>7, <1>8, <1>9 DEF Ascends

(* The order of the tests by p-value, then by position. *)
Ranking(ps) ==
  {p \in (DOMAIN ps) \X (DOMAIN ps) : ~AtMost(ps[p[2]], ps[p[1]])
                                       \/ (Same(ps[p[1]], ps[p[2]]) /\ p[1] < p[2])}

(* Ranked arranges the tests in that order. *)
LEMMA RankedArranges ==
  ASSUME NEW n \in Nat, NEW ps \in [1..n -> Ratios]
  PROVE  /\ Cardinality(1..n) = n /\ Arranges(Ranked(ps), 1..n, Ranking(ps))
         /\ StrictOrder(Ranking(ps), 1..n)
<1> DEFINE S == 1..n
           R == Ranking(ps)
           placed == {<<Cardinality({y \in DOMAIN ps : ~AtMost(ps[x], ps[y])
                                      \/ (Same(ps[y], ps[x]) /\ y < x)}) + 1, x>> : x \in DOMAIN ps}
           f == [k \in 1..Cardinality(DOMAIN ps) |-> (CHOOSE p \in placed : p[1] = k)[2]]
<1>0. IsFiniteSet(S) /\ Cardinality(S) = n
  BY FS_Interval
<1>a. \A x, y \in S : <<x, y>> \in R <=> ~AtMost(ps[y], ps[x]) \/ (Same(ps[x], ps[y]) /\ x < y)
  BY DEF Ranking
<1>1. StrictOrder(R, S)
  <2>1. \A x \in S : ps[x] \in Ratios /\ x \in Int
    OBVIOUS
  <2> HIDE DEF R, S
  <2> QED
    BY <1>a, <2>1, RatioOrder DEF StrictOrder
<1>2. \A x \in S : {y \in DOMAIN ps : ~AtMost(ps[x], ps[y]) \/ (Same(ps[y], ps[x]) /\ y < x)}
                     = Under(x, S, R)
  BY <1>a DEF Under
<1>3. placed = Placed(S, R)
  BY <1>2 DEF Placed
<1>4. Ranked(ps) = Evaluated(f)
  BY DEF Ranked, Arranged
<1>5. Arranges(f, S, R)
  <2>1. DOMAIN ps = S
    OBVIOUS
  <2> HIDE DEF placed, R, S
  <2>2. Arranges([k \in 1..Cardinality(S) |-> (CHOOSE p \in placed : p[1] = k)[2]], S, R)
    BY <1>0, <1>1, <1>3, PlacesArrange
  <2> QED
    BY <2>1, <2>2
<1>6. Evaluated(f) = f
  <2> HIDE DEF f
  <2>1. f \in [1..n -> S]
    BY <1>0, <1>5 DEF Arranges
  <2> QED
    BY <2>1, EvaluatedSame
<1> QED
  BY <1>0, <1>1, <1>4, <1>5, <1>6

-----------------------------------------------------------------------------
(* Percentiles *)

(* A point between two values lies between them, the further the higher. *)
LEMMA Between ==
  ASSUME NEW a \in Int, NEW b \in Int, a <= b, NEW r \in 0..100
  PROVE  /\ a * (100 - r) + b * r = 100 * a + (b - a) * r
         /\ a * (100 - r) + b * r \in Int
         /\ 100 * a <= a * (100 - r) + b * r /\ a * (100 - r) + b * r <= 100 * b
         /\ \A q \in 0..r : a * (100 - q) + b * q <= a * (100 - r) + b * r
<1>1. PICK d \in Nat : b = a + d
  <2>1. b - a \in Nat /\ b = a + (b - a)
    OBVIOUS
  <2> QED
    BY <2>1
<1>2. \A q \in 0..100 : a * (100 - q) + b * q = 100 * a + d * q
  <2> SUFFICES ASSUME NEW q \in 0..100 PROVE a * (100 - q) + (a + d) * q = 100 * a + d * q
    BY <1>1
  <2> QED
    OBVIOUS
<1>3. d * r >= 0 /\ d * r <= d * 100 /\ d * r \in Int
  <2>1. r * d <= 100 * d /\ 0 * d <= r * d
    BY Monotone
  <2> QED
    BY <2>1
<1>4. \A q \in 0..r : d * q <= d * r /\ d * q \in Int /\ q \in 0..100
  <2> SUFFICES ASSUME NEW q \in 0..r PROVE d * q <= d * r
    OBVIOUS
  <2>1. q * d <= r * d
    BY Monotone
  <2> QED
    BY <2>1
<1>5. b - a = d
  BY <1>1
<1>6. a * (100 - r) + b * r = 100 * a + d * r
  BY <1>2
<1>7. \A q \in 0..r : a * (100 - q) + b * q <= a * (100 - r) + b * r
  BY <1>2, <1>3, <1>4
<1> QED
  BY <1>1, <1>3, <1>5, <1>6, <1>7

(* Two numbers in order, and a number of hundredths. *)
Neighbours(a, b, r) == a \in Int /\ b \in Int /\ a <= b /\ r \in 0..100

(* What lies r hundredths of the way from one to the other is between them. *)
LEMMA Interpolated ==
  ASSUME NEW a, NEW b, NEW r, Neighbours(a, b, r)
  PROVE  /\ a * (100 - r) + b * r \in Int
         /\ 100 * a <= a * (100 - r) + b * r /\ a * (100 - r) + b * r <= 100 * b
<1>1. a \in Int /\ b \in Int /\ a <= b /\ r \in 0..100
  BY DEF Neighbours
<1> QED
  BY <1>1, Between

(* v is the percentile of o at position f and r hundredths, times 100. *)
Ascending100(o, n, f, r, v) ==
  /\ f \in 0..n - 1 /\ r \in 0..99 /\ v \in Int
  /\ IF r = 0 THEN v = 100 * o[f + 1]
     ELSE /\ f + 2 \in 1..n
          /\ v = o[f + 1] * (100 - r) + o[f + 2] * r
          /\ 100 * o[f + 1] <= v /\ v <= 100 * o[f + 2]
(* A ratio that is v hundredths. *)
Hundredth(ratio, v) ==
  ratio \in Ratios /\ (ratio = <<v, 100>> \/ (ratio[2] = 1 /\ 100 * ratio[1] = v))

(* A percentile interpolates between two neighbours (_compute_percentile). *)
LEMMA PercentileAt ==
  ASSUME NEW n \in Nat \ {0}, NEW o \in [1..n -> Int], NEW p \in 0..100,
         \A j, k \in 1..n : j <= k => o[j] <= o[k]
  PROVE  \E f, r, v : /\ p * (n - 1) = 100 * f + r
                      /\ Ascending100(o, n, f, r, v)
                      /\ Hundredth(_compute_percentile(o, p), v)
<1> DEFINE k == p * (n - 1)
           f == k \div 100
           r == k % 100
<1>1. Len(o) = n
  OBVIOUS
<1>2. k \in Nat /\ k <= 100 * (n - 1)
  <2>1. 0 * (n - 1) <= p * (n - 1) /\ p * (n - 1) <= 100 * (n - 1)
    BY Monotone
  <2>2. p * (n - 1) \in Int
    OBVIOUS
  <2> QED
    BY <2>1, <2>2
<1>3. _compute_percentile(o, p) = IF r = 0 THEN <<o[f + 1], 1>>
                                  ELSE <<o[f + 1] * (100 - r) + o[f + 2] * r, 100>>
  BY <1>1 DEF _compute_percentile
<1> HIDE DEF k
<1>4. k = 100 * f + r /\ f \in Int /\ r \in 0..99
  BY <1>2
<1> HIDE DEF f, r
<1>5. f \in 0..n - 1 /\ (r # 0 => f + 2 \in 1..n)
  BY <1>2, <1>4
<1>6. CASE r = 0
  <2>1. o[f + 1] \in Int
    BY <1>5
  <2>2. _compute_percentile(o, p) = <<o[f + 1], 1>>
    BY <1>3, <1>6
  <2>3. Hundredth(_compute_percentile(o, p), 100 * o[f + 1])
    BY <2>1, <2>2 DEF Hundredth, Ratios
  <2>4. Ascending100(o, n, f, r, 100 * o[f + 1])
    BY <1>4, <1>5, <1>6, <2>1 DEF Ascending100
  <2> QED
    BY <1>4, <2>3, <2>4 DEF k
<1>7. CASE r # 0
  <2>1. o[f + 1] \in Int /\ o[f + 2] \in Int /\ o[f + 1] <= o[f + 2]
    <3>1. f + 1 \in 1..n /\ f + 2 \in 1..n /\ f + 1 <= f + 2
      BY <1>5, <1>7
    <3> QED
      BY <3>1
  <2> DEFINE v == o[f + 1] * (100 - r) + o[f + 2] * r
  <2>2. v \in Int /\ 100 * o[f + 1] <= v /\ v <= 100 * o[f + 2]
    <3>1. r \in 0..100
      BY <1>4
    <3>2. Neighbours(o[f + 1], o[f + 2], r)
      BY <2>1, <3>1 DEF Neighbours
    <3> QED
      BY <3>2, Interpolated
  <2>3. _compute_percentile(o, p) = <<v, 100>>
    BY <1>3, <1>7
  <2>4. Hundredth(_compute_percentile(o, p), v)
    BY <2>2, <2>3 DEF Hundredth, Ratios
  <2>5. Ascending100(o, n, f, r, v)
    BY <1>4, <1>5, <1>7, <2>2 DEF Ascending100
  <2> QED
    BY <1>4, <2>4, <2>5 DEF k
<1> QED
  BY <1>6, <1>7

(* Ratios in hundredths are ordered by their numbers of hundredths. *)
LEMMA HundredthOrder ==
  ASSUME NEW a, NEW b, NEW v \in Int, NEW w \in Int, Hundredth(a, v), Hundredth(b, w), v <= w
  PROVE  AtMost(a, b)
<1>1. a[1] \in Int /\ b[1] \in Int
  BY DEF Hundredth, Ratios
<1> QED
  BY <1>1 DEF Hundredth, AtMost

(* Percentiles of values in ascending order keep their order. *)
LEMMA PercentilesAscend ==
  ASSUME NEW n \in Nat \ {0}, NEW o \in [1..n -> Int], NEW p \in 0..100, NEW q \in p..100,
         \A j, k \in 1..n : j <= k => o[j] <= o[k]
  PROVE  AtMost(_compute_percentile(o, p), _compute_percentile(o, q))
<1>1. PICK f, r, v : /\ p * (n - 1) = 100 * f + r
                     /\ Ascending100(o, n, f, r, v)
                     /\ Hundredth(_compute_percentile(o, p), v)
  BY PercentileAt
<1>2. PICK g, s, w : /\ q * (n - 1) = 100 * g + s
                     /\ Ascending100(o, n, g, s, w)
                     /\ Hundredth(_compute_percentile(o, q), w)
  <2>1. q \in 0..100
    OBVIOUS
  <2> QED
    BY <2>1, PercentileAt
<1>3. f \in 0..n - 1 /\ r \in 0..99 /\ v \in Int /\ g \in 0..n - 1 /\ s \in 0..99 /\ w \in Int
  BY <1>1, <1>2 DEF Ascending100
<1>4. 100 * f + r <= 100 * g + s
  <2>1. p * (n - 1) <= q * (n - 1)
    BY Monotone
  <2> QED
    BY <1>1, <1>2, <2>1
<1>5. \A k \in 1..n : o[k] \in Int
  OBVIOUS
<1>6. v <= w
  <2>1. CASE f = g
    <3>1. r <= s
      BY <1>3, <1>4, <2>1
    <3>2. CASE r = 0
      <4>1. v = 100 * o[f + 1]
        BY <1>1, <3>2 DEF Ascending100
      <4>2. 100 * o[f + 1] <= w
        <5>1. o[f + 1] \in Int
          BY <1>3, <1>5
        <5> QED
          BY <1>2, <1>3, <2>1, <5>1 DEF Ascending100
      <4> QED
        BY <4>1, <4>2
    <3>3. CASE r # 0
      <4>1. /\ v = o[f + 1] * (100 - r) + o[f + 2] * r
            /\ w = o[f + 1] * (100 - s) + o[f + 2] * s
            /\ f + 2 \in 1..n
        BY <1>1, <1>2, <1>3, <2>1, <3>1, <3>3 DEF Ascending100
      <4>2. o[f + 1] \in Int /\ o[f + 2] \in Int /\ o[f + 1] <= o[f + 2]
        <5>1. f + 1 \in 1..n /\ f + 1 <= f + 2
          BY <1>3, <4>1
        <5> QED
          BY <4>1, <5>1
      <4>3. s \in 0..100 /\ r \in 0..s
        BY <1>3, <3>1
      <4> QED
        BY <4>1, <4>2, <4>3, Between
    <3> QED
      BY <3>2, <3>3
  <2>2. CASE f # g
    <3>1. f + 1 <= g
      BY <1>3, <1>4, <2>2
    <3>2. f + 1 \in 1..n /\ f + 2 \in 1..n /\ g + 1 \in 1..n
      BY <1>3, <3>1
    <3>3. /\ o[f + 1] \in Int /\ o[f + 2] \in Int /\ o[g + 1] \in Int
          /\ o[f + 1] <= o[f + 2] /\ o[f + 2] <= o[g + 1]
      BY <1>3, <3>1, <3>2
    <3>4. v <= 100 * o[f + 2]
      BY <1>1, <3>3 DEF Ascending100
    <3>5. 100 * o[g + 1] <= w
      BY <1>2, <3>3 DEF Ascending100
    <3> QED
      BY <1>3, <3>3, <3>4, <3>5
  <2> QED
    BY <2>1, <2>2
<1> QED
  BY <1>1, <1>2, <1>3, <1>6, HundredthOrder

(* They lie between the least and the greatest value. *)
LEMMA PercentileWithin ==
  ASSUME NEW n \in Nat \ {0}, NEW o \in [1..n -> Int], NEW p \in 0..100,
         \A j, k \in 1..n : j <= k => o[j] <= o[k]
  PROVE  /\ _compute_percentile(o, p) \in Ratios
         /\ AtMost(<<o[1], 1>>, _compute_percentile(o, p))
         /\ AtMost(_compute_percentile(o, p), <<o[n], 1>>)
<1>1. PICK f, r, v : /\ p * (n - 1) = 100 * f + r
                     /\ Ascending100(o, n, f, r, v)
                     /\ Hundredth(_compute_percentile(o, p), v)
  BY PercentileAt
<1>2. f \in 0..n - 1 /\ r \in 0..99 /\ v \in Int
  BY <1>1 DEF Ascending100
<1>3. \A k \in 1..n : o[k] \in Int /\ o[1] <= o[k] /\ o[k] <= o[n]
  OBVIOUS
<1>4. 100 * o[1] <= v /\ v <= 100 * o[n]
  <2>1. f + 1 \in 1..n
    BY <1>2
  <2>2. CASE r = 0
    <3>1. v = 100 * o[f + 1]
      BY <1>1, <2>2 DEF Ascending100
    <3>2. o[1] \in Int /\ o[n] \in Int /\ o[f + 1] \in Int /\ o[1] <= o[f + 1] /\ o[f + 1] <= o[n]
      BY <1>3, <2>1
    <3> QED
      BY <3>1, <3>2
  <2>3. CASE r # 0
    <3>1. f + 2 \in 1..n /\ 100 * o[f + 1] <= v /\ v <= 100 * o[f + 2]
      BY <1>1, <2>3 DEF Ascending100
    <3>2. /\ o[1] \in Int /\ o[n] \in Int /\ o[f + 1] \in Int /\ o[f + 2] \in Int
          /\ o[1] <= o[f + 1] /\ o[f + 2] <= o[n]
      BY <1>3, <2>1, <3>1
    <3> QED
      BY <1>2, <3>1, <3>2
  <2> QED
    BY <2>2, <2>3
<1>5. o[1] \in Int /\ o[n] \in Int
  BY <1>3
<1>6. Hundredth(<<o[1], 1>>, 100 * o[1]) /\ Hundredth(<<o[n], 1>>, 100 * o[n])
  BY <1>5 DEF Hundredth, Ratios
<1>7. 100 * o[1] \in Int /\ 100 * o[n] \in Int
  BY <1>5
<1> QED
  BY <1>1, <1>2, <1>4, <1>6, <1>7, HundredthOrder DEF Hundredth

-----------------------------------------------------------------------------
(* The figures of a metric *)

(* n times the sum of the squares is at least the square of the sum, and   *)
(* equal to it only when all values are the same.                          *)
LEMMA Variance ==
  ASSUME NEW n \in Nat \ {0}, NEW s \in [1..n -> Int]
  PROVE  /\ Squares(s) \in Int /\ Total(s) \in Int
         /\ n * Squares(s) = Total(s) * Total(s) => \A i, j \in 1..n : s[i] = s[j]
         /\ (\A i, j \in 1..n : s[i] = s[j]) => n * Squares(s) = Total(s) * Total(s)
<1> DEFINE q == [i \in 1..n |-> s[i] * s[i]]
<1>1. q \in [1..n -> Int]
  OBVIOUS
<1>2. Squares(s) = Total(q)
  <2>1. DOMAIN s = 1..n
    OBVIOUS
  <2> QED
    BY <2>1 DEF Squares
<1>3. \A i \in 1..n : q[i] = s[i] * s[i]
  OBVIOUS
<1> HIDE DEF q
<1>4. PICK T \in Int, Q \in Int : T = Total(s) /\ Q = Total(q)
  BY <1>1, TotalType
<1>5. ASSUME n * Q = T * T PROVE \A i, j \in 1..n : s[i] = s[j]
  <2> DEFINE d == [i \in 1..n |-> (n * s[i] - T) * (n * s[i] - T)]
  <2>1. d \in [1..n -> Int]
    OBVIOUS
  <2>2. PICK a \in Int, b \in Int, c \in Int : a = n * n /\ b = -2 * n * T /\ c = T * T
    OBVIOUS
  <2>3. ASSUME NEW i \in 1..n PROVE d[i] = a * q[i] + b * s[i] + c
    <3>1. PICK x \in Int : x = s[i]
      OBVIOUS
    <3>2. d[i] = (n * x - T) * (n * x - T) /\ q[i] = x * x
      BY <1>3, <3>1
    <3>3. (n * x - T) * (n * x - T) = (n * n) * (x * x) + (-2 * n * T) * x + T * T
      OBVIOUS
    <3> QED
      BY <2>2, <3>1, <3>2, <3>3
  <2>4. \A i \in 1..n : d[i] >= 0
    <3> SUFFICES ASSUME NEW i \in 1..n PROVE d[i] >= 0
      OBVIOUS
    <3>1. PICK y \in Int : y = n * s[i] - T
      OBVIOUS
    <3>2. y * y >= 0
      OBVIOUS
    <3> QED
      BY <3>1, <3>2
  <2>5. \A i \in 1..n : d[i] = 0 => n * s[i] = T
    <3> SUFFICES ASSUME NEW i \in 1..n, d[i] = 0 PROVE n * s[i] = T
      OBVIOUS
    <3>1. PICK y \in Int : y = n * s[i] - T
      OBVIOUS
    <3>2. y * y = 0
      BY <3>1
    <3>3. y = 0
      BY <3>2
    <3>4. n * s[i] \in Int
      OBVIOUS
    <3> QED
      BY <3>1, <3>3, <3>4
  <2> HIDE DEF d
  <2>6. Total(d) = a * Total(q) + b * Total(s) + c * n
    <3>1. Affine(d, n, a, q, b, s, c)
      BY <1>1, <2>1, <2>3 DEF Affine
    <3> QED
      BY <3>1, TotalAffine
  <2>7. a * Q + b * T + c * n = 0
    <3>1. (n * n) * Q + (-2 * n * T) * T + (T * T) * n = n * (n * Q - T * T)
      OBVIOUS
    <3>2. n * Q - T * T = 0
      BY <1>5
    <3> QED
      BY <2>2, <3>1, <3>2
  <2>8. Total(d) = 0
    BY <1>4, <2>6, <2>7
  <2>9. \A i \in 1..n : n * s[i] = T
    BY <2>1, <2>4, <2>5, <2>8, TotalZero
  <2>10. ASSUME NEW i \in 1..n, NEW j \in 1..n PROVE s[i] = s[j]
    <3>1. PICK x \in Int, y \in Int : x = s[i] /\ y = s[j]
      OBVIOUS
    <3>2. x * n = y * n
      BY <2>9, <3>1
    <3> QED
      BY <3>1, <3>2, Scaled
  <2> QED
    BY <2>10
<1>6. ASSUME \A i, j \in 1..n : s[i] = s[j] PROVE n * Q = T * T
  <2>1. PICK c \in Int : c = s[1]
    OBVIOUS
  <2>2. PICK e \in Int : e = c * c
    OBVIOUS
  <2>3. \A i \in 1..n : s[i] = c /\ q[i] = e
    BY <1>3, <1>6, <2>1, <2>2
  <2>4. n * c <= T /\ T <= n * c
    <3>1. \A i \in 1..n : c <= s[i] /\ s[i] <= c
      BY <2>3
    <3> QED
      BY <1>4, <3>1, TotalBounds
  <2>5. n * e <= Q /\ Q <= n * e
    <3>1. \A i \in 1..n : e <= q[i] /\ q[i] <= e
      BY <2>3
    <3> QED
      BY <1>1, <1>4, <3>1, TotalBounds
  <2>6. T = n * c /\ Q = n * (c * c)
    BY <2>2, <2>4, <2>5
  <2>7. n * (n * (c * c)) = (n * c) * (n * c)
    OBVIOUS
  <2> QED
    BY <2>6, <2>7
<1> QED
  BY <1>2, <1>4, <1>5, <1>6

(* The deviation is a ratio, and zero when all values are the same (_compute_std). *)
LEMMA StdRatio ==
  ASSUME NEW n \in Nat \ {0}, NEW s \in [1..n -> Int]
  PROVE  /\ _compute_std(s) \in Ratios
         /\ Same(_compute_std(s), Zero) <=> \A i, j \in 1..n : s[i] = s[j]
<1>1. Len(s) = n
  OBVIOUS
<1>2. CASE n < 2
  <2>1. _compute_std(s) = Zero
    BY <1>1, <1>2 DEF _compute_std
  <2>2. n = 1
    BY <1>2
  <2> QED
    BY <2>1, <2>2 DEF Same, Zero, Ratios
<1>3. CASE n >= 2
  <2> DEFINE v == n * Squares(s) - Total(s) * Total(s)
             w == n * (n - 1)
  <2>1. _compute_std(s) = <<v, w>>
    BY <1>1, <1>3 DEF _compute_std
  <2>2. v \in Int /\ (v = 0 <=> \A i, j \in 1..n : s[i] = s[j])
    <3>1. PICK T \in Int, Q \in Int : T = Total(s) /\ Q = Squares(s)
      BY Variance
    <3>2. v = n * Q - T * T /\ n * Q \in Int /\ T * T \in Int
      BY <3>1
    <3>3. n * Q = T * T <=> \A i, j \in 1..n : s[i] = s[j]
      BY <3>1, Variance
    <3> QED
      BY <3>2, <3>3
  <2>3. w \in Nat \ {0}
    BY <1>3
  <2> HIDE DEF v, w
  <2>4. Same(<<v, w>>, Zero) <=> v = 0
    BY <2>2, <2>3 DEF Same, Zero
  <2> QED
    BY <2>1, <2>2, <2>3, <2>4 DEF Ratios
<1> QED
  BY <1>2, <1>3

(* The mean lies between the bounds of the values. *)
LEMMA MeanWithin ==
  ASSUME NEW n \in Nat \ {0}, NEW s \in [1..n -> Int], NEW lo \in Int, NEW hi \in Int,
         \A i \in 1..n : lo <= s[i] /\ s[i] <= hi
  PROVE  mean(s) \in Ratios /\ AtMost(<<lo, 1>>, mean(s)) /\ AtMost(mean(s), <<hi, 1>>)
<1>1. mean(s) = <<Total(s), n>> /\ Total(s) \in Int
  BY TotalType DEF mean
<1>2. n * lo <= Total(s) /\ Total(s) <= n * hi
  BY TotalBounds
<1> QED
  BY <1>1, <1>2 DEF AtMost, Ratios

(* What a report shows of the computed values of a metric. *)
Upward == <<"min", "p50", "p75", "p90", "p95", "p99", "max">>
(* What the figures of one metric must satisfy. *)
FiguresOrdered(of) ==
  /\ \A i \in 1..Len(Upward) - 1 : AtMost(of[Upward[i]], of[Upward[i + 1]])
  /\ AtMost(of.min, of.mean) /\ AtMost(of.mean, of.max)
  /\ Same(of.std, Zero) <=> Same(of.min, of.max)

(* The figures computed from one or more numbers satisfy it. *)
LEMMA FiguresSound ==
  ASSUME NEW n \in Nat \ {0}, NEW s \in [1..n -> Int]
  PROVE  /\ \A x \in DOMAIN Figures(s) : Figures(s)[x] \in Ratios
         /\ Figures(s).count = <<n, 1>>
         /\ FiguresOrdered(Figures(s))
         /\ DOMAIN Figures(s) = {"count", "mean", "median", "min", "max", "std",
                                 "p50", "p75", "p90", "p95", "p99"}
<1> DEFINE o == Sorted(s)
           of == Figures(s)
<1>1. /\ o \in [1..n -> Int]
      /\ \A j, k \in 1..n : j <= k => o[j] <= o[k]
      /\ \A k \in 1..n : \E i \in 1..n : o[k] = s[i]
      /\ \A i \in 1..n : \E k \in 1..n : o[k] = s[i]
  BY SortedAscends DEF Ascends
<1>2. /\ of.count = <<n, 1>> /\ of.mean = mean(s) /\ of.std = _compute_std(s)
      /\ of.median = _compute_percentile(o, 50)
      /\ of.min = <<o[1], 1>> /\ of.max = <<o[n], 1>>
      /\ of.p50 = _compute_percentile(o, 50) /\ of.p75 = _compute_percentile(o, 75)
      /\ of.p90 = _compute_percentile(o, 90) /\ of.p95 = _compute_percentile(o, 95)
      /\ of.p99 = _compute_percentile(o, 99)
      /\ DOMAIN of = {"count", "mean", "median", "min", "max", "std",
                      "p50", "p75", "p90", "p95", "p99"}
  <2>1. Len(s) = n
    OBVIOUS
  <2> QED
    BY <2>1 DEF Figures
<1> HIDE DEF o, of
<1>3. 1 \in 1..n /\ n \in 1..n /\ o[1] \in Int /\ o[n] \in Int
  BY <1>1
<1>4. ASSUME NEW i \in 1..n PROVE o[1] <= s[i] /\ s[i] <= o[n]
  <2>1. PICK k \in 1..n : o[k] = s[i]
    BY <1>1
  <2>2. 1 <= k /\ k <= n
    OBVIOUS
  <2>3. o[1] <= o[k] /\ o[k] <= o[n]
    BY <1>1, <1>3, <2>2, Zenon
  <2> QED
    BY <2>1, <2>3
<1>5. /\ of.mean \in Ratios /\ AtMost(of.min, of.mean) /\ AtMost(of.mean, of.max)
  <2>1. PICK lo \in Int, hi \in Int : lo = o[1] /\ hi = o[n]
    BY <1>3
  <2>2. mean(s) \in Ratios /\ AtMost(<<lo, 1>>, mean(s)) /\ AtMost(mean(s), <<hi, 1>>)
    BY <1>4, <2>1, MeanWithin
  <2> QED
    BY <1>2, <2>1, <2>2
<1>p. /\ 50 \in 0..100 /\ 75 \in 0..100 /\ 90 \in 0..100 /\ 95 \in 0..100 /\ 99 \in 0..100
      /\ 75 \in 50..100 /\ 90 \in 75..100 /\ 95 \in 90..100 /\ 99 \in 95..100
  OBVIOUS
<1>6. ASSUME NEW p \in 0..100
      PROVE  /\ _compute_percentile(o, p) \in Ratios
             /\ AtMost(<<o[1], 1>>, _compute_percentile(o, p))
             /\ AtMost(_compute_percentile(o, p), <<o[n], 1>>)
  BY <1>1, PercentileWithin
<1>7. /\ AtMost(of.p50, of.p75) /\ AtMost(of.p75, of.p90)
      /\ AtMost(of.p90, of.p95) /\ AtMost(of.p95, of.p99)
  <2>1. ASSUME NEW p \in 0..100, NEW q \in p..100
        PROVE  AtMost(_compute_percentile(o, p), _compute_percentile(o, q))
    BY <1>1, PercentilesAscend
  <2>2. AtMost(_compute_percentile(o, 50), _compute_percentile(o, 75))
    BY <1>p, <2>1, Zenon
  <2>3. AtMost(_compute_percentile(o, 75), _compute_percentile(o, 90))
    BY <1>p, <2>1, Zenon
  <2>4. AtMost(_compute_percentile(o, 90), _compute_percentile(o, 95))
    BY <1>p, <2>1, Zenon
  <2>5. AtMost(_compute_percentile(o, 95), _compute_percentile(o, 99))
    BY <1>p, <2>1, Zenon
  <2> QED
    BY <1>2, <2>2, <2>3, <2>4, <2>5
<1>8. \A i \in 1..Len(Upward) - 1 : AtMost(of[Upward[i]], of[Upward[i + 1]])
  <2>0. /\ AtMost(<<o[1], 1>>, _compute_percentile(o, 50))
        /\ AtMost(_compute_percentile(o, 99), <<o[n], 1>>)
    BY <1>p, <1>6, Zenon
  <2>1. AtMost(of["min"], of["p50"]) /\ AtMost(of["p99"], of["max"])
    BY <1>2, <2>0
  <2>2. ASSUME NEW i \in 1..6 PROVE AtMost(of[Upward[i]], of[Upward[i + 1]])
    BY <1>7, <2>1 DEF Upward
  <2>3. Len(Upward) = 7
    BY DEF Upward
  <2> QED
    BY <2>2, <2>3
<1>9. of.std \in Ratios /\ (Same(of.std, Zero) <=> Same(of.min, of.max))
  <2>1. Same(of.min, of.max) <=> o[1] = o[n]
    BY <1>2, <1>3 DEF Same
  <2>2. o[1] = o[n] <=> \A i, j \in 1..n : s[i] = s[j]
    <3>1. ASSUME o[1] = o[n], NEW i \in 1..n, NEW j \in 1..n PROVE s[i] = s[j]
      <4>1. s[i] \in Int /\ s[j] \in Int
        OBVIOUS
      <4> QED
        BY <1>3, <1>4, <3>1, <4>1
    <3>2. ASSUME \A i, j \in 1..n : s[i] = s[j] PROVE o[1] = o[n]
      BY <1>1, <1>3, <3>2
    <3> QED
      BY <3>1, <3>2
  <2>3. _compute_std(s) \in Ratios /\ (Same(_compute_std(s), Zero) <=> o[1] = o[n])
    BY <2>2, StdRatio
  <2> QED
    BY <1>2, <2>1, <2>3
<1>10. \A x \in DOMAIN of : of[x] \in Ratios
  <2>1. <<n, 1>> \in Ratios /\ <<o[1], 1>> \in Ratios /\ <<o[n], 1>> \in Ratios
    BY <1>3 DEF Ratios
  <2>2. of.count \in Ratios /\ of.min \in Ratios /\ of.max \in Ratios
    BY <1>2, <2>1
  <2>3. /\ _compute_percentile(o, 50) \in Ratios /\ _compute_percentile(o, 75) \in Ratios
        /\ _compute_percentile(o, 90) \in Ratios /\ _compute_percentile(o, 95) \in Ratios
        /\ _compute_percentile(o, 99) \in Ratios
    BY <1>p, <1>6, Zenon
  <2>4. /\ of.median \in Ratios /\ of.p50 \in Ratios /\ of.p75 \in Ratios
        /\ of.p90 \in Ratios /\ of.p95 \in Ratios /\ of.p99 \in Ratios
    BY <1>2, <2>3
  <2> QED
    BY <1>2, <1>5, <1>9, <2>2, <2>4
<1>11. FiguresOrdered(of)
  BY <1>5, <1>8, <1>9 DEF FiguresOrdered
<1> QED
  BY <1>2, <1>10, <1>11 DEF of

(* Rows whose computed values are numbers. *)
NumberRow(r) == is_computed(r) => r.value[1] \in Int

(* The numbers of some rows are as many as the computed rows. *)
LEMMA NumbersTyped ==
  ASSUME NEW n \in Nat, NEW X, NEW rows \in [1..n -> X], \A i \in 1..n : NumberRow(rows[i])
  PROVE  /\ IsFiniteSet(Numeric(rows)) /\ Cardinality(Numeric(rows)) \in Nat
         /\ NumbersOf(rows) \in [1..Cardinality(Numeric(rows)) -> Int]
<1> DEFINE S == Numeric(rows)
           m == Cardinality(S)
           at == Ascending(S)
<1>1. IsFiniteSet(1..n) /\ S \in SUBSET (1..n)
  BY FS_Interval DEF Numeric
<1>2. IsFiniteSet(S) /\ m \in Nat
  BY <1>1, FS_Subset, FS_CardinalityType
<1>3. S \in SUBSET Int
  BY <1>1
<1>4. at \in [1..m -> S]
  BY <1>2, <1>3, AscendingArranges DEF Arranges
<1>5. NumbersOf(rows) = [i \in 1..m |-> rows[at[i]].value[1]]
  BY <1>4 DEF NumbersOf
<1>6. \A k \in S : rows[k].value[1] \in Int
  BY <1>1 DEF Numeric, NumberRow
<1> HIDE DEF S, at
<1>7. \A i \in 1..m : rows[at[i]].value[1] \in Int
  BY <1>4, <1>6
<1> QED
  BY <1>2, <1>5, <1>7 DEF S

(* What an aggregate must satisfy. *)
RowSound(row) ==
  /\ row.available_count + row.failed_count <= row.sample_count
  /\ Same(row.of.count, <<row.available_count, 1>>)
  /\ row.status = "COMPUTED" => FiguresOrdered(row.of)
  /\ \A x \in DOMAIN row.of : row.of[x] \in Ratios

(* The aggregate of any rows satisfies it (compute_aggregations). *)
LEMMA AggregateSound ==
  ASSUME NEW n \in Nat, NEW X, NEW rows \in [1..n -> X], \A i \in 1..n : NumberRow(rows[i])
  PROVE  RowSound(compute_aggregations(rows))
<1> DEFINE S == Numeric(rows)
           F == Failures(rows)
           m == Cardinality(S)
           values == NumbersOf(rows)
           row == compute_aggregations(rows)
<1>1. IsFiniteSet(S) /\ m \in Nat /\ values \in [1..m -> Int]
  BY NumbersTyped
<1>2. row = [sample_count |-> Len(rows), available_count |-> m, failed_count |-> Cardinality(F),
             status |-> IF values = <<>> THEN "UNAVAILABLE_MISSING_INPUT" ELSE "COMPUTED",
             of |-> IF values = <<>> THEN [count |-> Zero] ELSE Figures(values)]
  BY DEF compute_aggregations
<1>3. m + Cardinality(F) <= n
  <2>1. IsFiniteSet(1..n) /\ Cardinality(1..n) = n
    BY FS_Interval
  <2>2. S \in SUBSET (1..n) /\ F \in SUBSET (1..n)
    BY DEF Numeric, Failures
  <2>3. S \cap F = {}
    BY DEF Numeric, Failures, is_computed
  <2>4. IsFiniteSet(F)
    BY <2>1, <2>2, FS_Subset
  <2>5. Cardinality(S \cup F) = m + Cardinality(F) - Cardinality(S \cap F)
    BY <1>1, <2>4, FS_Union
  <2>6. Cardinality(S \cap F) = 0
    BY <2>3, FS_EmptySet
  <2>7. Cardinality(S \cup F) <= n
    BY <2>1, <2>2, FS_Subset
  <2>8. Cardinality(F) \in Nat
    BY <2>4, FS_CardinalityType
  <2> QED
    BY <1>1, <2>5, <2>6, <2>7, <2>8
<1>4. Len(rows) = n /\ (values = <<>> <=> m = 0)
  <2>1. Len(values) = m /\ (m = 0 => values = <<>>)
    BY <1>1
  <2> QED
    BY <2>1
<1> HIDE DEF S, F, values, row
<1>5. CASE m = 0
  <2>1. row.of = [count |-> Zero] /\ row.status # "COMPUTED" /\ row.available_count = 0
    BY <1>2, <1>4, <1>5
  <2>2. Zero \in Ratios /\ Same(Zero, <<0, 1>>)
    BY DEF Zero, Ratios, Same
  <2>3. /\ row.available_count + row.failed_count <= row.sample_count
        /\ row.of.count = Zero /\ \A x \in DOMAIN row.of : row.of[x] = Zero
    BY <1>2, <1>3, <1>4, <2>1
  <2> QED
    BY <2>1, <2>2, <2>3 DEF RowSound, row
<1>6. CASE m # 0
  <2>1. row.of = Figures(values) /\ row.available_count = m
    BY <1>2, <1>4, <1>6
  <2>2. m \in Nat \ {0}
    BY <1>1, <1>6
  <2>3. /\ \A x \in DOMAIN row.of : row.of[x] \in Ratios
        /\ row.of.count = <<m, 1>> /\ FiguresOrdered(row.of)
    BY <1>1, <2>1, <2>2, FiguresSound
  <2>4. Same(<<m, 1>>, <<m, 1>>)
    BY <1>1 DEF Same
  <2>5. row.available_count + row.failed_count <= row.sample_count
    BY <1>2, <1>3, <1>4
  <2> QED
    BY <2>1, <2>3, <2>4, <2>5 DEF RowSound, row
<1> QED
  BY <1>5, <1>6

(* The aggregates of any table of such rows are sound. *)
NumberTable(written) ==
  /\ IsFiniteSet(DOMAIN written) /\ DOMAIN written \subseteq Nat
  /\ \A c \in DOMAIN written : \A m \in DOMAIN written[c] : NumberRow(written[c][m])

(* The aggregates of a table of scores are sound. *)
LEMMA TableAggregates ==
  ASSUME NEW written, NumberTable(written)
  PROVE  \A m \in DOMAIN _aggregate(written) : RowSound(_aggregate(written)[m])
<1> SUFFICES ASSUME NEW m \in DOMAIN _aggregate(written)
             PROVE  RowSound(_aggregate(written)[m])
  OBVIOUS
<1> DEFINE S == {c \in DOMAIN written : m \in DOMAIN written[c]}
           table == RowsOf(written, m)
           order == Ascending(S)
           n == Cardinality(S)
           rows == [i \in 1..n |-> table[order[i]]]
           X == {table[c] : c \in S}
<1>1. IsFiniteSet(S) /\ n \in Nat /\ S \in SUBSET Int
  <2>1. S \in SUBSET DOMAIN written
    OBVIOUS
  <2> QED
    BY <2>1, FS_Subset, FS_CardinalityType DEF NumberTable
<1>2. DOMAIN table = S /\ \A c \in S : table[c] = Unlinked(written[c][m])
  BY DEF RowsOf
<1>3. order \in [1..n -> S]
  BY <1>1, AscendingArranges DEF Arranges
<1>4. _aggregate(written)[m] = compute_aggregations(InOrder(table))
  BY DEF _aggregate
<1>5. InOrder(table) = rows
  BY <1>2, <1>3 DEF InOrder
<1>6. \A c \in S : NumberRow(table[c])
  <2> SUFFICES ASSUME NEW c \in S PROVE NumberRow(table[c])
    OBVIOUS
  <2>1. NumberRow(written[c][m])
    BY DEF NumberTable
  <2>2. table[c] = [status |-> written[c][m].status, value |-> written[c][m].value]
    BY <1>2 DEF Unlinked
  <2> QED
    BY <2>1, <2>2 DEF NumberRow, is_computed
<1> HIDE DEF S, table, order
<1>7. rows \in [1..n -> X] /\ \A i \in 1..n : NumberRow(rows[i])
  BY <1>3, <1>6
<1> HIDE DEF rows, X
<1>8. RowSound(compute_aggregations(rows))
  BY <1>1, <1>7, AggregateSound
<1> QED
  BY <1>4, <1>5, <1>8

-----------------------------------------------------------------------------
(* Comparing two figures the other way round gives the opposite. *)
LEMMA FiguresMirror ==
  ASSUME NEW metric, NEW a \in Ratios \cup {None}, NEW b \in Ratios \cup {None}
  PROVE  /\ _compare_metric(metric, a, b) \in DOMAIN Opposite
         /\ _compare_metric(metric, b, a) = Opposite[_compare_metric(metric, a, b)]
         /\ a # None => _compare_metric(metric, a, a) = "unchanged"
<1>1. CASE a = None \/ b = None
  <2>1. /\ _compare_metric(metric, a, b) = "inconclusive"
        /\ _compare_metric(metric, b, a) = "inconclusive"
    BY <1>1 DEF _compare_metric
  <2>2. ASSUME a # None PROVE _compare_metric(metric, a, a) = "unchanged"
    <3>1. PICK x \in Int, y \in Nat \ {0}, e \in Nat, f \in Nat \ {0} :
            a = <<x, y>> /\ Epsilon = <<e, f>>
      BY <2>2, StatisticsAssumption DEF Ratios
    <3>2. Minus(a, a) = <<0, y * y>>
      BY <3>1 DEF Minus
    <3>3. AtMost(Absolute(Minus(a, a)), Epsilon)
      <4>1. Absolute(Minus(a, a)) = <<0, y * y>>
        BY <3>2 DEF Absolute, Magnitude
      <4>2. 0 * f <= e * (y * y)
        OBVIOUS
      <4> QED
        BY <3>1, <4>1, <4>2 DEF AtMost
    <3> QED
      BY <2>2, <3>3 DEF _compare_metric
  <2> QED
    BY <2>1, <2>2 DEF Opposite
<1>2. CASE a # None /\ b # None
  <2>1. PICK x \in Int, y \in Nat \ {0}, u \in Int, v \in Nat \ {0}, e \in Nat, f \in Nat \ {0} :
          a = <<x, y>> /\ b = <<u, v>> /\ Epsilon = <<e, f>>
    <3>1. a \in Ratios /\ b \in Ratios
      BY <1>2
    <3>2. PICK x \in Int, y \in Nat \ {0} : a = <<x, y>>
      BY <3>1 DEF Ratios
    <3>3. PICK u \in Int, v \in Nat \ {0} : b = <<u, v>>
      BY <3>1 DEF Ratios
    <3>4. PICK e \in Nat, f \in Nat \ {0} : Epsilon = <<e, f>>
      BY StatisticsAssumption
    <3> QED
      BY <3>2, <3>3, <3>4
  <2>2. PICK g \in Int, h \in Nat \ {0} : g = u * y - x * v /\ h = y * v
    OBVIOUS
  <2>3. Minus(b, a) = <<g, h>> /\ Minus(a, b) = <<-g, h>>
    <3>1. x * v - u * y = -(u * y - x * v) /\ v * y = y * v
      OBVIOUS
    <3> QED
      BY <2>1, <2>2, <3>1 DEF Minus
  <2>4. /\ AtMost(Absolute(<<g, h>>), Epsilon) <=> AtMost(Absolute(<<-g, h>>), Epsilon)
        /\ g = 0 => AtMost(Absolute(<<g, h>>), Epsilon)
    <3>1. Absolute(<<g, h>>) = <<Magnitude(g), h>> /\ Absolute(<<-g, h>>) = <<Magnitude(-g), h>>
      BY DEF Absolute
    <3>2. Magnitude(g) = Magnitude(-g) /\ (g = 0 => Magnitude(g) = 0)
      BY DEF Magnitude
    <3>3. 0 * f <= e * h
      OBVIOUS
    <3> QED
      BY <2>1, <3>1, <3>2, <3>3 DEF AtMost
  <2>5. ASSUME NEW c \in Ratios PROVE _compare_metric(metric, c, c) = "unchanged"
    <3>1. PICK w \in Int, z \in Nat \ {0} : c = <<w, z>> /\ c # None
      BY StatisticsAssumption DEF Ratios
    <3>2. Minus(c, c) = <<0, z * z>>
      BY <3>1 DEF Minus
    <3>3. AtMost(Absolute(Minus(c, c)), Epsilon)
      <4>1. Absolute(Minus(c, c)) = <<0, z * z>>
        BY <3>2 DEF Absolute, Magnitude
      <4>2. 0 * f <= e * (z * z)
        OBVIOUS
      <4> QED
        BY <2>1, <4>1, <4>2 DEF AtMost
    <3> QED
      BY <3>1, <3>3 DEF _compare_metric
  <2>6. /\ _compare_metric(metric, a, b) \in DOMAIN Opposite
        /\ _compare_metric(metric, b, a) = Opposite[_compare_metric(metric, a, b)]
    <3>1. CASE AtMost(Absolute(<<g, h>>), Epsilon)
      BY <1>2, <2>3, <2>4, <3>1 DEF _compare_metric, Opposite
    <3>2. CASE ~AtMost(Absolute(<<g, h>>), Epsilon)
      <4>1. g # 0 /\ ~AtMost(Absolute(<<-g, h>>), Epsilon)
        BY <2>4, <3>2
      <4>2. (g > 0 <=> ~(-g > 0)) /\ <<g, h>>[1] = g /\ <<-g, h>>[1] = -g
        BY <4>1
      <4>3. CASE Direction(metric) = "higher_is_better"
        <5>1. /\ _compare_metric(metric, a, b) = IF g > 0 THEN "improved" ELSE "regressed"
              /\ _compare_metric(metric, b, a) = IF -g > 0 THEN "improved" ELSE "regressed"
          BY <1>2, <2>3, <3>2, <4>1, <4>3 DEF _compare_metric
        <5> QED
          BY <4>2, <5>1 DEF Opposite
      <4>4. CASE Direction(metric) # "higher_is_better"
        <5>1. /\ _compare_metric(metric, a, b) = IF -g > 0 THEN "improved" ELSE "regressed"
              /\ _compare_metric(metric, b, a) = IF g > 0 THEN "improved" ELSE "regressed"
          BY <1>2, <2>3, <3>2, <4>1, <4>4 DEF _compare_metric
        <5> QED
          BY <4>2, <5>1 DEF Opposite
      <4> QED
        BY <4>3, <4>4
    <3> QED
      BY <3>1, <3>2
  <2> QED
    BY <1>2, <2>5, <2>6
<1> QED
  BY <1>1, <1>2

-----------------------------------------------------------------------------
(* Paired differences *)

(* The pairs of two runs are the same whichever comes first (_paired_values). *)
LEMMA PairsTyped ==
  ASSUME NEW a, NEW b, NumberTable(a.results), NumberTable(b.results), NEW m
  PROVE  \E n \in Nat :
           /\ _paired_values(a, b, m).left \in [1..n -> Int]
           /\ _paired_values(a, b, m).right \in [1..n -> Int]
           /\ _paired_values(b, a, m).left = _paired_values(a, b, m).right
           /\ _paired_values(b, a, m).right = _paired_values(a, b, m).left
<1> DEFINE numeric(run) == {c \in DOMAIN run.results : /\ m \in DOMAIN run.results[c]
                                                      /\ is_computed(run.results[c][m])}
           C == numeric(a) \cap numeric(b)
           cases == Ascending(C)
           n == Cardinality(C)
           values(run) == [i \in 1..n |-> run.results[cases[i]][m].value[1]]
<1>1. IsFiniteSet(C) /\ n \in Nat /\ C \in SUBSET Int
  <2>1. C \in SUBSET DOMAIN a.results
    OBVIOUS
  <2> QED
    BY <2>1, FS_Subset, FS_CardinalityType DEF NumberTable
<1>2. cases \in [1..n -> C]
  BY <1>1, AscendingArranges DEF Arranges
<1>3. numeric(b) \cap numeric(a) = C
  OBVIOUS
<1>4. DOMAIN cases = 1..n
  BY <1>2
<1>5. /\ _paired_values(a, b, m) = [left |-> values(a), right |-> values(b)]
      /\ _paired_values(b, a, m) = [left |-> values(b), right |-> values(a)]
  BY <1>3, <1>4 DEF _paired_values
<1>6. \A c \in C : a.results[c][m].value[1] \in Int /\ b.results[c][m].value[1] \in Int
  BY DEF NumberTable, NumberRow
<1> HIDE DEF C, cases
<1>7. values(a) \in [1..n -> Int] /\ values(b) \in [1..n -> Int]
  BY <1>2, <1>6
<1> HIDE DEF values
<1> QED
  BY <1>1, <1>5, <1>7

(* e is d with all signs turned. *)
Reversed(d, e, n) ==
  /\ n \in Nat /\ d \in [1..n -> Int] /\ e \in [1..n -> Int]
  /\ \A i \in 1..n : e[i] = -d[i]

(* Exchanging two runs turns the signs of their paired differences. *)
LEMMA DifferencesReverse ==
  ASSUME NEW a, NEW b, NumberTable(a.results), NumberTable(b.results), NEW m
  PROVE  \E n : Reversed(Differences(a, b, m), Differences(b, a, m), n)
<1> DEFINE p == _paired_values(a, b, m)
           q == _paired_values(b, a, m)
<1>1. PICK n \in Nat : /\ p.left \in [1..n -> Int] /\ p.right \in [1..n -> Int]
                       /\ q.left = p.right /\ q.right = p.left
  BY PairsTyped
<1>2. /\ Differences(a, b, m) = [i \in 1..n |-> p.right[i] - p.left[i]]
      /\ Differences(b, a, m) = [i \in 1..n |-> p.left[i] - p.right[i]]
  BY <1>1 DEF Differences
<1> HIDE DEF p, q
<1>3. \A i \in 1..n : p.left[i] \in Int /\ p.right[i] \in Int
  BY <1>1
<1>4. Reversed(Differences(a, b, m), Differences(b, a, m), n)
  BY <1>2, <1>3 DEF Reversed
<1> QED
  BY <1>4

(* Two lists that reverse each other have the same length. *)
LEMMA Turned ==
  ASSUME NEW d, NEW e, NEW n, Reversed(d, e, n)
  PROVE  /\ Reversed(e, d, n) /\ (d = <<>> <=> n = 0) /\ (e = <<>> <=> n = 0)
         /\ Len(d) = n /\ Len(e) = n
<1>1. n \in Nat /\ d \in [1..n -> Int] /\ e \in [1..n -> Int] /\ \A i \in 1..n : e[i] = -d[i]
  BY DEF Reversed
<1>2. \A i \in 1..n : d[i] = -e[i]
  <2> SUFFICES ASSUME NEW i \in 1..n PROVE d[i] = -e[i]
    OBVIOUS
  <2>1. d[i] \in Int /\ e[i] = -d[i]
    BY <1>1
  <2> QED
    BY <2>1
<1>3. Len(d) = n /\ Len(e) = n
  BY <1>1
<1>4. n = 0 => d = <<>> /\ e = <<>>
  BY <1>1
<1> QED
  BY <1>1, <1>2, <1>3, <1>4 DEF Reversed

(* A magnitude does not depend on the sign. *)
LEMMA MagnitudeTurned == \A x \in Int : Magnitude(-x) = Magnitude(x) /\ Magnitude(x) \in Nat
BY DEF Magnitude

(* The patterns of signs that are tried. *)
LEMMA PatternSet ==
  ASSUME NEW n \in Nat, NEW d \in [1..n -> Int]
  PROVE  /\ \E k \in 0..n : Patterns(d) = SUBSET (1..k)
         /\ IsFiniteSet(Patterns(d)) /\ {} \in Patterns(d)
         /\ Cardinality(Patterns(d)) \in Nat \ {0}
<1>1. Len(d) = n
  OBVIOUS
<1>2. PICK k \in 0..n : k = Smaller(<<Len(d), 1>>, <<PermutationBits, 1>>)[1]
  BY <1>1, StatisticsAssumption DEF Smaller, AtMost
<1>3. Patterns(d) = SUBSET (1..k)
  BY <1>2 DEF Patterns
<1>4. IsFiniteSet(Patterns(d)) /\ {} \in Patterns(d)
  <2>1. IsFiniteSet(1..k)
    BY FS_Interval
  <2>2. IsFiniteSet(SUBSET (1..k))
    BY <2>1, FS_SUBSET
  <2> QED
    BY <1>3, <2>2
<1>5. Cardinality(Patterns(d)) \in Nat \ {0}
  BY <1>4, FS_CardinalityType, FS_EmptySet
<1> QED
  BY <1>3, <1>4, <1>5

(* The sums of reversed lists are opposite. *)
LEMMA TotalReversed ==
  ASSUME NEW d, NEW e, NEW n, Reversed(d, e, n)
  PROVE  Total(d) \in Int /\ Total(e) = -Total(d)
BY TotalNegated, TotalType DEF Reversed

(* t is d under a sign pattern. *)
WithSigns(t, d, n, positive) ==
  /\ t \in [1..n -> Int]
  /\ \A i \in 1..n : t[i] = IF i \in positive THEN d[i] ELSE -d[i]

(* The sum under a sign pattern is that of such a list. *)
LEMMA SignedTyped ==
  ASSUME NEW n \in Nat, NEW d \in [1..n -> Int], NEW positive
  PROVE  /\ Signed(d, positive) \in Int
         /\ \E t : WithSigns(t, d, n, positive) /\ Signed(d, positive) = Total(t)
<1> DEFINE t == [i \in 1..n |-> IF i \in positive THEN d[i] ELSE -d[i]]
<1>1. t \in [1..n -> Int]
  OBVIOUS
<1>2. Signed(d, positive) = Total(t)
  <2>1. DOMAIN d = 1..n
    OBVIOUS
  <2> QED
    BY <2>1 DEF Signed
<1>3. \A i \in 1..n : t[i] = IF i \in positive THEN d[i] ELSE -d[i]
  OBVIOUS
<1> HIDE DEF t
<1>4. Total(t) \in Int
  BY <1>1, TotalType
<1>5. WithSigns(t, d, n, positive)
  BY <1>1, <1>3 DEF WithSigns
<1> QED
  BY <1>2, <1>4, <1>5

(* Under the same pattern, reversed differences have the opposite sum. *)
LEMMA SignedReverse ==
  ASSUME NEW d, NEW e, NEW n, Reversed(d, e, n), NEW positive
  PROVE  Signed(e, positive) = -Signed(d, positive)
<1>1. n \in Nat /\ d \in [1..n -> Int] /\ e \in [1..n -> Int] /\ \A i \in 1..n : e[i] = -d[i]
  BY DEF Reversed
<1>2. PICK t : WithSigns(t, d, n, positive) /\ Signed(d, positive) = Total(t)
  BY <1>1, SignedTyped
<1>3. PICK u : WithSigns(u, e, n, positive) /\ Signed(e, positive) = Total(u)
  BY <1>1, SignedTyped
<1>4. \A i \in 1..n : u[i] = -t[i]
  <2> SUFFICES ASSUME NEW i \in 1..n PROVE u[i] = -t[i]
    OBVIOUS
  <2>1. d[i] \in Int /\ e[i] = -d[i]
    BY <1>1
  <2> QED
    BY <1>2, <1>3, <2>1 DEF WithSigns
<1>5. Reversed(t, u, n)
  BY <1>1, <1>2, <1>3, <1>4 DEF Reversed, WithSigns
<1> QED
  BY <1>2, <1>3, <1>5, TotalReversed

(* The p-value of differences and of the reversed ones is the same positive share. *)
LEMMA PValueSound ==
  ASSUME NEW d, NEW e, NEW n, Reversed(d, e, n)
  PROVE  /\ paired_permutation_pvalue(d) = paired_permutation_pvalue(e)
         /\ d = <<>> => paired_permutation_pvalue(d) = None
         /\ d # <<>> => /\ paired_permutation_pvalue(d) \in Ratios
                        /\ paired_permutation_pvalue(d)[1] > 0
                        /\ AtMost(paired_permutation_pvalue(d), One)
<1>1. n \in Nat /\ d \in [1..n -> Int] /\ e \in [1..n -> Int] /\ \A i \in 1..n : e[i] = -d[i]
  BY DEF Reversed
<1> DEFINE Extreme(f) == {s \in Patterns(f) : Magnitude(Signed(f, s)) >= Magnitude(Total(f))}
<1>2. Patterns(e) = Patterns(d)
  BY Turned DEF Patterns
<1>3. Total(e) = -Total(d) /\ Total(d) \in Int
  BY TotalReversed
<1>4. ASSUME NEW s PROVE Magnitude(Signed(e, s)) = Magnitude(Signed(d, s)) /\ Signed(d, s) \in Int
  <2>1. Signed(e, s) = -Signed(d, s) /\ Signed(d, s) \in Int
    BY <1>1, SignedReverse, SignedTyped
  <2> QED
    BY <2>1, MagnitudeTurned
<1>5. Magnitude(Total(e)) = Magnitude(Total(d))
  BY <1>3, MagnitudeTurned
<1>6. Extreme(e) = Extreme(d)
  BY <1>2, <1>4, <1>5
<1>7. {} \in Extreme(d)
  <2>1. Signed(d, {}) = -Total(d)
    <3>1. PICK t : WithSigns(t, d, n, {}) /\ Signed(d, {}) = Total(t)
      BY <1>1, SignedTyped
    <3>2. Reversed(d, t, n)
      BY <1>1, <3>1 DEF Reversed, WithSigns
    <3> QED
      BY <3>1, <3>2, TotalReversed
  <2>2. Magnitude(Signed(d, {})) = Magnitude(Total(d)) /\ Magnitude(Total(d)) \in Nat
    BY <1>3, <2>1, MagnitudeTurned
  <2>3. {} \in Patterns(d)
    BY <1>1, PatternSet
  <2> QED
    BY <2>2, <2>3
<1> DEFINE c == Cardinality(Extreme(d))
           of == Cardinality(Patterns(d))
<1>8. c \in Nat \ {0} /\ of \in Nat \ {0} /\ c <= of
  <2>1. IsFiniteSet(Patterns(d)) /\ of \in Nat \ {0}
    BY <1>1, PatternSet
  <2>2. Extreme(d) \in SUBSET Patterns(d)
    OBVIOUS
  <2> HIDE DEF Extreme
  <2>3. IsFiniteSet(Extreme(d)) /\ c <= of
    BY <2>1, <2>2, FS_Subset
  <2>4. c \in Nat /\ c # 0
    BY <1>7, <2>3, FS_CardinalityType, FS_EmptySet
  <2> QED
    BY <2>1, <2>3, <2>4
<1>9. /\ d # <<>> => paired_permutation_pvalue(d) = Counted(Extreme(d), of)
      /\ e # <<>> => paired_permutation_pvalue(e) = Counted(Extreme(e), Cardinality(Patterns(e)))
      /\ d = <<>> => paired_permutation_pvalue(d) = None
      /\ e = <<>> => paired_permutation_pvalue(e) = None
  BY DEF paired_permutation_pvalue
<1>10. Counted(Extreme(d), of) = <<c, of>>
  BY <1>8 DEF Counted, safe_divide
<1> HIDE DEF Extreme, c, of
<1>11. d # <<>> => paired_permutation_pvalue(d) = <<c, of>>
  BY <1>9, <1>10
<1>12. paired_permutation_pvalue(d) = paired_permutation_pvalue(e)
  BY <1>2, <1>6, <1>9, Turned DEF of
<1>13. <<c, of>> \in Ratios /\ <<c, of>>[1] > 0 /\ AtMost(<<c, of>>, One)
  BY <1>8 DEF Ratios, AtMost, One
<1> QED
  BY <1>9, <1>11, <1>12, <1>13

(* A pair of numbers is not None. *)
LEMMA NoneIsNoRatio ==
  ASSUME NEW x \in Int, NEW y \in Int
  PROVE  <<x, y>> # None
BY StatisticsAssumption

(* How many differences are above and below zero. *)
Sides(d, a, b) == a = Above(d) /\ b = Below(d) /\ a \in Nat /\ b \in Nat

(* Reversing the differences exchanges the two numbers. *)
LEMMA SidesReverse ==
  ASSUME NEW d, NEW e, NEW n, Reversed(d, e, n)
  PROVE  \E a, b : Sides(d, a, b) /\ Sides(e, b, a)
<1>1. n \in Nat /\ DOMAIN d = 1..n /\ DOMAIN e = 1..n
      /\ \A i \in 1..n : d[i] \in Int /\ e[i] = -d[i]
  BY DEF Reversed
<1>2. ASSUME NEW i \in 1..n PROVE (e[i] > 0 <=> d[i] < 0) /\ (e[i] < 0 <=> d[i] > 0)
  BY <1>1
<1> DEFINE up == {i \in 1..n : d[i] > 0}
           down == {i \in 1..n : d[i] < 0}
<1>3. /\ Above(d) = Cardinality(up) /\ Below(d) = Cardinality(down)
      /\ Above(e) = Cardinality(down) /\ Below(e) = Cardinality(up)
  <2>1. {i \in 1..n : e[i] > 0} = down /\ {i \in 1..n : e[i] < 0} = up
    BY <1>2
  <2> QED
    BY <1>1, <2>1 DEF Above, Below
<1>4. Cardinality(up) \in Nat /\ Cardinality(down) \in Nat
  <2>1. IsFiniteSet(1..n) /\ up \in SUBSET (1..n) /\ down \in SUBSET (1..n)
    BY <1>1, FS_Interval
  <2> HIDE DEF up, down
  <2> QED
    BY <2>1, FS_Subset, FS_CardinalityType
<1> HIDE DEF up, down
<1>5. Sides(d, Cardinality(up), Cardinality(down)) /\ Sides(e, Cardinality(down), Cardinality(up))
  BY <1>3, <1>4 DEF Sides
<1> QED
  BY <1>5

(* Shares with opposite numerators are opposed. *)
LEMMA SharesOpposed ==
  ASSUME NEW x \in Int, NEW y \in Int
  PROVE  Opposed(safe_divide(x, y), safe_divide(-x, y))
<1>1. CASE y = 0
  BY <1>1 DEF Opposed, safe_divide
<1>2. CASE y # 0
  <2>1. safe_divide(x, y) = <<x, y>> /\ safe_divide(-x, y) = <<-x, y>>
    BY <1>2 DEF safe_divide
  <2>2. <<x, y>> # None /\ <<-x, y>> # None
    <3>1. -x \in Int
      OBVIOUS
    <3> QED
      BY <3>1, NoneIsNoRatio
  <2>3. Plus(<<x, y>>, <<-x, y>>) = <<x * y + (-x) * y, y * y>>
    BY DEF Plus
  <2>4. x * y + (-x) * y = 0 /\ y * y \in Int
    OBVIOUS
  <2>5. Same(<<0, y * y>>, Zero)
    BY <2>4 DEF Same, Zero
  <2> QED
    BY <2>1, <2>2, <2>3, <2>4, <2>5 DEF Opposed
<1> QED
  BY <1>1, <1>2

(* The rank-biserial correlation turns its sign (rank_biserial). *)
LEMMA RankMirror ==
  ASSUME NEW d, NEW e, NEW n, Reversed(d, e, n)
  PROVE  Opposed(rank_biserial(d), rank_biserial(e))
<1>1. PICK a, b : Sides(d, a, b) /\ Sides(e, b, a)
  BY SidesReverse
<1>2. d = <<>> <=> e = <<>>
  BY Turned
<1>3. CASE d = <<>>
  BY <1>2, <1>3 DEF rank_biserial, Opposed
<1>4. CASE d # <<>>
  <2>1. /\ rank_biserial(d) = safe_divide(a - b, a + b)
        /\ rank_biserial(e) = safe_divide(b - a, b + a)
    BY <1>1, <1>2, <1>4 DEF rank_biserial, Sides
  <2>2. PICK x \in Int, y \in Int : x = a - b /\ y = a + b
    BY <1>1 DEF Sides
  <2>3. b - a = -x /\ b + a = y
    BY <1>1, <2>2 DEF Sides
  <2> QED
    BY <2>1, <2>2, <2>3, SharesOpposed
<1> QED
  BY <1>3, <1>4

(* The deviation of reversed differences is the same. *)
LEMMA StdReversed ==
  ASSUME NEW d, NEW e, NEW n, Reversed(d, e, n)
  PROVE  _compute_std(e) = _compute_std(d)
<1>1. n \in Nat /\ DOMAIN d = 1..n /\ DOMAIN e = 1..n
      /\ \A i \in 1..n : d[i] \in Int /\ e[i] = -d[i]
  BY DEF Reversed
<1>2. Len(d) = n /\ Len(e) = n /\ Total(d) \in Int /\ Total(e) = -Total(d)
  BY Turned, TotalReversed
<1>3. Squares(e) = Squares(d)
  <2>1. ASSUME NEW i \in 1..n PROVE e[i] * e[i] = d[i] * d[i]
    <3>1. PICK x \in Int : x = d[i]
      BY <1>1
    <3>2. e[i] = -x
      BY <1>1, <3>1
    <3>3. (-x) * (-x) = x * x
      OBVIOUS
    <3> QED
      BY <3>1, <3>2, <3>3
  <2>2. [i \in DOMAIN e |-> e[i] * e[i]] = [i \in DOMAIN d |-> d[i] * d[i]]
    BY <1>1, <2>1
  <2> QED
    BY <2>2 DEF Squares
<1>4. Total(e) * Total(e) = Total(d) * Total(d)
  <2>1. PICK x \in Int : x = Total(d)
    BY <1>2
  <2>2. (-x) * (-x) = x * x
    OBVIOUS
  <2> QED
    BY <1>2, <2>1, <2>2
<1> QED
  BY <1>2, <1>3, <1>4 DEF _compute_std

(* The square of the effect size, with its sign. *)
LEMMA EffectIs ==
  ASSUME NEW n \in Nat \ {0}, NEW d \in [1..n -> Int]
  PROVE  cohens_dz(d) = safe_divide((Total(d) * Magnitude(Total(d))) * _compute_std(d)[2],
                                    (n * n) * _compute_std(d)[1])
<1>1. d # <<>> /\ Len(d) = n
  OBVIOUS
<1> QED
  BY <1>1 DEF cohens_dz, Quotient, Times, mean, Absolute

(* The effect size turns its sign, and is positive only for a positive sum (cohens_dz). *)
LEMMA EffectMirror ==
  ASSUME NEW d, NEW e, NEW n, Reversed(d, e, n)
  PROVE  /\ Opposed(cohens_dz(d), cohens_dz(e))
         /\ d # <<>> /\ cohens_dz(d)[1] > 0 => Total(d) > 0
<1>1. n \in Nat /\ d \in [1..n -> Int] /\ e \in [1..n -> Int]
  BY DEF Reversed
<1>2. d = <<>> <=> e = <<>>
  BY Turned
<1>3. CASE d = <<>>
  BY <1>2, <1>3 DEF cohens_dz, Opposed
<1>4. CASE d # <<>>
  <2>1. n \in Nat \ {0}
    BY <1>1, <1>4, Turned
  <2>2. _compute_std(d) \in Ratios /\ _compute_std(e) = _compute_std(d)
    BY <1>1, <2>1, StdRatio, StdReversed
  <2>3. PICK t \in Int, v \in Int, w \in Nat \ {0} :
          t = Total(d) /\ v = _compute_std(d)[1] /\ w = _compute_std(d)[2]
    BY <2>2, TotalReversed DEF Ratios
  <2>4. Total(e) = -t /\ Magnitude(-t) = Magnitude(t) /\ Magnitude(t) \in Nat
    BY <2>3, TotalReversed, MagnitudeTurned
  <2>5. PICK g \in Nat : g = Magnitude(t)
    BY <2>4
  <2>6. cohens_dz(d) = safe_divide((t * g) * w, (n * n) * v)
    BY <1>1, <2>1, <2>3, <2>5, EffectIs
  <2>7. cohens_dz(e) = safe_divide(((-t) * g) * w, (n * n) * v)
    BY <1>1, <2>1, <2>2, <2>3, <2>4, <2>5, EffectIs
  <2>8. PICK x \in Int, y \in Int : x = (t * g) * w /\ y = (n * n) * v
    <3>1. (t * g) * w \in Int /\ (n * n) * v \in Int
      BY <1>1
    <3> QED
      BY <3>1
  <2>9. ((-t) * g) * w = -x
    <3>1. (-t) * g = -(t * g)
      OBVIOUS
    <3>2. PICK u \in Int : u = t * g
      OBVIOUS
    <3>3. (-u) * w = -(u * w)
      OBVIOUS
    <3> QED
      BY <2>8, <3>1, <3>2, <3>3
  <2>10. Opposed(cohens_dz(d), cohens_dz(e))
    BY <2>6, <2>7, <2>8, <2>9, SharesOpposed
  <2>11. ASSUME cohens_dz(d)[1] > 0 PROVE t > 0
    <3>1. (t * g) * w > 0
      BY <2>6, <2>8, <2>11 DEF safe_divide, Zero
    <3>2. PICK u \in Int : u = t * g
      OBVIOUS
    <3>3. u > 0
      BY <3>1, <3>2
    <3> QED
      BY <3>2, <3>3
  <2> QED
    BY <2>3, <2>10, <2>11
<1> QED
  BY <1>3, <1>4

(* Division by n leaves one remainder. *)
LEMMA OneRemainder ==
  ASSUME NEW n \in Nat \ {0}, NEW q \in Int, NEW r \in 0..n - 1,
         NEW u \in Int, NEW v \in 0..n - 1,
         n * q + r = n * u + v
  PROVE  r = v
<1>1. PICK c \in Int : c = q - u
  OBVIOUS
<1>2. n * c = v - r
  <2>1. n * (q - u) = n * q - n * u
    OBVIOUS
  <2> QED
    BY <1>1, <2>1
<1>3. c <= 0
  <2>1. SUFFICES ASSUME c >= 1 PROVE FALSE
    OBVIOUS
  <2>2. n * c >= n
    <3>1. PICK k \in Nat : c = k + 1
      BY <2>1
    <3>2. n * (k + 1) = n * k + n /\ n * k >= 0
      OBVIOUS
    <3> QED
      BY <3>1, <3>2
  <2> QED
    BY <1>2, <2>2
<1>4. c >= 0
  <2>1. SUFFICES ASSUME c <= -1 PROVE FALSE
    OBVIOUS
  <2>2. n * c <= -n
    <3>1. PICK k \in Nat : c = -(k + 1)
      <4>1. -c - 1 \in Nat /\ c = -((-c - 1) + 1)
        BY <2>1
      <4> QED
        BY <4>1
    <3>2. n * (-(k + 1)) = -(n * k) - n /\ n * k >= 0
      OBVIOUS
    <3> QED
      BY <3>1, <3>2
  <2> QED
    BY <1>2, <2>2
<1>5. c = 0 /\ n * 0 = 0
  BY <1>3, <1>4
<1> QED
  BY <1>2, <1>5

(* Remainders modulo n repeat after n numbers. *)
LEMMA Remainders ==
  ASSUME NEW n \in Nat \ {0}, NEW x \in Nat
  PROVE  x % n \in 0..n - 1 /\ (n + x) % n = x % n /\ (x < n => x % n = x)
<1>1. PICK q \in Int, r \in 0..n - 1 : x = n * q + r /\ r = x % n
  BY Z3
<1>2. PICK y \in Nat : y = n + x
  OBVIOUS
<1>3. PICK u \in Int, v \in 0..n - 1 : y = n * u + v /\ v = y % n
  BY Z3
<1>4. n * (q + 1) + r = n * u + v
  <2>1. n * (q + 1) = n * q + n
    OBVIOUS
  <2> QED
    BY <1>1, <1>2, <1>3, <2>1
<1>5. r = v
  <2>1. q + 1 \in Int
    OBVIOUS
  <2> QED
    BY <1>4, <2>1, OneRemainder
<1>6. x < n => r = x
  <2>1. SUFFICES ASSUME x < n PROVE r = x
    OBVIOUS
  <2>2. x \in 0..n - 1 /\ 0 \in Int /\ n * q + r = n * 0 + x
    BY <1>1, <2>1
  <2> QED
    BY <2>2, OneRemainder
<1> QED
  BY <1>1, <1>2, <1>3, <1>5, <1>6

(* The sample of a resample is the list turned by some places.             *)
TurnedBy(t, d, n, offset) ==
  /\ t \in [1..n -> Int]
  /\ \A i \in 1..n : t[i] = d[((i + offset - 2) % n) + 1]

(* A resample is such a turned list. *)
LEMMA TurnExists ==
  ASSUME NEW n \in Nat \ {0}, NEW d \in [1..n -> Int], NEW o \in Nat \ {0}
  PROVE  TurnedBy([i \in 1..n |-> d[((i + o - 2) % n) + 1]], d, n, o)
<1>1. ASSUME NEW i \in 1..n PROVE d[((i + o - 2) % n) + 1] \in Int
  <2>1. PICK x \in Nat : x = i + o - 2
    OBVIOUS
  <2>2. x % n \in 0..n - 1
    BY Remainders
  <2> QED
    BY <2>1, <2>2
<1> QED
  BY <1>1 DEF TurnedBy

(* Every resample has the sum of the sample. *)
LEMMA TurnedTotal ==
  ASSUME NEW n \in Nat \ {0}, NEW d \in [1..n -> Int], NEW o \in Nat \ {0}
  PROVE  Total([i \in 1..n |-> d[((i + o - 2) % n) + 1]]) = Total(d)
<1> DEFINE t(k) == [i \in 1..n |-> d[((i + k - 2) % n) + 1]]
           T == {k \in 0..o : k = 0 \/ Total(t(k)) = Total(d)}
<1>1. 0 \in T
  OBVIOUS
<1>2. ASSUME NEW k \in 1..o, k - 1 \in T PROVE k \in T
  <2>1. CASE k = 1
    <3>1. ASSUME NEW i \in 1..n PROVE d[((i + 1 - 2) % n) + 1] = d[i]
      <4>1. PICK x \in Nat : x = i + 1 - 2 /\ x < n /\ x + 1 = i
        OBVIOUS
      <4>2. x % n = x
        BY <4>1, Remainders
      <4> QED
        BY <4>1, <4>2
    <3>2. t(1) = d
      BY <3>1
    <3> HIDE DEF t
    <3> QED
      BY <2>1, <3>2
  <2>2. CASE k # 1
    <3>1. PICK h \in Nat \ {0} : h = k - 1
      BY <2>2
    <3>2. TurnedBy(t(h), d, n, h) /\ TurnedBy(t(k), d, n, k)
      <4>1. k \in Nat \ {0}
        OBVIOUS
      <4> QED
        BY <4>1, TurnExists
    <3>3. \A i \in 1..n - 1 : t(k)[i] = t(h)[i + 1]
      <4> SUFFICES ASSUME NEW i \in 1..n - 1 PROVE t(k)[i] = t(h)[i + 1]
        OBVIOUS
      <4>1. i \in 1..n /\ i + 1 \in 1..n /\ (i + 1) + h - 2 = i + k - 2
        BY <3>1
      <4> HIDE DEF t
      <4> QED
        BY <3>2, <4>1 DEF TurnedBy
    <3>4. t(k)[n] = t(h)[1]
      <4>1. PICK x \in Nat : x = 1 + h - 2 /\ n + k - 2 = n + x
        BY <3>1
      <4>2. (n + x) % n = x % n
        BY Remainders
      <4>3. 1 \in 1..n /\ n \in 1..n
        OBVIOUS
      <4> HIDE DEF t
      <4>4. t(k)[n] = d[((n + k - 2) % n) + 1]
        BY <3>2, <4>3 DEF TurnedBy
      <4>5. t(h)[1] = d[((1 + h - 2) % n) + 1]
        BY <3>2, <4>3 DEF TurnedBy
      <4> QED
        BY <4>1, <4>2, <4>4, <4>5
    <3> HIDE DEF t
    <3>5. t(h) \in [1..n -> Int] /\ t(k) \in [1..n -> Int]
      BY <3>2 DEF TurnedBy
    <3>6. Total(t(k)) = Total(t(h))
      BY <3>3, <3>4, <3>5, TotalTurned
    <3>7. Total(t(h)) = Total(d)
      BY <1>2, <3>1
    <3> QED
      BY <3>6, <3>7
  <2> QED
    BY <2>1, <2>2
<1>3. \A k \in 0..o : k \in T
  <2> HIDE DEF T
  <2> QED
    BY <1>1, <1>2, UpTo
<1>4. o \in T
  <2> HIDE DEF T
  <2> QED
    BY <1>3
<1> QED
  BY <1>4

(* The whole thousands of a number and the rest. *)
InThousands(x, f, r) ==
  f \in Int /\ r \in 0..999 /\ f = x \div 1000 /\ r = x % 1000 /\ x = 1000 * f + r

(* Every number is divided that way. *)
LEMMA Thousands ==
  ASSUME NEW x \in Nat
  PROVE  \E f, r : InThousands(x, f, r)
<1>1. \E f \in Int, r \in 0..999 : f = x \div 1000 /\ r = x % 1000 /\ x = 1000 * f + r
  OBVIOUS
<1> QED
  BY <1>1 DEF InThousands

(* A quantile interpolates at that position (_quantile). *)
LEMMA QuantileAt ==
  ASSUME NEW s, NEW p, NEW x, NEW f, NEW r, p * (Len(s) - 1) = x, InThousands(x, f, r)
  PROVE  _quantile(s, p) = IF r = 0 THEN <<s[f + 1], 1>>
                           ELSE <<s[f + 1] * 1000 + (s[f + 2] - s[f + 1]) * r, 1000>>
BY SMT DEF _quantile, InThousands

(* A quantile of a list whose elements are all the same.                   *)
Constantly(s, n, c) ==
  n \in Nat \ {0} /\ c \in Int /\ s \in [1..n -> Int] /\ \A i \in 1..n : s[i] = c
(* A ratio that is the number c, in whole or in thousandths. *)
Evenly(q, c) == q = <<c, 1>> \/ q = <<c * 1000, 1000>>
Thousandth(p) == p \in 0..1000

(* Its quantiles are that number (_quantile). *)
LEMMA QuantileOfSame ==
  ASSUME NEW s, NEW n, NEW c, Constantly(s, n, c), NEW p, Thousandth(p)
  PROVE  Evenly(_quantile(s, p), c)
<1> USE DEF Constantly, Evenly, Thousandth
<1>1. Len(s) = n
  OBVIOUS
<1>2. PICK m \in Nat : m = n - 1
  OBVIOUS
<1>3. PICK x \in Nat : x = p * m /\ x <= 1000 * m
  <2>1. PICK z \in Nat : z = 1000 - p
    OBVIOUS
  <2>2. z * m \in Nat /\ p * m \in Nat /\ (p + z) * m = p * m + z * m
    OBVIOUS
  <2>3. p + z = 1000
    BY <2>1
  <2> QED
    BY <2>2, <2>3
<1>4. PICK f, r : InThousands(x, f, r)
  <2> HIDE DEF Constantly, Evenly, Thousandth
  <2> QED
    BY Thousands
<1> USE <1>4 DEF InThousands
<1>5. f + 1 \in 1..n /\ (r # 0 => f + 2 \in 1..n)
  <2>1. n = m + 1
    BY <1>2
  <2> HIDE DEF Constantly, Evenly, Thousandth
  <2>2. f >= 0 /\ f <= m /\ (r # 0 => f < m)
    <3>1. x <= 1000 * m
      BY <1>3
    <3> QED
      BY <3>1
  <2> QED
    BY <2>1, <2>2
<1>6. _quantile(s, p) = IF r = 0 THEN <<s[f + 1], 1>>
                        ELSE <<s[f + 1] * 1000 + (s[f + 2] - s[f + 1]) * r, 1000>>
  <2> HIDE DEF Constantly, Evenly, Thousandth
  <2>1. p * (Len(s) - 1) = x
    <3>1. Len(s) - 1 = m
      BY <1>1, <1>2
    <3> QED
      BY <1>3, <3>1
  <2> HIDE <1>4 DEF InThousands
  <2> QED
    BY <1>4, <2>1, QuantileAt
<1>7. CASE r = 0
  BY <1>5, <1>6, <1>7
<1>8. CASE r # 0
  <2>1. s[f + 1] = c /\ s[f + 2] = c
    BY <1>5, <1>8
  <2>2. c * 1000 + (c - c) * r = c * 1000
    <3>1. c - c = 0 /\ 0 * r = 0
      OBVIOUS
    <3> QED
      BY <3>1
  <2> QED
    BY <1>6, <1>8, <2>1, <2>2
<1> QED
  BY <1>7, <1>8

(* Divided by n such a quantile is the ratio of c to n. *)
LEMMA ScaledMean ==
  ASSUME NEW n \in Nat \ {0}, NEW c \in Int, NEW q, Evenly(q, c)
  PROVE  AtMost(Quotient(q, <<n, 1>>), <<c, n>>) /\ AtMost(<<c, n>>, Quotient(q, <<n, 1>>))
<1>1. CASE q = <<c, 1>>
  <2>1. Quotient(q, <<n, 1>>) = <<c * 1, 1 * n>>
    BY <1>1 DEF Quotient, safe_divide
  <2>2. c * 1 = c /\ 1 * n = n /\ c * n \in Int
    OBVIOUS
  <2> QED
    BY <2>1, <2>2 DEF AtMost
<1>2. CASE q = <<c * 1000, 1000>>
  <2>1. Quotient(q, <<n, 1>>) = <<(c * 1000) * 1, 1000 * n>>
    BY <1>2 DEF Quotient, safe_divide
  <2>2. ((c * 1000) * 1) * n = c * (1000 * n) /\ c * (1000 * n) \in Int
    OBVIOUS
  <2> QED
    BY <2>1, <2>2 DEF AtMost
<1> QED
  BY <1>1, <1>2 DEF Evenly

(* The bootstrap interval holds the mean difference (bootstrap_ci). *)
LEMMA IntervalHolds ==
  ASSUME NEW n \in Nat \ {0}, NEW d \in [1..n -> Int]
  PROVE  AtMost(bootstrap_ci(d)[1], mean(d)) /\ AtMost(mean(d), bootstrap_ci(d)[2])
<1> DEFINE N == Resamples
           raw == [offset \in 1..N |-> Total([i \in 1..n |-> d[((i + offset - 2) % n) + 1]])]
           samples == Sorted(raw)
<1>1. d # <<>> /\ Len(d) = n /\ N \in Nat \ {0}
  BY StatisticsAssumption
<1>2. PICK c \in Int : c = Total(d)
  BY TotalType
<1>3. raw \in [1..N -> Int] /\ \A k \in 1..N : raw[k] = c
  <2>1. ASSUME NEW k \in 1..N PROVE raw[k] = c
    <3>1. k \in Nat \ {0}
      BY <1>1
    <3> QED
      BY <1>2, <3>1, TurnedTotal
  <2> QED
    BY <2>1
<1> HIDE DEF raw
<1>4. Ascends(samples, raw, N)
  <2>1. N \in Nat
    BY <1>1
  <2> QED
    BY <1>3, <2>1, SortedAscends
<1>5. samples \in [1..N -> Int] /\ \A k \in 1..N : samples[k] = c
  BY <1>3, <1>4 DEF Ascends
<1> HIDE DEF samples
<1>6. Evenly(_quantile(samples, 25), c) /\ Evenly(_quantile(samples, 975), c)
  <2> DEFINE low == 25
             high == 975
  <2>1. Thousandth(low) /\ Thousandth(high)
    BY DEF Thousandth
  <2> HIDE DEF low, high
  <2>2. Constantly(samples, N, c)
    BY <1>1, <1>5 DEF Constantly
  <2> HIDE DEF N
  <2>3. Evenly(_quantile(samples, low), c) /\ Evenly(_quantile(samples, high), c)
    BY <2>1, <2>2, QuantileOfSame, Zenon
  <2> QED
    BY <2>3 DEF low, high
<1>8. bootstrap_ci(d) = <<Quotient(_quantile(samples, 25), <<n, 1>>),
                          Quotient(_quantile(samples, 975), <<n, 1>>)>>
  BY <1>1 DEF bootstrap_ci, samples, raw
<1>9. mean(d) = <<c, n>>
  BY <1>1, <1>2 DEF mean
<1> QED
  <2>1. /\ bootstrap_ci(d)[1] = Quotient(_quantile(samples, 25), <<n, 1>>)
        /\ bootstrap_ci(d)[2] = Quotient(_quantile(samples, 975), <<n, 1>>)
    BY <1>8
  <2> QED
    BY <1>6, <1>9, <2>1, ScaledMean

(* The pairs of which the left one is greater, and of which it is less. *)
Outdone(l, r, n) == {p \in (1..n) \X (1..n) : l[p[1]] > r[p[2]]}
Undercut(l, r, n) == {p \in (1..n) \X (1..n) : l[p[1]] < r[p[2]]}

(* Exchanging the sides exchanges the two sets, pair by pair. *)
LEMMA PairsTurned ==
  ASSUME NEW n \in Nat, NEW l \in [1..n -> Int], NEW r \in [1..n -> Int]
  PROVE  /\ Cardinality(Outdone(r, l, n)) = Cardinality(Undercut(l, r, n))
         /\ Cardinality(Undercut(l, r, n)) \in Nat
<1> DEFINE S == Undercut(l, r, n)
           T == Outdone(r, l, n)
           D == (1..n) \X (1..n)
           f == [p \in S |-> <<p[2], p[1]>>]
<1>1. IsFiniteSet(S)
  <2>1. IsFiniteSet(1..n)
    BY FS_Interval
  <2>2. IsFiniteSet(D)
    BY <2>1, FS_Product
  <2>3. S \in SUBSET D
    BY DEF Undercut
  <2> QED
    BY <2>2, <2>3, FS_Subset
<1>2. f \in Bijection(S, T)
  <2>1. \A p \in S : f[p] \in T
    <3> SUFFICES ASSUME NEW p \in S PROVE f[p] \in T
      OBVIOUS
    <3>1. PICK i \in 1..n, j \in 1..n : p = <<i, j>> /\ l[i] < r[j]
      BY DEF Undercut
    <3>2. f[p] = <<j, i>>
      BY <3>1
    <3>3. l[i] \in Int /\ r[j] \in Int
      OBVIOUS
    <3> QED
      BY <3>1, <3>2, <3>3 DEF Outdone
  <2>2. \A p, q \in S : f[p] = f[q] => p = q
    <3> SUFFICES ASSUME NEW p \in S, NEW q \in S, f[p] = f[q] PROVE p = q
      OBVIOUS
    <3>1. p \in D /\ q \in D
      BY DEF Undercut
    <3>2. <<p[2], p[1]>> = <<q[2], q[1]>>
      OBVIOUS
    <3>3. p[2] = q[2] /\ p[1] = q[1]
      BY <3>2
    <3>4. p = <<p[1], p[2]>> /\ q = <<q[1], q[2]>>
      BY <3>1
    <3> QED
      BY <3>3, <3>4
  <2>3. \A q \in T : \E p \in S : f[p] = q
    <3> SUFFICES ASSUME NEW q \in T PROVE \E p \in S : f[p] = q
      OBVIOUS
    <3>1. PICK i \in 1..n, j \in 1..n : q = <<j, i>> /\ r[j] > l[i]
      BY DEF Outdone
    <3>2. l[i] \in Int /\ r[j] \in Int
      OBVIOUS
    <3>3. <<i, j>> \in S
      BY <3>1, <3>2 DEF Undercut
    <3> QED
      BY <3>1, <3>3
  <2> HIDE DEF S, T
  <2>4. f \in [S -> T]
    BY <2>1
  <2> HIDE DEF f
  <2>5. f \in Injection(S, T)
    BY <2>2, <2>4 DEF Injection, IsInjective
  <2>6. f \in Surjection(S, T)
    BY <2>3, <2>4 DEF Surjection
  <2> QED
    BY <2>5, <2>6 DEF Bijection, Injection, Surjection
<1>3. ExistsBijection(S, T)
  BY <1>2 DEF ExistsBijection
<1> QED
  BY <1>1, <1>3, FS_Bijection, FS_CardinalityType

(* So the delta turns its sign (cliffs_delta). *)
LEMMA CliffMirror ==
  ASSUME NEW n \in Nat \ {0}, NEW l \in [1..n -> Int], NEW r \in [1..n -> Int]
  PROVE  cliffs_delta(l, r)[1] = -cliffs_delta(r, l)[1]
<1>1. l # <<>> /\ r # <<>> /\ DOMAIN l = 1..n /\ DOMAIN r = 1..n
  OBVIOUS
<1>2. cliffs_delta(l, r)[1] = Cardinality(Outdone(l, r, n)) - Cardinality(Undercut(l, r, n))
  BY <1>1 DEF cliffs_delta, Outdone, Undercut
<1>3. cliffs_delta(r, l)[1] = Cardinality(Outdone(r, l, n)) - Cardinality(Undercut(r, l, n))
  BY <1>1 DEF cliffs_delta, Outdone, Undercut
<1>4. PICK x \in Nat : x = Cardinality(Undercut(l, r, n)) /\ x = Cardinality(Outdone(r, l, n))
  BY PairsTurned
<1>5. PICK y \in Nat : y = Cardinality(Undercut(r, l, n)) /\ y = Cardinality(Outdone(l, r, n))
  BY PairsTurned
<1> QED
  BY <1>2, <1>3, <1>4, <1>5

(* What a comparison says of a metric, for two finished runs. *)
StatisticsSound(a, b, m) ==
  LET s == Statistics(a, b)[m]
      from == Statistics(b, a)[m]
      d == Differences(a, b, m)
      pairs == _paired_values(a, b, m)
  IN /\ s.p_value = from.p_value
     /\ Opposed(s.rank_biserial, from.rank_biserial)
     /\ Opposed(s.effect_size, from.effect_size)
     /\ d # <<>> =>
          /\ s.p_value[1] > 0 /\ AtMost(s.p_value, One)
          /\ AtMost(s.interval[1], mean(d)) /\ AtMost(mean(d), s.interval[2])
          /\ s.effect_size[1] > 0 => Total(d) > 0
          /\ cliffs_delta(pairs.left, pairs.right)[1]
                = -cliffs_delta(pairs.right, pairs.left)[1]

(* The statistics of two finished runs are sound, in both orders. *)
LEMMA StatisticsMirror ==
  ASSUME NEW a, NEW b, NumberTable(a.results), NumberTable(b.results),
         NEW m \in DOMAIN a.aggregates \cap DOMAIN b.aggregates
  PROVE  StatisticsSound(a, b, m)
<1> DEFINE d == Differences(a, b, m)
           e == Differences(b, a, m)
           pairs == _paired_values(a, b, m)
<1>1. PICK n : Reversed(d, e, n)
  BY DifferencesReverse
<1>2. /\ Statistics(a, b)[m].p_value = paired_permutation_pvalue(d)
      /\ Statistics(a, b)[m].rank_biserial = rank_biserial(d)
      /\ Statistics(a, b)[m].effect_size = cohens_dz(d)
      /\ Statistics(a, b)[m].interval = bootstrap_ci(d)
  BY DEF Statistics
<1>3. /\ Statistics(b, a)[m].p_value = paired_permutation_pvalue(e)
      /\ Statistics(b, a)[m].rank_biserial = rank_biserial(e)
      /\ Statistics(b, a)[m].effect_size = cohens_dz(e)
  BY DEF Statistics
<1>4. PICK k \in Nat : pairs.left \in [1..k -> Int] /\ pairs.right \in [1..k -> Int]
  BY PairsTyped
<1>5. Len(d) = k
  <2>1. DOMAIN pairs.left = 1..k
    BY <1>4
  <2>2. DOMAIN d = 1..k
    BY <2>1 DEF Differences
  <2>3. DOMAIN d = 1..n /\ n \in Nat /\ Len(d) = n
    BY <1>1, Turned DEF Reversed
  <2> QED
    BY <1>4, <2>2, <2>3
<1> HIDE DEF d, e, pairs
<1>6. /\ paired_permutation_pvalue(d) = paired_permutation_pvalue(e)
      /\ d # <<>> => /\ paired_permutation_pvalue(d)[1] > 0
                     /\ AtMost(paired_permutation_pvalue(d), One)
  BY <1>1, PValueSound
<1>7. Opposed(rank_biserial(d), rank_biserial(e))
  BY <1>1, RankMirror
<1>8. /\ Opposed(cohens_dz(d), cohens_dz(e))
      /\ d # <<>> /\ cohens_dz(d)[1] > 0 => Total(d) > 0
  BY <1>1, EffectMirror
<1>9. ASSUME d # <<>>
      PROVE  /\ AtMost(bootstrap_ci(d)[1], mean(d)) /\ AtMost(mean(d), bootstrap_ci(d)[2])
             /\ cliffs_delta(pairs.left, pairs.right)[1] = -cliffs_delta(pairs.right, pairs.left)[1]
  <2>1. n \in Nat \ {0} /\ d \in [1..n -> Int] /\ k = n
    BY <1>1, <1>5, <1>9, Turned DEF Reversed
  <2>2. AtMost(bootstrap_ci(d)[1], mean(d)) /\ AtMost(mean(d), bootstrap_ci(d)[2])
    BY <2>1, IntervalHolds
  <2>3. cliffs_delta(pairs.left, pairs.right)[1] = -cliffs_delta(pairs.right, pairs.left)[1]
    BY <1>4, <2>1, CliffMirror
  <2> QED
    BY <2>2, <2>3
<1> QED
  BY <1>2, <1>3, <1>6, <1>7, <1>8, <1>9 DEF StatisticsSound, d, pairs

-----------------------------------------------------------------------------
(* Running extremes *)

(* The greater and the smaller of two ratios are ratios. *)
LEMMA ExtremesTyped ==
  \A a, b \in Ratios : Larger(a, b) \in Ratios /\ Smaller(a, b) \in Ratios
BY DEF Larger, Smaller

(* A running maximum takes one element after the other. *)
LEMMA LargestPrefix ==
  ASSUME NEW n \in Nat, NEW s \in [1..n -> Ratios]
  PROVE  \E P \in [0..n -> Ratios] :
           /\ P[0] = Zero /\ FoldLeft(Larger, Zero, s) = P[n]
           /\ \A k \in 1..n : P[k] = Larger(P[k - 1], s[k])
<1> DEFINE D == 1..n
           Body(g) == [S \in SUBSET DOMAIN s |-> IF S = {} THEN Zero
                                                 ELSE Larger(g[S \ {Max(S)}], s[Max(S)])]
           h == CHOOSE g : g = Body(g)
           pick == [S \in SUBSET D |-> Max(S)]
           step == [e \in D \X Ratios |-> Larger(e[2], s[e[1]])]
<1>1. IsFiniteSet(D)
  BY FS_Interval
<1>2. ASSUME NEW S \in SUBSET D, S # {} PROVE Max(S) \in S
  BY <1>2, MaxIsLast
<1>3. PICK g : IsFold(g, D, Ratios, Zero, pick, step)
  <2>1. step \in [D \X Ratios -> Ratios]
    BY ExtremesTyped
  <2>2. Picks(pick, D)
    BY <1>2 DEF Picks
  <2>3. Zero \in Ratios
    BY DEF Ratios, Zero
  <2> HIDE DEF step, pick, D
  <2> QED
    BY <1>1, <2>1, <2>2, <2>3, FoldExists
<1> USE DEF IsFold
<1>4. g = Body(g)
  <2>1. ASSUME NEW S \in SUBSET D, S # {} PROVE g[S] = Larger(g[S \ {Max(S)}], s[Max(S)])
    <3>1. Max(S) \in D /\ g[S \ {Max(S)}] \in Ratios
      BY <1>2, <1>3, <2>1
    <3>2. step[<<Max(S), g[S \ {Max(S)}]>>] = Larger(g[S \ {Max(S)}], s[Max(S)])
      BY <3>1
    <3> QED
      BY <1>3, <2>1, <3>2
  <2>2. g[{}] = Zero
    BY <1>3
  <2> QED
    BY <1>3, <2>1, <2>2
<1>5. h = Body(h)
  <2>1. \E x : x = Body(x)
    BY <1>4
  <2> HIDE DEF Body
  <2> QED
    BY <2>1
<1>6. FoldLeft(Larger, Zero, s) = h[DOMAIN s]
  <2>1. \E x : x = Body(x)
    BY <1>4
  <2> QED
    BY <2>1 DEF FoldLeft, MapThenFoldSet
<1> HIDE DEF h
<1>7. h[{}] = Zero
  BY <1>5
<1>8. ASSUME NEW k \in 1..n PROVE h[1..k] = Larger(h[1..k - 1], s[k])
  <2>1. Max(1..k) = k
    BY DEF Max
  <2>2. /\ (1..k) \ {k} = 1..k - 1
        /\ 1..k # {}
        /\ 1..k \in SUBSET DOMAIN s
    <3>1. k \in 1..k
      OBVIOUS
    <3>2. DOMAIN s = 1..n
      OBVIOUS
    <3>3. (1..k) \ {k} = 1..k - 1
      OBVIOUS
    <3>4. 1..k \in SUBSET DOMAIN s
      BY <3>2
    <3> QED
      BY <3>1, <3>3, <3>4
  <2>3. \A S \in SUBSET DOMAIN s : S # {} => h[S] = Larger(h[S \ {Max(S)}], s[Max(S)])
    BY <1>5
  <2>4. h[1..k] = Larger(h[(1..k) \ {Max(1..k)}], s[Max(1..k)])
    BY <2>2, <2>3
  <2> QED
    BY <2>1, <2>2, <2>4
<1> DEFINE T == {k \in 0..n : h[1..k] \in Ratios}
<1>9. \A k \in 0..n : k \in T
  <2>0. Zero \in Ratios
    BY DEF Ratios, Zero
  <2>1. 0 \in T
    <3>1. 1..0 = {}
      OBVIOUS
    <3> QED
      BY <1>7, <2>0, <3>1
  <2>2. \A k \in 1..n : k - 1 \in T => k \in T
    BY <1>8, ExtremesTyped
  <2> HIDE DEF T
  <2> QED
    BY <2>1, <2>2, UpTo
<1> DEFINE P == [k \in 0..n |-> h[1..k]]
<1>10. P \in [0..n -> Ratios]
  BY <1>9
<1>11. P[0] = Zero
  <2>1. 1..0 = {}
    OBVIOUS
  <2> QED
    BY <1>7, <2>1
<1>12. \A k \in 1..n : P[k] = Larger(P[k - 1], s[k])
  BY <1>8
<1>13. FoldLeft(Larger, Zero, s) = P[n]
  BY <1>6
<1> QED
  BY <1>10, <1>11, <1>12, <1>13

(* So does a running minimum. *)
LEMMA SmallestPrefix ==
  ASSUME NEW n \in Nat, NEW s \in [1..n -> Ratios]
  PROVE  \E P \in [0..n -> Ratios] :
           /\ P[0] = One /\ FoldLeft(Smaller, One, s) = P[n]
           /\ \A k \in 1..n : P[k] = Smaller(P[k - 1], s[k])
<1> DEFINE D == 1..n
           Body(g) == [S \in SUBSET DOMAIN s |-> IF S = {} THEN One
                                                 ELSE Smaller(g[S \ {Max(S)}], s[Max(S)])]
           h == CHOOSE g : g = Body(g)
           pick == [S \in SUBSET D |-> Max(S)]
           step == [e \in D \X Ratios |-> Smaller(e[2], s[e[1]])]
<1>1. IsFiniteSet(D)
  BY FS_Interval
<1>2. ASSUME NEW S \in SUBSET D, S # {} PROVE Max(S) \in S
  BY <1>2, MaxIsLast
<1>3. PICK g : IsFold(g, D, Ratios, One, pick, step)
  <2>1. step \in [D \X Ratios -> Ratios]
    BY ExtremesTyped
  <2>2. Picks(pick, D)
    BY <1>2 DEF Picks
  <2>3. One \in Ratios
    BY DEF Ratios, One
  <2> HIDE DEF step, pick, D
  <2> QED
    BY <1>1, <2>1, <2>2, <2>3, FoldExists
<1> USE DEF IsFold
<1>4. g = Body(g)
  <2>1. ASSUME NEW S \in SUBSET D, S # {} PROVE g[S] = Smaller(g[S \ {Max(S)}], s[Max(S)])
    <3>1. Max(S) \in D /\ g[S \ {Max(S)}] \in Ratios
      BY <1>2, <1>3, <2>1
    <3>2. step[<<Max(S), g[S \ {Max(S)}]>>] = Smaller(g[S \ {Max(S)}], s[Max(S)])
      BY <3>1
    <3> QED
      BY <1>3, <2>1, <3>2
  <2>2. g[{}] = One
    BY <1>3
  <2> QED
    BY <1>3, <2>1, <2>2
<1>5. h = Body(h)
  <2>1. \E x : x = Body(x)
    BY <1>4
  <2> HIDE DEF Body
  <2> QED
    BY <2>1
<1>6. FoldLeft(Smaller, One, s) = h[DOMAIN s]
  <2>1. \E x : x = Body(x)
    BY <1>4
  <2> QED
    BY <2>1 DEF FoldLeft, MapThenFoldSet
<1> HIDE DEF h
<1>7. h[{}] = One
  BY <1>5
<1>8. ASSUME NEW k \in 1..n PROVE h[1..k] = Smaller(h[1..k - 1], s[k])
  <2>1. Max(1..k) = k
    BY DEF Max
  <2>2. /\ (1..k) \ {k} = 1..k - 1
        /\ 1..k # {}
        /\ 1..k \in SUBSET DOMAIN s
    <3>1. k \in 1..k
      OBVIOUS
    <3>2. DOMAIN s = 1..n
      OBVIOUS
    <3>3. (1..k) \ {k} = 1..k - 1
      OBVIOUS
    <3>4. 1..k \in SUBSET DOMAIN s
      BY <3>2
    <3> QED
      BY <3>1, <3>3, <3>4
  <2>3. \A S \in SUBSET DOMAIN s : S # {} => h[S] = Smaller(h[S \ {Max(S)}], s[Max(S)])
    BY <1>5
  <2>4. h[1..k] = Smaller(h[(1..k) \ {Max(1..k)}], s[Max(1..k)])
    BY <2>2, <2>3
  <2> QED
    BY <2>1, <2>2, <2>4
<1> DEFINE T == {k \in 0..n : h[1..k] \in Ratios}
<1>9. \A k \in 0..n : k \in T
  <2>0. One \in Ratios
    BY DEF Ratios, One
  <2>1. 0 \in T
    <3>1. 1..0 = {}
      OBVIOUS
    <3> QED
      BY <1>7, <2>0, <3>1
  <2>2. \A k \in 1..n : k - 1 \in T => k \in T
    BY <1>8, ExtremesTyped
  <2> HIDE DEF T
  <2> QED
    BY <2>1, <2>2, UpTo
<1> DEFINE P == [k \in 0..n |-> h[1..k]]
<1>10. P \in [0..n -> Ratios]
  BY <1>9
<1>11. P[0] = One
  <2>1. 1..0 = {}
    OBVIOUS
  <2> QED
    BY <1>7, <2>1
<1>12. \A k \in 1..n : P[k] = Smaller(P[k - 1], s[k])
  BY <1>8
<1>13. FoldLeft(Smaller, One, s) = P[n]
  BY <1>6
<1> QED
  BY <1>10, <1>11, <1>12, <1>13

(* x is the greatest of s, or zero when that is greater. *)
Peak(x, s, n) ==
  /\ x \in Ratios /\ AtMost(Zero, x)
  /\ \A i \in 1..n : AtMost(s[i], x)
  /\ x = Zero \/ \E i \in 1..n : x = s[i]

(* The fold with Larger is the peak of a list. *)
LEMMA LargestPeak ==
  ASSUME NEW n \in Nat, NEW s \in [1..n -> Ratios]
  PROVE  Peak(FoldLeft(Larger, Zero, s), s, n)
<1>1. PICK P \in [0..n -> Ratios] :
        /\ P[0] = Zero /\ FoldLeft(Larger, Zero, s) = P[n]
        /\ \A k \in 1..n : P[k] = Larger(P[k - 1], s[k])
  BY LargestPrefix
<1> DEFINE T == {k \in 0..n : Peak(P[k], s, k)}
<1>2. 0 \in T
  BY <1>1, RatioOrder DEF Peak
<1>3. ASSUME NEW k \in 1..n, k - 1 \in T PROVE k \in T
  <2>1. PICK a \in Ratios, b \in Ratios : a = P[k - 1] /\ b = s[k]
    OBVIOUS
  <2>2. Peak(a, s, k - 1) /\ P[k] = Larger(a, b)
    BY <1>1, <1>3, <2>1
  <2>3. Larger(a, b) \in Ratios /\ AtMost(a, Larger(a, b)) /\ AtMost(b, Larger(a, b))
        /\ Larger(a, b) \in {a, b}
    BY RatioOrder DEF Larger
  <2>4. Zero \in Ratios
    BY DEF Zero, Ratios
  <2>5. AtMost(Zero, Larger(a, b))
    BY <2>2, <2>3, <2>4, RatioOrder DEF Peak
  <2>6. ASSUME NEW i \in 1..k PROVE AtMost(s[i], Larger(a, b))
    <3>1. CASE i = k
      BY <2>1, <2>3, <3>1
    <3>2. CASE i # k
      <4>1. i \in 1..k - 1 /\ s[i] \in Ratios
        BY <3>2
      <4>2. AtMost(s[i], a)
        BY <2>2, <4>1 DEF Peak
      <4> QED
        BY <2>3, <4>1, <4>2, RatioOrder
    <3> QED
      BY <3>1, <3>2
  <2>7. Larger(a, b) = Zero \/ \E i \in 1..k : Larger(a, b) = s[i]
    <3>1. CASE Larger(a, b) = b
      BY <2>1, <3>1
    <3>2. CASE Larger(a, b) = a
      <4>1. \A i \in 1..k - 1 : i \in 1..k
        OBVIOUS
      <4> QED
        BY <2>2, <3>2, <4>1 DEF Peak
    <3> QED
      BY <2>3, <3>1, <3>2
  <2> QED
    BY <2>2, <2>3, <2>5, <2>6, <2>7 DEF Peak
<1> HIDE DEF T
<1>4. \A k \in 0..n : k \in T
  BY <1>2, <1>3, UpTo
<1>5. n \in T
  BY <1>4
<1> QED
  BY <1>1, <1>5 DEF T

(* x is the smallest of s, or one when that is smaller. *)
Bottom(x, s, n) ==
  /\ x \in Ratios /\ AtMost(x, One)
  /\ \A i \in 1..n : AtMost(x, s[i])
  /\ x = One \/ \E i \in 1..n : x = s[i]

(* The fold with Smaller is the bottom of a list. *)
LEMMA SmallestBottom ==
  ASSUME NEW n \in Nat, NEW s \in [1..n -> Ratios]
  PROVE  Bottom(FoldLeft(Smaller, One, s), s, n)
<1>1. PICK P \in [0..n -> Ratios] :
        /\ P[0] = One /\ FoldLeft(Smaller, One, s) = P[n]
        /\ \A k \in 1..n : P[k] = Smaller(P[k - 1], s[k])
  BY SmallestPrefix
<1> DEFINE T == {k \in 0..n : Bottom(P[k], s, k)}
<1>2. 0 \in T
  BY <1>1, RatioOrder DEF Bottom
<1>3. ASSUME NEW k \in 1..n, k - 1 \in T PROVE k \in T
  <2>1. PICK a \in Ratios, b \in Ratios : a = P[k - 1] /\ b = s[k]
    OBVIOUS
  <2>2. Bottom(a, s, k - 1) /\ P[k] = Smaller(a, b)
    BY <1>1, <1>3, <2>1
  <2>3. Smaller(a, b) \in Ratios /\ AtMost(Smaller(a, b), a) /\ AtMost(Smaller(a, b), b)
        /\ Smaller(a, b) \in {a, b}
    BY RatioOrder DEF Smaller
  <2>4. One \in Ratios
    BY DEF One, Ratios
  <2>5. AtMost(Smaller(a, b), One)
    BY <2>2, <2>3, <2>4, RatioOrder DEF Bottom
  <2>6. ASSUME NEW i \in 1..k PROVE AtMost(Smaller(a, b), s[i])
    <3>1. CASE i = k
      BY <2>1, <2>3, <3>1
    <3>2. CASE i # k
      <4>1. i \in 1..k - 1 /\ s[i] \in Ratios
        BY <3>2
      <4>2. AtMost(a, s[i])
        BY <2>2, <4>1 DEF Bottom
      <4> QED
        BY <2>3, <4>1, <4>2, RatioOrder
    <3> QED
      BY <3>1, <3>2
  <2>7. Smaller(a, b) = One \/ \E i \in 1..k : Smaller(a, b) = s[i]
    <3>1. CASE Smaller(a, b) = b
      BY <2>1, <3>1
    <3>2. CASE Smaller(a, b) = a
      <4>1. \A i \in 1..k - 1 : i \in 1..k
        OBVIOUS
      <4> QED
        BY <2>2, <3>2, <4>1 DEF Bottom
    <3> QED
      BY <2>3, <3>1, <3>2
  <2> QED
    BY <2>2, <2>3, <2>5, <2>6, <2>7 DEF Bottom
<1> HIDE DEF T
<1>4. \A k \in 0..n : k \in T
  BY <1>2, <1>3, UpTo
<1>5. n \in T
  BY <1>4
<1> QED
  BY <1>1, <1>5 DEF T

-----------------------------------------------------------------------------
(* Corrections for the number of tests *)

(* Ratios that are not negative. *)
Shares == Nat \X (Nat \ {0})

(* Shares are ratios, zero and one among them. *)
LEMMA SharesAreRatios ==
  Shares \in SUBSET Ratios /\ Zero \in Shares /\ One \in Shares
BY DEF Shares, Ratios, Zero, One

(* A product of natural numbers grows with both factors. *)
LEMMA ProductGrows ==
  ASSUME NEW a \in Nat, NEW b \in Nat, NEW c \in Nat, NEW d \in Nat, a <= c, b <= d
  PROVE  a * b <= c * d
<1>1. a * b <= c * b
  BY Monotone
<1>2. c * b <= c * d
  <2>1. b * c <= d * c
    BY Monotone
  <2> QED
    BY <2>1
<1>3. a * b \in Int /\ c * b \in Int /\ c * d \in Int
  OBVIOUS
<1> QED
  BY <1>1, <1>2, <1>3

(* a is at most c and b at most d. *)
Dominated(a, b, c, d) ==
  /\ a \in Shares /\ b \in Shares /\ c \in Shares /\ d \in Shares
  /\ AtMost(a, c) /\ AtMost(b, d)

(* So is a product of shares. *)
LEMMA TimesGrows ==
  ASSUME NEW a, NEW b, NEW c, NEW d, Dominated(a, b, c, d)
  PROVE  Times(a, b) \in Shares /\ AtMost(Times(a, b), Times(c, d))
<1>1. PICK a1 \in Nat, a2 \in Nat \ {0}, b1 \in Nat, b2 \in Nat \ {0},
           c1 \in Nat, c2 \in Nat \ {0}, d1 \in Nat, d2 \in Nat \ {0} :
        a = <<a1, a2>> /\ b = <<b1, b2>> /\ c = <<c1, c2>> /\ d = <<d1, d2>>
  <2>1. \A r \in Shares : r = <<r[1], r[2]>> /\ r[1] \in Nat /\ r[2] \in Nat \ {0}
    BY DEF Shares
  <2> QED
    BY <2>1 DEF Dominated
<1>2. a1 * c2 <= c1 * a2 /\ b1 * d2 <= d1 * b2
  BY <1>1 DEF Dominated, AtMost
<1>3. (a1 * c2) * (b1 * d2) <= (c1 * a2) * (d1 * b2)
  <2>1. a1 * c2 \in Nat /\ b1 * d2 \in Nat /\ c1 * a2 \in Nat /\ d1 * b2 \in Nat
    OBVIOUS
  <2> QED
    BY <1>2, <2>1, ProductGrows
<1>4. /\ (a1 * c2) * (b1 * d2) = (a1 * b1) * (c2 * d2)
      /\ (c1 * a2) * (d1 * b2) = (c1 * d1) * (a2 * b2)
  OBVIOUS
<1>5. Times(a, b) = <<a1 * b1, a2 * b2>> /\ Times(c, d) = <<c1 * d1, c2 * d2>>
  BY <1>1 DEF Times
<1>6. a1 * b1 \in Nat /\ a2 * b2 \in Nat \ {0}
  <2>1. a2 * b2 \in Nat /\ a2 * b2 # 0
    OBVIOUS
  <2> QED
    BY <2>1
<1> QED
  BY <1>3, <1>4, <1>5, <1>6 DEF AtMost, Shares

(* The p-values by rank.                                                   *)
Graded(q, n) ==
  /\ n \in Nat /\ q \in [1..n -> Shares]
  /\ \A j, k \in 1..n : j <= k => AtMost(q[j], q[k])
  /\ \A k \in 1..n : AtMost(q[k], One)
HolmStep(q, n)  == [k \in 1..n |-> Smaller(One, Times(<<n - k + 1, 1>>, q[k]))]
HochStep(q, n)  == [k \in 1..n |-> Times(q[k], <<n, k>>)]
(* H holds the running maxima of s, B the running minima from the end. *)
Highest(H, s, n) ==
  \A k \in 1..n : /\ H[k] \in Ratios /\ \A j \in 1..k : AtMost(s[j], H[k])
                  /\ AtMost(Zero, H[k])
                  /\ H[k] = Zero \/ \E j \in 1..k : H[k] = s[j]
Lowest(B, s, n) ==
  \A k \in 1..n : /\ B[k] \in Ratios /\ \A j \in k..n : AtMost(B[k], s[j])
                  /\ AtMost(B[k], One)
                  /\ B[k] = One \/ \E j \in k..n : B[k] = s[j]

(* The corrected values are ratios before the order is restored. *)
LEMMA StepsTyped ==
  ASSUME NEW q, NEW n, Graded(q, n)
  PROVE  HolmStep(q, n) \in [1..n -> Ratios] /\ HochStep(q, n) \in [1..n -> Ratios]
<1> USE DEF Graded
<1>1. ASSUME NEW k \in 1..n
      PROVE  /\ Smaller(One, Times(<<n - k + 1, 1>>, q[k])) \in Ratios
             /\ Times(q[k], <<n, k>>) \in Ratios
  <2>1. <<n - k + 1, 1>> \in Shares /\ <<n, k>> \in Shares /\ q[k] \in Shares
    BY DEF Shares
  <2>2. /\ Dominated(<<n - k + 1, 1>>, q[k], <<n - k + 1, 1>>, q[k])
        /\ Dominated(q[k], <<n, k>>, q[k], <<n, k>>)
    BY <2>1, SharesAreRatios, RatioOrder DEF Dominated
  <2>3. Times(<<n - k + 1, 1>>, q[k]) \in Shares /\ Times(q[k], <<n, k>>) \in Shares
    BY <2>2, TimesGrows
  <2> QED
    BY <2>3, SharesAreRatios, ExtremesTyped
<1> QED
  BY <1>1 DEF HolmStep, HochStep

(* The correction of Benjamini and Hochberg raises a p-value. *)
LEMMA HochAboveValue ==
  ASSUME NEW q, NEW n, Graded(q, n), NEW k \in 1..n
  PROVE  AtMost(q[k], HochStep(q, n)[k])
<1> USE DEF Graded
<1>1. <<n, k>> \in Shares /\ AtMost(One, <<n, k>>) /\ q[k] \in Shares
  <2>1. n \in Nat /\ k \in Nat \ {0} /\ k <= n
    OBVIOUS
  <2> HIDE DEF Graded
  <2>2. <<n, k>> \in Shares
    BY <2>1 DEF Shares
  <2>3. AtMost(One, <<n, k>>)
    <3>1. One[1] = 1 /\ One[2] = 1
      BY DEF One
    <3>2. <<n, k>>[1] = n /\ <<n, k>>[2] = k
      OBVIOUS
    <3>3. 1 * k <= n * 1
      BY <2>1
    <3> QED
      BY <3>1, <3>2, <3>3 DEF AtMost
  <2>4. q[k] \in Shares
    BY DEF Graded
  <2> QED
    BY <2>2, <2>3, <2>4
<1>2. Dominated(q[k], One, q[k], <<n, k>>)
  BY <1>1, SharesAreRatios, RatioOrder DEF Dominated
<1>3. AtMost(Times(q[k], One), Times(q[k], <<n, k>>))
  BY <1>2, TimesGrows
<1>4. Times(q[k], One) = q[k]
  <2>1. PICK x \in Nat, y \in Nat \ {0} : q[k] = <<x, y>>
    BY <1>1 DEF Shares
  <2> QED
    BY <2>1 DEF Times, One
<1> QED
  BY <1>3, <1>4 DEF HochStep

(* That of Holm raises it at least as much, up to one. *)
LEMMA HolmAboveHoch ==
  ASSUME NEW q, NEW n, Graded(q, n), NEW k \in 1..n
  PROVE  HolmStep(q, n)[k] = One \/ AtMost(HochStep(q, n)[k], HolmStep(q, n)[k])
<1> USE DEF Graded
<1>1. <<n, k>> \in Shares /\ <<n - k + 1, 1>> \in Shares /\ q[k] \in Shares
  BY DEF Shares
<1>2. AtMost(<<n, k>>, <<n - k + 1, 1>>)
  <2>1. PICK a \in Nat, b \in Nat : a = k - 1 /\ b = n - k
    OBVIOUS
  <2>2. a * b >= 0 /\ (b + 1) * (a + 1) = a * b + a + b + 1
    OBVIOUS
  <2>3. n - k + 1 = b + 1 /\ k = a + 1 /\ n = a + b + 1
    BY <2>1
  <2>4. n * 1 <= (n - k + 1) * k
    BY <2>2, <2>3
  <2> QED
    BY <2>4 DEF AtMost
<1>3. Dominated(<<n, k>>, q[k], <<n - k + 1, 1>>, q[k])
  BY <1>1, <1>2, SharesAreRatios, RatioOrder DEF Dominated
<1>4. AtMost(Times(<<n, k>>, q[k]), Times(<<n - k + 1, 1>>, q[k]))
  BY <1>3, TimesGrows
<1>5. Times(<<n, k>>, q[k]) = Times(q[k], <<n, k>>)
  <2>1. PICK x \in Nat, y \in Nat \ {0} : q[k] = <<x, y>>
    BY <1>1 DEF Shares
  <2> QED
    BY <2>1 DEF Times
<1> QED
  BY <1>4, <1>5 DEF HolmStep, HochStep, Smaller

(* Values that are the same are corrected the same or less at a later rank. *)
LEMMA LaterIsLess ==
  ASSUME NEW q, NEW n, Graded(q, n), NEW j \in 1..n, NEW k \in j..n, AtMost(q[k], q[j])
  PROVE  /\ AtMost(HolmStep(q, n)[k], HolmStep(q, n)[j])
         /\ AtMost(HochStep(q, n)[k], HochStep(q, n)[j])
<1> USE DEF Graded
<1>1. /\ q[j] \in Shares /\ q[k] \in Shares
      /\ <<n, k>> \in Shares /\ <<n, j>> \in Shares
      /\ <<n - k + 1, 1>> \in Shares /\ <<n - j + 1, 1>> \in Shares
  <2>1. k \in 1..n /\ n \in Nat /\ k \in Nat \ {0} /\ j \in Nat \ {0}
    OBVIOUS
  <2>2. <<n, k>> \in Shares /\ <<n, j>> \in Shares
    BY <2>1 DEF Shares
  <2>3. PICK x \in Nat, y \in Nat : x = n - k + 1 /\ y = n - j + 1
    BY <2>1
  <2>4. <<x, 1>> \in Shares /\ <<y, 1>> \in Shares
    BY DEF Shares
  <2> QED
    BY <2>1, <2>2, <2>3, <2>4
<1>2. AtMost(<<n, k>>, <<n, j>>)
  <2>1. j * n <= k * n
    BY Monotone
  <2>2. n * j = j * n /\ n * k = k * n
    OBVIOUS
  <2> QED
    BY <2>1, <2>2 DEF AtMost
<1>3. AtMost(<<n - k + 1, 1>>, <<n - j + 1, 1>>)
  BY DEF AtMost
<1>4. Dominated(<<n - k + 1, 1>>, q[k], <<n - j + 1, 1>>, q[j])
      /\ Dominated(q[k], <<n, k>>, q[j], <<n, j>>)
      /\ Dominated(<<n - j + 1, 1>>, q[j], <<n - j + 1, 1>>, q[j])
  BY <1>1, <1>2, <1>3, SharesAreRatios, RatioOrder DEF Dominated
<1> DEFINE u == Times(<<n - k + 1, 1>>, q[k])
           v == Times(<<n - j + 1, 1>>, q[j])
<1>5. /\ AtMost(u, v) /\ AtMost(Times(q[k], <<n, k>>), Times(q[j], <<n, j>>))
      /\ u \in Shares /\ v \in Shares
  BY <1>4, TimesGrows
<1> HIDE DEF u, v
<1>6. AtMost(Smaller(One, u), Smaller(One, v))
  <2>1. u \in Ratios /\ v \in Ratios /\ One \in Ratios
    BY <1>5, SharesAreRatios
  <2> QED
    BY <1>5, <2>1, RatioOrder DEF Smaller
<1> QED
  BY <1>5, <1>6 DEF HolmStep, HochStep, u, v

(* With the running extremes: raised, Holm the stricter, none above one. *)
LEMMA CorrectedByRank ==
  ASSUME NEW q, NEW n, Graded(q, n), NEW H, Highest(H, HolmStep(q, n), n),
         NEW B, Lowest(B, HochStep(q, n), n), NEW k \in 1..n
  PROVE  AtMost(q[k], B[k]) /\ AtMost(B[k], H[k]) /\ AtMost(H[k], One)
<1> DEFINE s == HolmStep(q, n)
           t == HochStep(q, n)
<1>1. s \in [1..n -> Ratios] /\ t \in [1..n -> Ratios]
  BY StepsTyped
<1>2. q \in [1..n -> Ratios] /\ One \in Ratios /\ Zero \in Ratios
  BY SharesAreRatios DEF Graded
<1>3. n \in Nat /\ B[k] \in Ratios /\ H[k] \in Ratios
  BY DEF Graded, Highest, Lowest
<1>4. AtMost(q[k], B[k])
  <2>1. CASE B[k] = One
    BY <2>1 DEF Graded
  <2>2. CASE \E j \in k..n : B[k] = t[j]
    <3>1. PICK j \in k..n : B[k] = t[j]
      BY <2>2
    <3>2. j \in 1..n /\ k <= j
      BY <1>3
    <3>3. AtMost(q[k], q[j])
      BY <3>2 DEF Graded
    <3>4. AtMost(q[j], t[j])
      BY <3>2, HochAboveValue
    <3>5. q[k] \in Ratios /\ q[j] \in Ratios /\ t[j] \in Ratios
      BY <1>1, <1>2, <3>2
    <3> HIDE DEF t
    <3> QED
      BY <3>1, <3>3, <3>4, <3>5, RatioOrder
  <2> QED
    BY <2>1, <2>2 DEF Lowest
<1>5. AtMost(B[k], H[k])
  <2>1. k \in k..n /\ k \in 1..k
    BY <1>3
  <2>2. AtMost(B[k], t[k]) /\ AtMost(B[k], One)
    BY <2>1 DEF Lowest
  <2>3. AtMost(s[k], H[k])
    BY <2>1 DEF Highest
  <2>4. s[k] = One \/ AtMost(t[k], s[k])
    BY HolmAboveHoch
  <2>5. s[k] \in Ratios /\ t[k] \in Ratios
    BY <1>1
  <2> HIDE DEF s, t
  <2>6. CASE s[k] = One
    <3>1. AtMost(One, H[k])
      BY <2>3, <2>6
    <3> QED
      BY <1>2, <1>3, <2>2, <3>1, RatioOrder
  <2>7. CASE AtMost(t[k], s[k])
    <3>1. AtMost(B[k], s[k])
      BY <1>3, <2>2, <2>5, <2>7, RatioOrder
    <3> QED
      BY <1>3, <2>3, <2>5, <3>1, RatioOrder
  <2> QED
    BY <2>4, <2>6, <2>7
<1>6. AtMost(H[k], One)
  <2>1. CASE H[k] = Zero
    BY <2>1 DEF AtMost, Zero, One
  <2>2. CASE \E j \in 1..k : H[k] = s[j]
    <3>1. PICK j \in 1..k : H[k] = s[j]
      BY <2>2
    <3>2. j \in 1..n
      BY <1>3
    <3>3. PICK x : s[j] = Smaller(One, x)
      BY <3>2 DEF HolmStep
    <3>4. s[j] = One \/ AtMost(s[j], One) \/ (s[j] = x /\ ~AtMost(One, x))
      BY <3>3 DEF Smaller
    <3>5. s[j] \in Ratios
      BY <1>1, <3>2
    <3> HIDE DEF s
    <3> QED
      BY <1>2, <3>1, <3>4, <3>5, RatioOrder
  <2> QED
    BY <2>1, <2>2 DEF Highest
<1> QED
  BY <1>4, <1>5, <1>6

(* The running extremes keep the order of the values, ties included. *)
LEMMA CorrectedOrder ==
  ASSUME NEW q, NEW n, Graded(q, n), NEW H, Highest(H, HolmStep(q, n), n),
         NEW B, Lowest(B, HochStep(q, n), n), NEW j \in 1..n, NEW k \in 1..n, AtMost(q[j], q[k])
  PROVE  AtMost(B[j], B[k]) /\ AtMost(H[j], H[k])
<1> DEFINE s == HolmStep(q, n)
           t == HochStep(q, n)
<1>1. s \in [1..n -> Ratios] /\ t \in [1..n -> Ratios]
  BY StepsTyped
<1>2. q \in [1..n -> Ratios] /\ One \in Ratios /\ Zero \in Ratios
  BY SharesAreRatios DEF Graded
<1>3. n \in Nat /\ B[k] \in Ratios /\ H[k] \in Ratios /\ B[j] \in Ratios /\ H[j] \in Ratios
  BY DEF Graded, Highest, Lowest
<1>4. ASSUME NEW m \in 1..n, NEW l \in m..n, j < k \/ (m \in k..j /\ l \in k..j)
      PROVE  j >= k => AtMost(s[l], s[m]) /\ AtMost(t[l], t[m])
  <2>1. SUFFICES ASSUME j >= k PROVE AtMost(s[l], s[m]) /\ AtMost(t[l], t[m])
    OBVIOUS
  <2>2. l \in 1..n /\ k <= m /\ l <= j
    BY <1>3, <1>4, <2>1
  <2>3. AtMost(q[l], q[j]) /\ AtMost(q[k], q[m])
    BY <2>2 DEF Graded
  <2>4. q[l] \in Ratios /\ q[j] \in Ratios /\ q[k] \in Ratios /\ q[m] \in Ratios
    BY <1>2, <2>2
  <2>5. AtMost(q[l], q[k])
    BY <2>3, <2>4, RatioOrder
  <2>6. AtMost(q[l], q[m])
    BY <2>3, <2>4, <2>5, RatioOrder
  <2> QED
    BY <2>6, LaterIsLess
<1> HIDE DEF s, t
<1>5. AtMost(B[j], B[k])
  <2>1. CASE B[k] = One
    BY <2>1 DEF Lowest
  <2>2. CASE \E m \in k..n : B[k] = t[m]
    <3>1. PICK m \in k..n : B[k] = t[m]
      BY <2>2
    <3>2. m \in 1..n /\ t[m] \in Ratios /\ t[j] \in Ratios /\ j \in j..n
      BY <1>1, <1>3
    <3>3. \A i \in j..n : AtMost(B[j], t[i])
      BY DEF Lowest, t
    <3>4. CASE m >= j
      <4>1. m \in j..n
        BY <1>3, <3>2, <3>4
      <4> QED
        BY <3>1, <3>3, <4>1
    <3>5. CASE m < j
      <4>1. AtMost(t[j], t[m])
        <5>1. j \in m..n /\ m \in k..j /\ j \in k..j /\ j >= k
          BY <1>3, <3>2, <3>5
        <5> QED
          BY <1>4, <3>2, <5>1
      <4>2. AtMost(B[j], t[j])
        BY <3>2, <3>3
      <4> QED
        BY <1>3, <3>1, <3>2, <4>1, <4>2, RatioOrder
    <3> QED
      BY <1>3, <3>2, <3>4, <3>5
  <2> QED
    BY <2>1, <2>2 DEF Lowest, t
<1>6. AtMost(H[j], H[k])
  <2>1. CASE H[j] = Zero
    BY <2>1 DEF Highest
  <2>2. CASE \E l \in 1..j : H[j] = s[l]
    <3>1. PICK l \in 1..j : H[j] = s[l]
      BY <2>2
    <3>2. l \in 1..n /\ s[l] \in Ratios /\ s[k] \in Ratios /\ k \in 1..k
      BY <1>1, <1>3
    <3>3. \A i \in 1..k : AtMost(s[i], H[k])
      BY DEF Highest, s
    <3>4. CASE l <= k
      <4>1. l \in 1..k
        BY <1>3, <3>2, <3>4
      <4> QED
        BY <3>1, <3>3, <4>1
    <3>5. CASE l > k
      <4>1. AtMost(s[l], s[k])
        <5>1. l \in k..n /\ k \in k..j /\ l \in k..j /\ j >= k
          BY <1>3, <3>2, <3>5
        <5> QED
          BY <1>4, <5>1
      <4>2. AtMost(s[k], H[k])
        BY <3>2, <3>3
      <4> QED
        BY <1>3, <3>1, <3>2, <4>1, <4>2, RatioOrder
    <3> QED
      BY <1>3, <3>2, <3>4, <3>5
  <2> QED
    BY <2>1, <2>2 DEF Highest, s
<1> QED
  BY <1>5, <1>6

(* The p-values of the tests, in the order of the entries.                 *)
PValues(ps, n) ==
  n \in Nat /\ ps \in [1..n -> Shares] /\ \A i \in 1..n : AtMost(ps[i], One)

(* Every test has a rank, and by rank the p-values ascend. *)
LEMMA RankIs ==
  ASSUME NEW ps, NEW n, PValues(ps, n)
  PROVE  /\ Ranked(ps) \in [1..n -> 1..n]
         /\ RankOf(ps) \in [1..n -> 1..n]
         /\ \A i \in 1..n : Ranked(ps)[RankOf(ps)[i]] = i
         /\ Graded([k \in 1..n |-> ps[Ranked(ps)[k]]], n)
<1> DEFINE order == Ranked(ps)
           q == [k \in 1..n |-> ps[order[k]]]
<1>1. n \in Nat /\ ps \in [1..n -> Ratios] /\ DOMAIN ps = 1..n
  BY SharesAreRatios DEF PValues
<1>2. Cardinality(1..n) = n /\ Arranges(order, 1..n, Ranking(ps))
  BY <1>1, RankedArranges
<1>3. /\ order \in [1..n -> 1..n]
      /\ \A x \in 1..n : \E k \in 1..n : order[k] = x
      /\ \A j, k \in 1..n : j < k <=> <<order[j], order[k]>> \in Ranking(ps)
  BY <1>2 DEF Arranges
<1> HIDE DEF order
<1>4. ASSUME NEW i \in 1..n
      PROVE  /\ (CHOOSE k \in DOMAIN order : order[k] = i) \in 1..n
             /\ order[CHOOSE k \in DOMAIN order : order[k] = i] = i
  <2>1. DOMAIN order = 1..n
    BY <1>3
  <2> QED
    BY <1>3, <2>1
<1>5. RankOf(ps) = [i \in 1..n |-> CHOOSE k \in DOMAIN order : order[k] = i]
  BY <1>1 DEF RankOf, order
<1>6. q \in [1..n -> Shares] /\ \A k \in 1..n : AtMost(q[k], One)
  BY <1>3 DEF PValues
<1>7. ASSUME NEW j \in 1..n, NEW k \in 1..n, j <= k PROVE AtMost(q[j], q[k])
  <2>1. q[j] \in Ratios /\ q[k] \in Ratios
    BY <1>6, SharesAreRatios
  <2>2. CASE j = k
    BY <2>1, <2>2, RatioOrder
  <2>3. CASE j # k
    <3>1. <<order[j], order[k]>> \in Ranking(ps)
      BY <1>1, <1>3, <1>7, <2>3
    <3>2. ~AtMost(ps[order[k]], ps[order[j]]) \/ Same(ps[order[j]], ps[order[k]])
      BY <3>1 DEF Ranking
    <3>3. q[j] = ps[order[j]] /\ q[k] = ps[order[k]]
      OBVIOUS
    <3> QED
      BY <2>1, <3>2, <3>3, RatioOrder
  <2> QED
    BY <2>2, <2>3
<1>8. Graded(q, n)
  BY <1>1, <1>6, <1>7 DEF Graded
<1> DEFINE rank == RankOf(ps)
<1>9. rank \in [1..n -> 1..n] /\ \A i \in 1..n : order[rank[i]] = i
  <2> DEFINE at(i) == CHOOSE k \in DOMAIN order : order[k] = i
  <2>1. \A i \in 1..n : at(i) \in 1..n /\ order[at(i)] = i
    BY <1>4
  <2>2. rank = [i \in 1..n |-> at(i)]
    BY <1>5
  <2> HIDE DEF at, rank
  <2> QED
    BY <2>1, <2>2
<1>10. Graded([k \in 1..n |-> ps[order[k]]], n)
  BY <1>8
<1> HIDE DEF rank, q
<1> QED
  BY <1>3, <1>9, <1>10 DEF order, rank

(* The first k elements of a list, and those from the k-th on. *)
LEMMA PartOf ==
  ASSUME NEW n \in Nat, NEW s \in [1..n -> Ratios], NEW k \in 1..n
  PROVE  /\ SubSeq(s, 1, k) \in [1..k -> Ratios] /\ \A j \in 1..k : SubSeq(s, 1, k)[j] = s[j]
         /\ SubSeq(s, k, n) \in [1..n - k + 1 -> Ratios]
         /\ \A j \in 1..n - k + 1 : SubSeq(s, k, n)[j] = s[k + j - 1]
<1>1. s \in Seq(Ratios) /\ Len(s) = n
  OBVIOUS
<1>2. SubSeq(s, 1, k) = [j \in 1..k |-> s[j]]
  BY <1>1
<1>3. SubSeq(s, k, n) = [j \in 1..n - k + 1 |-> s[k + j - 1]]
  BY <1>1
<1>4. \A j \in 1..n - k + 1 : k + j - 1 \in 1..n
  OBVIOUS
<1>5. [j \in 1..k |-> s[j]] \in [1..k -> Ratios]
  OBVIOUS
<1>6. [j \in 1..n - k + 1 |-> s[k + j - 1]] \in [1..n - k + 1 -> Ratios]
  BY <1>4
<1>7. /\ SubSeq(s, 1, k) \in [1..k -> Ratios] /\ SubSeq(s, k, n) \in [1..n - k + 1 -> Ratios]
  BY <1>2, <1>3, <1>5, <1>6
<1>8. \A j \in 1..k : SubSeq(s, 1, k)[j] = s[j]
  BY <1>2
<1>9. \A j \in 1..n - k + 1 : SubSeq(s, k, n)[j] = s[k + j - 1]
  BY <1>3
<1> QED
  BY <1>7, <1>8, <1>9

(* Holm keeps running maxima. *)
LEMMA HighestRuns ==
  ASSUME NEW n \in Nat, NEW s \in [1..n -> Ratios]
  PROVE  Highest([k \in 1..n |-> FoldLeft(Larger, Zero, SubSeq(s, 1, k))], s, n)
<1> DEFINE H == [k \in 1..n |-> FoldLeft(Larger, Zero, SubSeq(s, 1, k))]
<1>1. ASSUME NEW k \in 1..n
      PROVE  /\ H[k] \in Ratios /\ \A j \in 1..k : AtMost(s[j], H[k])
             /\ AtMost(Zero, H[k]) /\ (H[k] = Zero \/ \E j \in 1..k : H[k] = s[j])
  <2>1. PICK p \in [1..k -> Ratios] : p = SubSeq(s, 1, k) /\ \A j \in 1..k : p[j] = s[j]
    BY PartOf
  <2>2. Peak(FoldLeft(Larger, Zero, p), p, k)
    BY LargestPeak
  <2>3. H[k] = FoldLeft(Larger, Zero, p)
    BY <2>1
  <2> HIDE DEF H
  <2> QED
    BY <2>1, <2>2, <2>3 DEF Peak
<1> HIDE DEF H
<1>2. Highest(H, s, n)
  BY <1>1 DEF Highest
<1> QED
  BY <1>2 DEF H

(* Benjamini and Hochberg keep running minima from the end. *)
LEMMA LowestRuns ==
  ASSUME NEW n \in Nat, NEW s \in [1..n -> Ratios]
  PROVE  Lowest([k \in 1..n |-> FoldLeft(Smaller, One, SubSeq(s, k, n))], s, n)
<1> DEFINE B == [k \in 1..n |-> FoldLeft(Smaller, One, SubSeq(s, k, n))]
<1>1. ASSUME NEW k \in 1..n
      PROVE  /\ B[k] \in Ratios /\ \A j \in k..n : AtMost(B[k], s[j])
             /\ AtMost(B[k], One) /\ (B[k] = One \/ \E j \in k..n : B[k] = s[j])
  <2>1. PICK m \in Nat : m = n - k + 1
    OBVIOUS
  <2>2. PICK p \in [1..m -> Ratios] : p = SubSeq(s, k, n) /\ \A j \in 1..m : p[j] = s[k + j - 1]
    BY <2>1, PartOf
  <2>3. Bottom(FoldLeft(Smaller, One, p), p, m)
    BY SmallestBottom
  <2>4. B[k] = FoldLeft(Smaller, One, p)
    BY <2>2
  <2> HIDE DEF B
  <2>5. ASSUME NEW j \in k..n PROVE AtMost(B[k], s[j])
    <3>1. PICK i \in 1..m : i = j - k + 1 /\ j = k + i - 1
      BY <2>1
    <3> QED
      BY <2>2, <2>3, <2>4, <3>1 DEF Bottom
  <2>6. \A i \in 1..m : k + i - 1 \in k..n
    BY <2>1
  <2> QED
    BY <2>2, <2>3, <2>4, <2>5, <2>6 DEF Bottom
<1> HIDE DEF B
<1>2. Lowest(B, s, n)
  BY <1>1 DEF Lowest
<1> QED
  BY <1>2 DEF B

(* What both corrections of some p-values must satisfy. *)
Corrected(ps, bh, holm) ==
  \A i \in DOMAIN ps :
    /\ AtMost(ps[i], bh[i]) /\ AtMost(bh[i], holm[i]) /\ AtMost(holm[i], One)
    /\ \A j \in DOMAIN ps : AtMost(ps[i], ps[j]) =>
         AtMost(bh[i], bh[j]) /\ AtMost(holm[i], holm[j])

(* They satisfy it (holm_bonferroni, benjamini_hochberg). *)
LEMMA CorrectionsSound ==
  ASSUME NEW ps, NEW n, PValues(ps, n)
  PROVE  Corrected(ps, benjamini_hochberg(ps), holm_bonferroni(ps))
<1> DEFINE order == Ranked(ps)
           rank == RankOf(ps)
           q == [k \in 1..n |-> ps[order[k]]]
           s == HolmStep(q, n)
           t == HochStep(q, n)
           H == [k \in 1..n |-> FoldLeft(Larger, Zero, SubSeq(s, 1, k))]
           B == [k \in 1..n |-> FoldLeft(Smaller, One, SubSeq(t, k, n))]
<1>1. n \in Nat /\ ps \in [1..n -> Shares] /\ Len(ps) = n /\ DOMAIN ps = 1..n
  BY DEF PValues
<1>2. /\ order \in [1..n -> 1..n] /\ rank \in [1..n -> 1..n]
      /\ \A i \in 1..n : order[rank[i]] = i
      /\ Graded(q, n)
  BY RankIs
<1> HIDE DEF order, rank
<1>3. holm_bonferroni(ps) = [i \in 1..n |-> H[rank[i]]]
  <2>1. s = [k \in 1..n |-> Smaller(One, Times(<<n - k + 1, 1>>, ps[order[k]]))]
    BY DEF HolmStep
  <2> HIDE DEF s
  <2> QED
    BY <1>1, <2>1 DEF holm_bonferroni, order, rank
<1>4. benjamini_hochberg(ps) = [i \in 1..n |-> B[rank[i]]]
  <2>1. t = [k \in 1..n |-> Times(ps[order[k]], <<n, k>>)]
    BY DEF HochStep
  <2> HIDE DEF t
  <2> QED
    BY <1>1, <2>1 DEF benjamini_hochberg, order, rank
<1>5. s \in [1..n -> Ratios] /\ t \in [1..n -> Ratios]
  BY <1>2, StepsTyped
<1> HIDE DEF q
<1>6. Highest(H, s, n) /\ Lowest(B, t, n)
  <2> HIDE DEF s, t
  <2> QED
    BY <1>1, <1>5, HighestRuns, LowestRuns
<1> HIDE DEF H, B
<1>7. ASSUME NEW k \in 1..n
      PROVE  AtMost(q[k], B[k]) /\ AtMost(B[k], H[k]) /\ AtMost(H[k], One)
  BY <1>2, <1>6, CorrectedByRank
<1>8. ASSUME NEW j \in 1..n, NEW k \in 1..n, AtMost(q[j], q[k])
      PROVE  AtMost(B[j], B[k]) /\ AtMost(H[j], H[k])
  BY <1>2, <1>6, <1>8, CorrectedOrder
<1>9. \A i \in 1..n : rank[i] \in 1..n /\ q[rank[i]] = ps[i]
  BY <1>2 DEF q
<1> HIDE DEF s, t
<1>10. ASSUME NEW i \in 1..n
       PROVE  /\ holm_bonferroni(ps)[i] = H[rank[i]]
              /\ benjamini_hochberg(ps)[i] = B[rank[i]]
  BY <1>3, <1>4
<1>11. ASSUME NEW i \in 1..n
       PROVE  /\ AtMost(ps[i], B[rank[i]]) /\ AtMost(B[rank[i]], H[rank[i]])
              /\ AtMost(H[rank[i]], One)
              /\ \A j \in 1..n : AtMost(ps[i], ps[j]) =>
                   AtMost(B[rank[i]], B[rank[j]]) /\ AtMost(H[rank[i]], H[rank[j]])
  <2>1. rank[i] \in 1..n /\ q[rank[i]] = ps[i]
    BY <1>9
  <2>2. ASSUME NEW j \in 1..n, AtMost(ps[i], ps[j])
        PROVE  AtMost(B[rank[i]], B[rank[j]]) /\ AtMost(H[rank[i]], H[rank[j]])
    <3>1. rank[j] \in 1..n /\ q[rank[j]] = ps[j]
      BY <1>9
    <3> QED
      BY <1>8, <2>1, <2>2, <3>1
  <2> QED
    BY <1>7, <2>1, <2>2
<1> QED
  BY <1>1, <1>10, <1>11 DEF Corrected

(* The entries of a comparison are listed as a sequence of its keys. *)
LEMMA EntriesListed ==
  ASSUME NEW K, IsFiniteSet(K)
  PROVE  FoldSet(LAMBDA k, s : Append(s, k), <<>>, K) \in Seq(K)
<1> DEFINE V == Seq(K)
           Chosen(S) == CHOOSE x \in S : TRUE
           Body(g) == [S \in SUBSET K |-> IF S = {} THEN <<>>
                                          ELSE Append(g[S \ {Chosen(S)}], Chosen(S))]
           h == CHOOSE g : g = Body(g)
           pick == [S \in SUBSET K |-> Chosen(S)]
           step == [e \in K \X V |-> Append(e[2], e[1])]
<1>1. ASSUME NEW S \in SUBSET K, S # {} PROVE Chosen(S) \in S
  BY <1>1
<1>2. <<>> \in V /\ \A s \in V, k \in K : Append(s, k) \in V
  OBVIOUS
<1> HIDE DEF V, Chosen
<1>3. PICK g : IsFold(g, K, V, <<>>, pick, step)
  <2>1. step \in [K \X V -> V]
    BY <1>2
  <2>2. Picks(pick, K)
    BY <1>1 DEF Picks
  <2> HIDE DEF step, pick
  <2> QED
    BY <1>2, <2>1, <2>2, FoldExists
<1> USE DEF IsFold
<1>4. g = Body(g)
  <2>1. ASSUME NEW S \in SUBSET K, S # {}
        PROVE  g[S] = Append(g[S \ {Chosen(S)}], Chosen(S))
    <3>1. Chosen(S) \in K /\ g[S \ {Chosen(S)}] \in V
      BY <1>1, <1>3, <2>1
    <3>2. step[<<Chosen(S), g[S \ {Chosen(S)}]>>] = Append(g[S \ {Chosen(S)}], Chosen(S))
      BY <3>1
    <3> QED
      BY <1>3, <2>1, <3>2
  <2>2. g[{}] = <<>>
    BY <1>3
  <2> QED
    BY <1>3, <2>1, <2>2
<1>5. h = Body(h)
  <2>1. \E x : x = Body(x)
    BY <1>4
  <2> HIDE DEF Body
  <2> QED
    BY <2>1
<1>6. FoldSet(LAMBDA k, s : Append(s, k), <<>>, K) = h[K]
  <2>1. \E x : x = Body(x)
    BY <1>4
  <2> QED
    BY <2>1 DEF FoldSet, MapThenFoldSet, Chosen
<1> HIDE DEF h
<1>7. h[{}] = <<>> /\ \A S \in SUBSET K : S # {} => h[S] = Append(h[S \ {Chosen(S)}], Chosen(S))
  BY <1>5
<1> DEFINE n == Cardinality(K)
           T == {k \in 0..n : \A S \in SUBSET K : Cardinality(S) = k => h[S] \in V}
<1>8. n \in Nat
  BY FS_CardinalityType
<1>9. \A S \in SUBSET K : IsFiniteSet(S) /\ Cardinality(S) \in Nat /\ (Cardinality(S) = 0 <=> S = {})
  BY FS_Subset, FS_CardinalityType, FS_EmptySet
<1>10. 0 \in T
  <2>1. SUFFICES ASSUME NEW S \in SUBSET K, Cardinality(S) = 0 PROVE h[S] \in V
    BY <1>8
  <2>2. S = {}
    BY <1>9, <2>1
  <2> QED
    BY <1>2, <1>7, <2>2
<1>11. ASSUME NEW k \in 1..n, k - 1 \in T PROVE k \in T
  <2>1. SUFFICES ASSUME NEW S \in SUBSET K, Cardinality(S) = k PROVE h[S] \in V
    BY <1>8
  <2>2. S # {}
    BY <1>9, <2>1
  <2>3. Chosen(S) \in S
    BY <1>1, <2>2
  <2>4. S \ {Chosen(S)} \in SUBSET K /\ Cardinality(S \ {Chosen(S)}) = k - 1
    BY <1>8, <1>9, <2>1, <2>3, FS_RemoveElement
  <2>5. h[S \ {Chosen(S)}] \in V
    BY <1>11, <2>4
  <2> QED
    BY <1>2, <1>7, <2>2, <2>3, <2>5
<1>12. n \in T
  <2> HIDE DEF T, n
  <2>1. \A k \in 0..n : k \in T
    BY <1>8, <1>10, <1>11, UpTo
  <2> QED
    BY <1>8, <2>1
<1>13. h[K] \in V
  BY <1>12
<1> QED
  BY <1>6, <1>13 DEF V

(* The p-value of a metric, when there is one. *)
LEMMA PValueIs ==
  ASSUME NEW a, NEW b, NumberTable(a.results), NumberTable(b.results),
         NEW m \in DOMAIN a.aggregates \cap DOMAIN b.aggregates
  PROVE  \/ Statistics(a, b)[m].p_value = None
         \/ /\ Statistics(a, b)[m].p_value \in Shares
            /\ AtMost(Statistics(a, b)[m].p_value, One)
<1> DEFINE d == Differences(a, b, m)
           e == Differences(b, a, m)
<1>1. PICK n : Reversed(d, e, n)
  BY DifferencesReverse
<1>2. Statistics(a, b)[m].p_value = paired_permutation_pvalue(d)
  BY DEF Statistics
<1> HIDE DEF d, e
<1>3. /\ d = <<>> => paired_permutation_pvalue(d) = None
      /\ d # <<>> => /\ paired_permutation_pvalue(d) \in Ratios
                     /\ paired_permutation_pvalue(d)[1] > 0
                     /\ AtMost(paired_permutation_pvalue(d), One)
  BY <1>1, PValueSound
<1>4. \A r \in Ratios : r[1] > 0 => r \in Shares
  BY DEF Ratios, Shares
<1> QED
  BY <1>2, <1>3, <1>4

(* The adjusted p-values of any two finished runs are sound. *)
LEMMA AdjustedSound ==
  ASSUME NEW a, NEW b, NumberTable(a.results), NumberTable(b.results), IsFiniteSet(Keys(a))
  PROVE  Corrected(compare_runs(a, b).adjusted.p, compare_runs(a, b).adjusted.bh,
                   compare_runs(a, b).adjusted.holm)
<1> DEFINE K == Keys(a) \cap Keys(b)
           st == Statistics(a, b)
           keys == FoldSet(LAMBDA k, s : Append(s, k), <<>>, K)
           S == {i \in DOMAIN keys : st[keys[i][1]].p_value # None}
           n == Cardinality(S)
           tested == Ascending(S)
           raw == [i \in DOMAIN tested |-> st[keys[tested[i]][1]].p_value]
           ps == Evaluated(raw)
<1>1. compare_runs(a, b).adjusted = [p |-> ps, holm |-> holm_bonferroni(ps),
                                     bh |-> benjamini_hochberg(ps)]
  BY DEF compare_runs, _adjust_statistics
<1>2. IsFiniteSet(K)
  <2>1. K \in SUBSET Keys(a)
    OBVIOUS
  <2> HIDE DEF K
  <2> QED
    BY <2>1, FS_Subset
<1>3. keys \in Seq(K)
  <2> HIDE DEF K
  <2> QED
    BY <1>2, EntriesListed
<1>4. \A k \in K : k[1] \in DOMAIN a.aggregates \cap DOMAIN b.aggregates
  BY DEF Keys
<1> HIDE DEF K, keys, st
<1>5. Len(keys) \in Nat /\ DOMAIN keys = 1..Len(keys) /\ \A i \in DOMAIN keys : keys[i] \in K
  BY <1>3
<1>6. \A i \in S : st[keys[i][1]].p_value \in Shares /\ AtMost(st[keys[i][1]].p_value, One)
  <2> SUFFICES ASSUME NEW i \in S
               PROVE  st[keys[i][1]].p_value \in Shares /\ AtMost(st[keys[i][1]].p_value, One)
    OBVIOUS
  <2>1. PICK m \in DOMAIN a.aggregates \cap DOMAIN b.aggregates : m = keys[i][1]
    BY <1>4, <1>5
  <2>2. st[m].p_value # None
    BY <2>1
  <2> QED
    BY <2>1, <2>2, PValueIs DEF st
<1>7. S \in SUBSET Int /\ IsFiniteSet(S) /\ n \in Nat
  <2>1. S \in SUBSET (1..Len(keys)) /\ IsFiniteSet(1..Len(keys))
    BY <1>5, FS_Interval
  <2> HIDE DEF S
  <2>2. IsFiniteSet(S)
    BY <2>1, FS_Subset
  <2>3. Cardinality(S) \in Nat
    BY <2>2, FS_CardinalityType
  <2>4. S \in SUBSET Int
    BY <1>5, <2>1
  <2> QED
    BY <2>2, <2>3, <2>4
<1> HIDE DEF S
<1>8. tested \in [1..n -> S]
  BY <1>7, AscendingArranges DEF Arranges
<1> HIDE DEF n, tested
<1>9. raw \in [1..n -> Shares] /\ \A i \in 1..n : AtMost(raw[i], One)
  <2>1. DOMAIN tested = 1..n
    BY <1>8
  <2>2. \A i \in 1..n : tested[i] \in S
    BY <1>8
  <2> QED
    BY <1>6, <2>1, <2>2
<1> HIDE DEF raw
<1>10. ps = raw
  BY <1>7, <1>9, EvaluatedSame
<1>11. PValues(ps, n)
  BY <1>7, <1>9, <1>10 DEF PValues
<1> HIDE DEF ps
<1>12. Corrected(ps, benjamini_hochberg(ps), holm_bonferroni(ps))
  BY <1>11, CorrectionsSound
<1> QED
  BY <1>1, <1>12

-----------------------------------------------------------------------------
(* Reports *)

(* The scores of a run or of a transaction are numbers. *)
LEMMA TypedTable ==
  ASSUME NEW written \in Tables
  PROVE  NumberTable(written)
<1>1. PICK D \in SUBSET Cases : written \in [D -> ScoreRows \cup MetricRows]
  BY DEF Tables
<1>2. IsFiniteSet(D) /\ D \subseteq Nat
  BY ScoringAssumption, FS_Subset
<1>3. ASSUME NEW v \in Values, v # None PROVE v[1] \in Int
  BY <1>3, ReportAssumption DEF Values, Zero, One
<1>4. \A r \in Score \cup RowType : NumberRow(r)
  BY <1>3 DEF Score, RowType, NumberRow, is_computed
<1>5. \A rows \in ScoreRows \cup MetricRows : \A m \in DOMAIN rows : rows[m] \in Score \cup RowType
  BY DEF ScoreRows, MetricRows
<1> QED
  BY <1>1, <1>2, <1>4, <1>5 DEF NumberTable

(* All aggregates of a scope are sound. *)
Sound(rows) == \A m \in DOMAIN rows : RowSound(rows[m])
(* The invariant: the committed aggregates of every scope are sound. *)
ReportInv == \A s \in Scopes : Sound(aggregates[s])

(* So are those a transaction is about to insert. *)
LEMMA NewAggregates ==
  ASSUME Types, NEW j \in Jobs
  PROVE  Sound(_aggregate(job[j].rows)) /\ Sound(NoRows)
<1>1. job[j].rows \in Tables
  BY DEF Types, Job
<1>2. NumberTable(job[j].rows)
  BY <1>1, TypedTable
<1> DEFINE rows == job[j].rows
<1> HIDE DEF rows
<1>3. Sound(_aggregate(rows))
  BY <1>2, TableAggregates DEF Sound, rows
<1> QED
  BY <1>3 DEF Sound, NoRows, rows

(* Every step keeps it: aggregates are replaced by those of some table. *)
LEMMA ReportKept ==
  ASSUME Types, ReportInv, [Next]_vars
  PROVE  ReportInv'
<1> USE DEF ReportInv
<1>1. CASE UNCHANGED aggregates
  BY <1>1
<1>2. ASSUME NEW t \in Tasks, InsertAggregates(t) PROVE ReportInv'
  <2>1. Sound(_aggregate(job[t].rows)) /\ Sound(NoRows)
    BY NewAggregates DEF Jobs
  <2>2. CASE UNCHANGED aggregates
    BY <2>2
  <2>3. CASE aggregates' = [s \in Scopes |-> IF s = Run THEN _aggregate(job[t].rows)
                                             ELSE IF s \in list_rows(Run) THEN NoRows
                                             ELSE aggregates[s]]
    BY <2>1, <2>3
  <2> QED
    BY <1>2, <2>2, <2>3 DEF InsertAggregates
<1>3. ASSUME EndCommand PROVE ReportInv'
  <2>1. Sound(_aggregate(job[Cli].rows))
    BY NewAggregates DEF Jobs
  <2>2. CASE UNCHANGED aggregates
    BY <2>2
  <2>3. CASE aggregates' = [aggregates EXCEPT ![Run] = _aggregate(job[Cli].rows)]
    BY <2>1, <2>3 DEF Types
  <2> QED
    BY <1>3, <2>2, <2>3 DEF EndCommand
<1>4. ASSUME NEW p \in Passes, FinishPass(p) PROVE ReportInv'
  <2>1. Sound(_aggregate(job[p].rows))
    BY NewAggregates DEF Jobs
  <2>2. aggregates' = [aggregates EXCEPT ![p] = _aggregate(job[p].rows)]
    BY <1>4 DEF FinishPass
  <2> QED
    BY <2>1, <2>2 DEF Types
<1>5. ASSUME NEW t \in Tasks, NEW c \in Cases, NEW o,
             CompleteCase(t, c, o) \/ FailCase(t, c) \/ RetryCase(t, c)
      PROVE  UNCHANGED aggregates
  BY <1>5 DEF CompleteCase, FailCase, RetryCase
<1>6. ASSUME NEW t \in Tasks, Collect(t) \/ DeleteAggregates(t)
      PROVE  UNCHANGED aggregates
  BY <1>6 DEF Collect, DeleteAggregates
<1>7. ASSUME StartCommand \/ LoadObservation \/ PersistScores
      PROVE  UNCHANGED aggregates
  BY <1>7 DEF StartCommand, LoadObservation, PersistScores
<1>8. ASSUME NEW p \in Passes, create_metric_run(p) \/ ScoreCase(p) \/ FailPass(p)
      PROVE  UNCHANGED aggregates
  BY <1>8 DEF create_metric_run, ScoreCase, FailPass
<1>9. CASE UNCHANGED vars
  BY <1>9 DEF vars
<1> QED
  BY <1>1, <1>2, <1>3, <1>4, <1>5, <1>6, <1>7, <1>8, <1>9 DEF Next

(* Sound aggregates are ordered, and count every case once. *)
LEMMA QuantilesHold == ASSUME ReportInv PROVE QuantilesAreOrdered
BY DEF ReportInv, Sound, QuantilesAreOrdered, RowSound, FiguresOrdered, Upward

(* The scores of this run and of every baseline are numbers. *)
LEMMA RunTables ==
  ASSUME Types, NEW b \in Baselines
  PROVE  NumberTable(ThisRun.results) /\ NumberTable(b.results)
<1>1. results[Run] \in Tables
  <2>1. results[Run] \in [Cases -> MetricRows]
    BY DEF Types, Scopes
  <2> DEFINE table == results[Run]
  <2> HIDE DEF table
  <2>2. table \in [Cases -> ScoreRows \cup MetricRows]
    BY <2>1 DEF table
  <2>3. table \in Tables
    BY <2>2 DEF Tables
  <2> QED
    BY <2>3 DEF table
<1>2. NumberTable(b.results)
  BY ReportAssumption DEF NumberTable, NumberRow
<1> QED
  BY <1>1, <1>2, TypedTable DEF ThisRun

(* Comparing two runs the other way round gives the opposite. *)
LEMMA ComparisonsHold == ASSUME Types, ReportInv PROVE ComparisonsMirror
<1> SUFFICES ASSUME NEW b \in Baselines
             PROVE  LET to   == Assessments(b, ThisRun)
                        from == Assessments(ThisRun, b)
                        self == Assessments(ThisRun, ThisRun)
                    IN /\ DOMAIN to = DOMAIN from
                       /\ \A k \in DOMAIN to : from[k] = Opposite[to[k]]
                       /\ \A k \in DOMAIN self : self[k] = "unchanged"
                       /\ ~Compatible(b, ThisRun) => Warnings(ThisRun, b) # {}
  BY DEF ComparisonsMirror
<1> DEFINE r == ThisRun
           fig(run, k) == run.aggregates[k[1]].of[k[2]]
<1>1. \A k \in Keys(r) : fig(r, k) \in Ratios
  <2>1. r.aggregates = aggregates[Run] /\ Run \in Scopes
    BY DEF ThisRun, Scopes
  <2> HIDE DEF r
  <2>2. \A m \in DOMAIN r.aggregates : \A n \in DOMAIN r.aggregates[m].of :
          r.aggregates[m].of[n] \in Ratios
    BY <2>1 DEF ReportInv, Sound, RowSound
  <2> QED
    BY <2>2 DEF Keys
<1>2. \A k \in Keys(b) : fig(b, k) \in Ratios \cup {None}
  <2>1. \A m \in DOMAIN b.aggregates : \A n \in DOMAIN b.aggregates[m].of :
          b.aggregates[m].of[n] \in Ratios \cup {None}
    BY ReportAssumption
  <2> QED
    BY <2>1 DEF Keys
<1>3. \A x \in Ratios : x # None
  BY StatisticsAssumption DEF Ratios
<1> HIDE DEF r
<1>4. \A k \in Keys(b) \cap Keys(r) :
        /\ Assessments(b, r)[k] = _compare_metric(k[1], fig(b, k), fig(r, k))
        /\ Assessments(r, b)[k] = _compare_metric(k[1], fig(r, k), fig(b, k))
  BY DEF Assessments
<1>5. \A k \in Keys(r) : Assessments(r, r)[k] = _compare_metric(k[1], fig(r, k), fig(r, k))
  BY DEF Assessments
<1>6. /\ DOMAIN Assessments(b, r) = Keys(b) \cap Keys(r)
      /\ DOMAIN Assessments(r, b) = Keys(b) \cap Keys(r)
      /\ DOMAIN Assessments(r, r) = Keys(r)
  BY DEF Assessments
<1> HIDE DEF fig
<1>7. ASSUME NEW k \in Keys(b) \cap Keys(r)
      PROVE  Assessments(r, b)[k] = Opposite[Assessments(b, r)[k]]
  <2>1. PICK x \in Ratios \cup {None}, y \in Ratios \cup {None} : x = fig(b, k) /\ y = fig(r, k)
    BY <1>1, <1>2
  <2>2. _compare_metric(k[1], y, x) = Opposite[_compare_metric(k[1], x, y)]
    BY FiguresMirror
  <2> QED
    BY <1>4, <2>1, <2>2
<1>8. ASSUME NEW k \in Keys(r) PROVE Assessments(r, r)[k] = "unchanged"
  BY <1>1, <1>3, <1>5, FiguresMirror
<1>9. ASSUME ~Compatible(b, r) PROVE Warnings(r, b) # {}
  <2>1. PICK f \in Identifying : b.identity[f] # r.identity[f]
    BY <1>9 DEF Compatible
  <2>2. r.identity = Identity
    BY DEF r, ThisRun
  <2>3. f \in DOMAIN r.identity
    BY <2>2, ReportAssumption
  <2> QED
    BY <2>1, <2>3 DEF Warnings
<1> QED
  BY <1>6, <1>7, <1>8, <1>9 DEF r

(* The statistics of a comparison are sound. *)
LEMMA StatisticsHold == ASSUME Types PROVE StatisticsAreSound
<1>1. ASSUME NEW b \in Baselines, NEW m \in DOMAIN Statistics(b, ThisRun)
      PROVE  StatisticsSound(b, ThisRun, m)
  <2>1. NumberTable(ThisRun.results) /\ NumberTable(b.results)
    BY RunTables
  <2>2. m \in DOMAIN b.aggregates \cap DOMAIN ThisRun.aggregates
    BY DEF Statistics
  <2> QED
    BY <2>1, <2>2, StatisticsMirror
<1> QED
  BY <1>1 DEF StatisticsAreSound, StatisticsSound

(* The corrected p-values of a comparison are sound. *)
LEMMA CorrectionsHold == ASSUME Types PROVE CorrectionsKeepOrder
<1>1. ASSUME NEW b \in Baselines
      PROVE  Corrected(compare_runs(b, ThisRun).adjusted.p, compare_runs(b, ThisRun).adjusted.bh,
                       compare_runs(b, ThisRun).adjusted.holm)
  <2>1. NumberTable(ThisRun.results) /\ NumberTable(b.results)
    BY RunTables
  <2>2. IsFiniteSet(Keys(b))
    BY ReportAssumption
  <2> QED
    BY <2>1, <2>2, AdjustedSound
<1> QED
  BY <1>1 DEF CorrectionsKeepOrder, Corrected

(* Whatever has been scored, retried and aggregated, in whatever order: the *)
(* aggregates of a quiet run are ordered, and its comparison with any finished *)
(* run mirrors, has sound statistics and corrections that keep the order. *)
THEOREM ReportsCorrect == Spec => []ReportsAreSound
<1>1. Init => ReportInv
  BY DEF Init, ReportInv, Sound, NoRows
<1>2. Inv /\ ReportInv /\ [Next]_vars => ReportInv'
  BY ReportKept DEF Inv
<1>3. Inv /\ ReportInv => ReportsAreSound
  BY QuantilesHold, ComparisonsHold, StatisticsHold, CorrectionsHold DEF Inv, ReportsAreSound
<1> QED
  BY <1>1, <1>2, <1>3, Invariance, PTL DEF Spec

================================================================================
