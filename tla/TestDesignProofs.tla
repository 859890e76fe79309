--------------------------- MODULE TestDesignProofs ---------------------------
(***************************************************************************)
(* For any number of tests, targets, benchmarks and runs: no row refers to *)
(* something deleted, the hash of a READY test is that of the test as it   *)
(* stands, and a run executes only on the configuration of its snapshot.   *)
(* The last needs that a target that is gone never comes back, so a run    *)
(* that lost its target can never pass the check again.                    *)
(***************************************************************************)
EXTENDS TestDesign, SequenceTheorems, TLAPS

Live(x) ==
  /\ x.target # None => life[x.target] = "registered"
  /\ x.benchmark # None => cases[x.benchmark] # None

HashCurrent(x) ==
  x.status = "READY" =>
    LET p == x.hash[1] IN
    /\ x.target \in {p.target, None}
    /\ x.benchmark \in {p.benchmark, None}
    /\ p.mode = x.mode /\ p.judge = x.judge
    /\ IF p.mode = "EXPLICIT" THEN p.resolved = x.selected
       ELSE p.resolved # {} /\ x.selected = {}

Consistent(x) ==
  /\ x.status = "READY" <=> x.hash # <<>>
  /\ HashCurrent(x)
  /\ x.mode # "EXPLICIT" => x.selected = {}

(* A run refers to the target of its snapshot until that is deleted.       *)
Anchored(z) ==
  /\ z.state = "none" => z.target = None /\ z.test = None
  /\ z.state # "none" /\ z.target = None => life[z.snapshot.target] = "deleted"
  /\ z.target # None =>
       z.target = z.snapshot.target /\ life[z.target] = "registered"

Types ==
  /\ RegistryTypeOK
  /\ cases \in [Benchmarks -> (SUBSET Cases) \cup {None}]
  /\ test \in [Tests -> Test]
  /\ run \in [Runs -> Run]
  /\ observations \in [Targets -> SUBSET SUBSET Requirements]

DesignInv ==
  /\ Types
  /\ \A x \in Tests : Live(test[x]) /\ Consistent(test[x])
  /\ \A r \in Runs : Anchored(run[r])
  /\ \A r \in Runs : run[r].test # None => test[run[r].test].exists

-----------------------------------------------------------------------------
(* Tests *)

LEMMA TestFields ==
  ASSUME NEW x \in Test
  PROVE  /\ x.target \in Targets \cup {None} /\ x.benchmark \in Benchmarks \cup {None}
         /\ x.mode \in SelectionModes /\ x.selected \subseteq Metrics
         /\ x.judge \in BOOLEAN /\ x.exists \in BOOLEAN /\ x.hash \in Hashes
         /\ x.status \in {"INCOMPLETE", "READY"}
BY DEF Test

LEMMA RefreshedIsConsistent ==
  ASSUME NEW x \in Test, x.mode # "EXPLICIT" => x.selected = {}
  PROVE  /\ Refreshed(x) \in Test
         /\ Consistent(Refreshed(x))
         /\ Refreshed(x).target = x.target /\ Refreshed(x).benchmark = x.benchmark
         /\ Refreshed(x).exists = x.exists
<1>1. PICK p : p = PayloadOf(x)
  OBVIOUS
<1>2. Resolved(x) \subseteq Metrics
  BY TestFields DEF Resolved, Applicable
<1>3. p \in Payload
  BY <1>1, <1>2, TestFields DEF PayloadOf, Payload
<1>4. /\ p.target = x.target /\ p.benchmark = x.benchmark /\ p.mode = x.mode
      /\ p.judge = x.judge /\ p.resolved = Resolved(x)
  BY <1>1 DEF PayloadOf
<1>5. <<p>> \in Hashes /\ <<>> \in Hashes /\ <<p>> # <<>> /\ <<p>>[1] = p
  BY <1>3 DEF Hashes
<1>6. CASE Valid(x)
  <2>1. PICK y : y = [x EXCEPT !.status = "READY", !.hash = <<p>>]
    OBVIOUS
  <2>2. Refreshed(x) = y
    BY <1>1, <1>6, <2>1 DEF Refreshed
  <2>3. /\ y \in Test /\ y.status = "READY" /\ y.hash = <<p>> /\ y.target = x.target
        /\ y.benchmark = x.benchmark /\ y.mode = x.mode /\ y.judge = x.judge
        /\ y.selected = x.selected /\ y.exists = x.exists
    BY <1>5, <2>1 DEF Test
  <2>4. MetricsValid(x)
    BY <1>6 DEF Valid
  <2>5. IF x.mode = "EXPLICIT" THEN Resolved(x) = x.selected
        ELSE Resolved(x) # {} /\ x.selected = {}
    BY <2>4, TestFields DEF MetricsValid, Resolved, SelectionModes
  <2>6. Consistent(y)
    BY <1>4, <1>5, <2>3, <2>5 DEF Consistent, HashCurrent
  <2> QED
    BY <2>2, <2>3, <2>6
<1>7. CASE ~Valid(x)
  <2>1. PICK y : y = [x EXCEPT !.status = "INCOMPLETE", !.hash = <<>>]
    OBVIOUS
  <2>2. Refreshed(x) = y
    BY <1>7, <2>1 DEF Refreshed
  <2>3. /\ y \in Test /\ y.status = "INCOMPLETE" /\ y.hash = <<>> /\ y.target = x.target
        /\ y.benchmark = x.benchmark /\ y.mode = x.mode
        /\ y.selected = x.selected /\ y.exists = x.exists
    BY <1>5, <2>1 DEF Test
  <2>4. Consistent(y)
    BY <2>3 DEF Consistent, HashCurrent
  <2> QED
    BY <2>2, <2>3, <2>4
<1> QED
  BY <1>6, <1>7

LEMMA SelectingIsTyped ==
  ASSUME NEW x \in Test, NEW mode \in SelectionModes, NEW requested \in SUBSET Metrics,
         NEW judge \in BOOLEAN
  PROVE  /\ Selecting(x, mode, requested, judge) \in Test
         /\ Selecting(x, mode, requested, judge).mode # "EXPLICIT" =>
              Selecting(x, mode, requested, judge).selected = {}
         /\ Selecting(x, mode, requested, judge).target = x.target
         /\ Selecting(x, mode, requested, judge).benchmark = x.benchmark
         /\ Selecting(x, mode, requested, judge).exists = x.exists
<1>1. PICK chosen \in SUBSET Metrics :
        chosen = IF mode = "EXPLICIT" THEN requested ELSE {}
  OBVIOUS
<1>2. Selecting(x, mode, requested, judge) =
        [x EXCEPT !.mode = mode, !.judge = judge, !.selected = chosen]
  BY <1>1 DEF Selecting
<1>3. PICK y : y = [x EXCEPT !.mode = mode, !.judge = judge, !.selected = chosen]
  OBVIOUS
<1>4. /\ y \in Test /\ y.mode = mode /\ y.selected = chosen
      /\ y.target = x.target /\ y.benchmark = x.benchmark /\ y.exists = x.exists
  BY <1>3 DEF Test
<1>5. Selecting(x, mode, requested, judge) = y
  BY <1>2, <1>3
<1> HIDE <1>3
<1> QED
  BY <1>1, <1>4, <1>5

(* One test changes to a consistent one with live references.              *)
LEMMA TestMove ==
  ASSUME DesignInv, NEW x \in Tests, NEW y \in Test, Live(y), Consistent(y), y.exists,
         test' = [test EXCEPT ![x] = y], UNCHANGED <<registryVars, cases, run, observations>>
  PROVE  DesignInv'
<1> USE DEF DesignInv
<1>1. test'[x] = y /\ \A o \in Tests \ {x} : test'[o] = test[o]
  BY DEF Types
<1>2. Types'
  BY DEF Types, RegistryTypeOK, registryVars
<1>3. \A o \in Tests : (Live(test[o]) /\ Consistent(test[o]))'
  BY <1>1 DEF Live, Consistent, HashCurrent, registryVars
<1>4. \A r \in Runs : Anchored(run[r])'
  BY DEF Anchored, registryVars
<1>5. \A r \in Runs : run'[r].test # None => test'[run'[r].test].exists
  BY <1>1 DEF Types, Run
<1> QED
  BY <1>2, <1>3, <1>4, <1>5

(* Every edit ends by refreshing the test.                                 *)
LEMMA RefreshMove ==
  ASSUME DesignInv, NEW x \in Tests, NEW y \in Test, y.mode # "EXPLICIT" => y.selected = {},
         Live(y), y.exists, test' = [test EXCEPT ![x] = Refreshed(y)],
         UNCHANGED <<registryVars, cases, run, observations>>
  PROVE  DesignInv'
<1>1. PICK z : z = Refreshed(y)
  OBVIOUS
<1>2. /\ z \in Test /\ Consistent(z) /\ z.target = y.target
      /\ z.benchmark = y.benchmark /\ z.exists
  BY <1>1, RefreshedIsConsistent
<1>3. Live(z)
  BY <1>2 DEF Live
<1>4. test' = [test EXCEPT ![x] = z]
  BY <1>1
<1> QED
  BY <1>2, <1>3, <1>4, TestMove

LEMMA CreateInv ==
  ASSUME DesignInv, NEW x \in Tests, CreateTest(x)
  PROVE  DesignInv'
<1>1. PICK y : y = NewTest
  OBVIOUS
<1>2. /\ y \in Test /\ y.target = None /\ y.benchmark = None /\ y.status = "INCOMPLETE"
      /\ y.hash = <<>> /\ y.mode = "EXPLICIT" /\ y.exists
  BY <1>1 DEF NewTest, Test, SelectionModes, Hashes
<1>3. Live(y) /\ Consistent(y)
  BY <1>2 DEF Live, Consistent, HashCurrent
<1>4. test' = [test EXCEPT ![x] = y] /\ UNCHANGED <<registryVars, cases, run, observations>>
  BY <1>1 DEF CreateTest
<1> QED
  BY <1>2, <1>3, <1>4, TestMove

LEMMA UpdateInv ==
  ASSUME DesignInv, NEW x \in Tests, NEW t \in Targets \cup {None},
         NEW b \in Benchmarks \cup {None}, UpdateTest(x, t, b)
  PROVE  DesignInv'
<1>1. PICK o : o = test[x]
  OBVIOUS
<1>2. o \in Test /\ Live(o) /\ Consistent(o) /\ o.exists
  BY <1>1 DEF DesignInv, Types, UpdateTest
<1>3. PICK y : y = [o EXCEPT !.target = t, !.benchmark = b]
  OBVIOUS
<1>4. /\ y \in Test /\ y.target = t /\ y.benchmark = b /\ y.mode = o.mode
      /\ y.selected = o.selected /\ y.exists = o.exists
  BY <1>2, <1>3 DEF Test
<1>5. test' = [test EXCEPT ![x] = Refreshed(y)]
      /\ UNCHANGED <<registryVars, cases, run, observations>>
  BY <1>1, <1>3 DEF UpdateTest, DesignInv, Types
<1>6. Live(y)
  BY <1>4 DEF Live, UpdateTest
<1> QED
  BY <1>2, <1>4, <1>5, <1>6, RefreshMove DEF Consistent

LEMMA SelectInv ==
  ASSUME DesignInv, NEW x \in Tests,
         \/ SelectAllApplicable(x)
         \/ \E mode \in SelectionModes, requested \in SUBSET Metrics, judge \in BOOLEAN :
              SetTestMetrics(x, mode, requested, judge)
  PROVE  DesignInv'
<1>1. PICK o : o = test[x]
  OBVIOUS
<1>2. o \in Test /\ Live(o) /\ o.exists
  BY <1>1 DEF DesignInv, Types, SelectAllApplicable, SetTestMetrics
<1>3. PICK mode \in SelectionModes, requested \in SUBSET Metrics, judge \in BOOLEAN :
        /\ test' = [test EXCEPT ![x] = Refreshed(Selecting(o, mode, requested, judge))]
        /\ UNCHANGED <<registryVars, cases, run, observations>>
  <2>1. o.judge \in BOOLEAN /\ {} \in SUBSET Metrics /\ "ALL_AVAILABLE" \in SelectionModes
    BY <1>2, TestFields DEF SelectionModes
  <2> QED
    BY <1>1, <2>1 DEF SelectAllApplicable, SetTestMetrics, DesignInv, Types
<1>4. PICK y : y = Selecting(o, mode, requested, judge)
  OBVIOUS
<1>5. /\ y \in Test
      /\ y.mode # "EXPLICIT" => y.selected = {}
      /\ y.target = o.target /\ y.benchmark = o.benchmark /\ y.exists
  BY <1>2, <1>4, SelectingIsTyped
<1>6. Live(y)
  BY <1>2, <1>5 DEF Live
<1> QED
  BY <1>3, <1>4, <1>5, <1>6, RefreshMove

LEMMA ImportInv ==
  ASSUME DesignInv, NEW x \in Tests, NEW t \in Targets \cup {None},
         NEW b \in Benchmarks \cup {None}, NEW mode \in SelectionModes,
         NEW requested \in SUBSET Metrics, NEW judge \in BOOLEAN,
         ImportTest(x, t, b, mode, requested, judge)
  PROVE  DesignInv'
<1>1. PICK o : o = test[x]
  OBVIOUS
<1>2. o \in Test /\ Live(o) /\ o.exists
  BY <1>1 DEF DesignInv, Types, ImportTest
<1>3. PICK f : f = Filled(o, t, b)
  OBVIOUS
<1>4. /\ f \in Test /\ f.exists
      /\ f.target = IF o.target = None /\ t # None /\ life[t] = "registered"
                    THEN t ELSE o.target
      /\ f.benchmark = IF o.benchmark = None /\ b # None /\ cases[b] # None
                       THEN b ELSE o.benchmark
  BY <1>2, <1>3, TestFields DEF Filled, Test
<1>5. Live(f)
  BY <1>2, <1>4 DEF Live
<1>6. PICK kept \in SUBSET Metrics : kept = requested \cap Applicable(f)
  OBVIOUS
<1>7. PICK y : y = Selecting(f, mode, kept, judge)
  OBVIOUS
<1>8. /\ test' = [test EXCEPT ![x] = Refreshed(y)]
      /\ UNCHANGED <<registryVars, cases, run, observations>>
  BY <1>1, <1>3, <1>6, <1>7 DEF ImportTest
<1>9. /\ y \in Test
      /\ y.mode # "EXPLICIT" => y.selected = {}
      /\ y.target = f.target /\ y.benchmark = f.benchmark /\ y.exists
  BY <1>4, <1>7, SelectingIsTyped
<1>10. Live(y)
  BY <1>5, <1>9 DEF Live
<1> QED
  BY <1>8, <1>9, <1>10, RefreshMove

(* Runs forget a deleted test but keep their snapshot. *)
LEMMA DeleteTestInv ==
  ASSUME DesignInv, NEW x \in Tests, DeleteTest(x)
  PROVE  DesignInv'
<1> USE DEF DesignInv
<1>1. PICK y : y = NoTest
  OBVIOUS
<1>2. /\ y \in Test /\ y.target = None /\ y.benchmark = None /\ y.status = "INCOMPLETE"
      /\ y.hash = <<>> /\ y.mode = "EXPLICIT"
  BY <1>1 DEF NoTest, NewTest, Test, SelectionModes, Hashes
<1>3. Live(y) /\ Consistent(y)
  BY <1>2 DEF Live, Consistent, HashCurrent
<1>4. /\ test' = [test EXCEPT ![x] = y] /\ UNCHANGED <<registryVars, cases, observations>>
      /\ run' = [r \in Runs |-> IF run[r].test = x
                                THEN [run[r] EXCEPT !.test = None] ELSE run[r]]
  BY <1>1 DEF DeleteTest
<1>5. ASSUME NEW r \in Runs
      PROVE  /\ run'[r] \in Run /\ run'[r].state = run[r].state
             /\ run'[r].target = run[r].target /\ run'[r].snapshot = run[r].snapshot
             /\ run'[r].test = IF run[r].test = x THEN None ELSE run[r].test
  <2>1. run[r] \in Run
    BY DEF Types
  <2>2. CASE run[r].test = x
    <3>1. run'[r] = [run[r] EXCEPT !.test = None]
      BY <1>4, <2>2
    <3> QED
      BY <2>1, <2>2, <3>1 DEF Run
  <2>3. CASE run[r].test # x
    <3>1. run'[r] = run[r]
      BY <1>4, <2>3
    <3> QED
      BY <2>1, <2>3, <3>1
  <2> QED
    BY <2>2, <2>3
<1>6. test'[x] = y /\ \A o \in Tests \ {x} : test'[o] = test[o]
  BY <1>4 DEF Types
<1>7. Types'
  <2>1. run' \in [Runs -> Run]
    BY <1>4, <1>5
  <2> QED
    BY <1>2, <1>4, <2>1 DEF Types, RegistryTypeOK, registryVars
<1>8. \A o \in Tests : (Live(test[o]) /\ Consistent(test[o]))'
  BY <1>3, <1>4, <1>6 DEF Live, Consistent, HashCurrent, registryVars
<1>9. \A r \in Runs : Anchored(run[r])'
  BY <1>4, <1>5 DEF Anchored, registryVars
<1>10. \A r \in Runs : run'[r].test # None => test'[run'[r].test].exists
  BY <1>5, <1>6, NoneAssumption DEF Types, Run
<1> QED
  BY <1>7, <1>8, <1>9, <1>10

-----------------------------------------------------------------------------
(* What changes underneath *)

LEMMA RegistryTypes ==
  ASSUME RegistryTypeOK, NEW t \in Targets,
         \/ Register(t)
         \/ \E b \in BOOLEAN : Enable(t, b)
         \/ \E config \in Configs : Configure(t, config)
         \/ \E n \in 1 .. Len(history[t]) : Discover(t, n)
         \/ Remove(t)
  PROVE  RegistryTypeOK'
<1>1. history[t] \in Seq(Configs) /\ Len(history[t]) \in Nat
  BY DEF RegistryTypeOK
<1>2. CASE Register(t)
  BY <1>2 DEF Register, RegistryTypeOK
<1>3. CASE \E b \in BOOLEAN : Enable(t, b)
  BY <1>3 DEF Enable, RegistryTypeOK
<1>4. ASSUME NEW config \in Configs, Configure(t, config)
      PROVE  RegistryTypeOK'
  <2>1. Append(history[t], config) \in Seq(Configs)
    BY <1>1
  <2>2. history' \in [Targets -> Seq(Configs)]
    BY <1>4, <2>1 DEF Configure, RegistryTypeOK
  <2> QED
    BY <1>4, <2>2 DEF Configure, RegistryTypeOK
<1>5. CASE \E n \in 1 .. Len(history[t]) : Discover(t, n)
  BY <1>1, <1>5 DEF Discover, RegistryTypeOK
<1>6. CASE Remove(t)
  <2>1. <<>> \in Seq(Configs)
    OBVIOUS
  <2> QED
    BY <1>6, <2>1 DEF Remove, RegistryTypeOK
<1> QED
  BY <1>2, <1>3, <1>4, <1>5, <1>6

LEMMA ChangeInv ==
  ASSUME DesignInv, NEW t \in Targets, ChangeTarget(t)
  PROVE  DesignInv'
<1> USE DEF DesignInv
<1>1. RegistryTypeOK'
  BY RegistryTypes DEF ChangeTarget, Types
<1>2. UNCHANGED <<cases, test, run, observations>>
  BY DEF ChangeTarget, testVars
<1>3. Types'
  BY <1>1, <1>2 DEF Types
<1>4. \A u \in Targets : /\ life[u] = "registered" => life'[u] = "registered"
                         /\ life[u] = "deleted" => life'[u] = "deleted"
  BY DEF ChangeTarget, Register, Enable, Configure, Discover, Types, RegistryTypeOK
<1>5. \A x \in Tests : (Live(test[x]) /\ Consistent(test[x]))'
  BY <1>2, <1>4, TestFields DEF Live, Consistent, HashCurrent, Types
<1>6. \A r \in Runs : run[r].target \in Targets \cup {None} /\ run[r].snapshot.target \in Targets
  BY DEF Types, Run
<1>7. \A r \in Runs : Anchored(run[r])'
  BY <1>2, <1>4, <1>6 DEF Anchored
<1>8. \A r \in Runs : run'[r].test # None => test'[run'[r].test].exists
  BY <1>2
<1> QED
  BY <1>3, <1>5, <1>7, <1>8

LEMMA DeleteTargetInv ==
  ASSUME DesignInv, NEW t \in Targets, DeleteTarget(t)
  PROVE  DesignInv'
<1> USE DEF DesignInv
<1>1. RegistryTypeOK'
  BY RegistryTypes DEF DeleteTarget, Types
<1>2. /\ life' = [life EXCEPT ![t] = "deleted"] /\ life[t] = "registered"
      /\ cases' = cases
      /\ observations' = [observations EXCEPT ![t] = {}]
      /\ test' = [x \in Tests |-> IF test[x].target = t
                                  THEN [test[x] EXCEPT !.target = None] ELSE test[x]]
      /\ run' = [r \in Runs |-> IF run[r].target = t
                                THEN [run[r] EXCEPT !.target = None] ELSE run[r]]
  BY DEF DeleteTarget, Remove
<1>3. /\ life'[t] = "deleted"
      /\ \A u \in Targets \ {t} : life'[u] = life[u]
  BY <1>2 DEF Types, RegistryTypeOK
<1>4. ASSUME NEW x \in Tests
      PROVE  test'[x] \in Test /\ (Live(test[x]) /\ Consistent(test[x]))'
             /\ test'[x].exists = test[x].exists
  <2>1. PICK o : o = test[x]
    OBVIOUS
  <2>2. o \in Test /\ Live(o) /\ Consistent(o)
    BY <2>1 DEF Types
  <2>3. CASE o.target = t
    <3>1. PICK y : y = [o EXCEPT !.target = None]
      OBVIOUS
    <3>2. /\ y \in Test /\ y.target = None /\ y.benchmark = o.benchmark
          /\ y.status = o.status /\ y.hash = o.hash /\ y.mode = o.mode
          /\ y.judge = o.judge /\ y.selected = o.selected /\ y.exists = o.exists
      BY <2>2, <3>1 DEF Test
    <3>3. test'[x] = y
      BY <1>2, <2>1, <2>3, <3>1
    <3>4. (Live(y) /\ Consistent(y))'
      BY <1>2, <2>2, <3>2 DEF Live, Consistent, HashCurrent
    <3> QED
      BY <2>1, <3>2, <3>3, <3>4
  <2>4. CASE o.target # t
    <3>1. test'[x] = o
      BY <1>2, <2>1, <2>4
    <3>2. (Live(o) /\ Consistent(o))'
      BY <1>2, <1>3, <2>2, <2>4, TestFields DEF Live, Consistent, HashCurrent
    <3> QED
      BY <2>1, <2>2, <3>1, <3>2
  <2> QED
    BY <2>3, <2>4
<1>5. ASSUME NEW r \in Runs
      PROVE  run'[r] \in Run /\ Anchored(run[r])' /\ run'[r].test = run[r].test
  <2>1. PICK o : o = run[r]
    OBVIOUS
  <2>2. /\ o \in Run /\ Anchored(o) /\ o.snapshot.target \in Targets
        /\ o.target \in Targets \cup {None}
    BY <2>1 DEF Types, Run
  <2>3. CASE o.target = t
    <3>1. PICK y : y = [o EXCEPT !.target = None]
      OBVIOUS
    <3>2. /\ y \in Run /\ y.target = None /\ y.test = o.test
          /\ y.state = o.state /\ y.snapshot = o.snapshot
      BY <2>2, <3>1 DEF Run
    <3>3. run'[r] = y
      BY <1>2, <2>1, <2>3, <3>1
    <3>4. Anchored(y)'
      BY <1>3, <2>2, <2>3, <3>2, NoneAssumption DEF Anchored
    <3> QED
      BY <2>1, <3>2, <3>3, <3>4
  <2>4. CASE o.target # t
    <3>1. run'[r] = o
      BY <1>2, <2>1, <2>4
    <3>2. Anchored(o)'
      BY <1>3, <2>2, <2>4 DEF Anchored
    <3> QED
      BY <2>1, <2>2, <3>1, <3>2
  <2> QED
    BY <2>3, <2>4
<1>6. Types'
  <2>1. test' \in [Tests -> Test] /\ run' \in [Runs -> Run]
    BY <1>2, <1>4, <1>5
  <2>2. observations' \in [Targets -> SUBSET SUBSET Requirements]
    BY <1>2 DEF Types
  <2> QED
    BY <1>1, <1>2, <2>1, <2>2 DEF Types
<1>7. \A r \in Runs : run'[r].test # None => test'[run'[r].test].exists
  BY <1>4, <1>5 DEF Types, Run
<1> QED
  BY <1>4, <1>5, <1>6, <1>7

LEMMA SetCasesInv ==
  ASSUME DesignInv, NEW b \in Benchmarks, NEW new \in SUBSET Cases, SetCases(b, new)
  PROVE  DesignInv'
<1> USE DEF DesignInv
<1>1. Types'
  BY DEF Types, RegistryTypeOK, registryVars, SetCases
<1>2. \A c \in Benchmarks : cases[c] # None => cases'[c] # None
  BY NoneAssumption DEF SetCases, Types
<1>3. \A x \in Tests : (Live(test[x]) /\ Consistent(test[x]))'
  BY <1>2, TestFields DEF Live, Consistent, HashCurrent, registryVars, SetCases, Types
<1>4. \A r \in Runs : Anchored(run[r])'
  BY DEF Anchored, registryVars, SetCases
<1> QED
  BY <1>1, <1>3, <1>4 DEF SetCases

LEMMA DeleteBenchmarkInv ==
  ASSUME DesignInv, NEW b \in Benchmarks, DeleteBenchmark(b)
  PROVE  DesignInv'
<1> USE DEF DesignInv
<1>1. /\ cases' = [cases EXCEPT ![b] = None]
      /\ test' = [x \in Tests |-> IF test[x].benchmark = b
                                  THEN [test[x] EXCEPT !.benchmark = None] ELSE test[x]]
      /\ UNCHANGED <<registryVars, run, observations>>
  BY DEF DeleteBenchmark
<1>2. \A c \in Benchmarks \ {b} : cases'[c] = cases[c]
  BY <1>1 DEF Types
<1>3. ASSUME NEW x \in Tests
      PROVE  test'[x] \in Test /\ (Live(test[x]) /\ Consistent(test[x]))'
             /\ test'[x].exists = test[x].exists
  <2>1. PICK o : o = test[x]
    OBVIOUS
  <2>2. o \in Test /\ Live(o) /\ Consistent(o)
    BY <2>1 DEF Types
  <2>3. CASE o.benchmark = b
    <3>1. PICK y : y = [o EXCEPT !.benchmark = None]
      OBVIOUS
    <3>2. /\ y \in Test /\ y.benchmark = None /\ y.target = o.target
          /\ y.status = o.status /\ y.hash = o.hash /\ y.mode = o.mode
          /\ y.judge = o.judge /\ y.selected = o.selected /\ y.exists = o.exists
      BY <2>2, <3>1 DEF Test
    <3>3. test'[x] = y
      BY <1>1, <2>1, <2>3, <3>1
    <3>4. (Live(y) /\ Consistent(y))'
      BY <1>1, <2>2, <3>2 DEF Live, Consistent, HashCurrent, registryVars
    <3> QED
      BY <2>1, <3>2, <3>3, <3>4
  <2>4. CASE o.benchmark # b
    <3>1. test'[x] = o
      BY <1>1, <2>1, <2>4
    <3>2. (Live(o) /\ Consistent(o))'
      BY <1>1, <1>2, <2>2, <2>4, TestFields DEF Live, Consistent, HashCurrent, registryVars
    <3> QED
      BY <2>1, <2>2, <3>1, <3>2
  <2> QED
    BY <2>3, <2>4
<1>4. Types'
  <2>1. test' \in [Tests -> Test]
    BY <1>1, <1>3
  <2>2. cases' \in [Benchmarks -> (SUBSET Cases) \cup {None}]
    BY <1>1 DEF Types
  <2>3. RegistryTypeOK' /\ run' \in [Runs -> Run]
        /\ observations' \in [Targets -> SUBSET SUBSET Requirements]
    BY <1>1 DEF Types, RegistryTypeOK, registryVars
  <2> QED
    BY <2>1, <2>2, <2>3 DEF Types
<1>5. \A r \in Runs : Anchored(run[r])'
  BY <1>1 DEF Anchored, registryVars
<1>6. \A r \in Runs : run'[r].test # None => test'[run'[r].test].exists
  BY <1>1, <1>3 DEF Types, Run
<1> QED
  BY <1>3, <1>4, <1>5, <1>6

-----------------------------------------------------------------------------
(* Runs *)

LEMMA NoRunTyped == NoRun \in Run /\ Anchored(NoRun) /\ NoRun.test = None
<1>1. (CHOOSE t \in Targets : TRUE) \in Targets /\ (CHOOSE x \in Tests : TRUE) \in Tests
  BY IdsAssumption
<1> QED
  BY <1>1 DEF NoRun, Run, Anchored

LEMMA RunMove ==
  ASSUME DesignInv, NEW r \in Runs, NEW y \in Run, Anchored(y),
         y.test # None => test[y.test].exists,
         run' = [run EXCEPT ![r] = y], UNCHANGED <<registryVars, cases, test, observations>>
  PROVE  DesignInv'
<1> USE DEF DesignInv
<1>1. run'[r] = y /\ \A o \in Runs \ {r} : run'[o] = run[o]
  BY DEF Types
<1>2. Types'
  BY DEF Types, RegistryTypeOK, registryVars
<1>3. \A x \in Tests : (Live(test[x]) /\ Consistent(test[x]))'
  BY DEF Live, Consistent, HashCurrent, registryVars
<1>4. \A o \in Runs : Anchored(run[o])'
  BY <1>1 DEF Anchored, registryVars
<1>5. \A o \in Runs : run'[o].test # None => test'[run'[o].test].exists
  BY <1>1
<1> QED
  BY <1>2, <1>3, <1>4, <1>5

LEMMA StartInv ==
  ASSUME DesignInv, NEW x \in Tests, NEW r \in Runs, StartRun(x, r)
  PROVE  DesignInv'
<1>1. PICK o : o = test[x]
  OBVIOUS
<1>2. o \in Test /\ Live(o) /\ o.exists /\ Valid(o)
  BY <1>1 DEF DesignInv, Types, StartRun
<1>3. o.target \in Targets /\ life[o.target] = "registered"
  BY <1>2, TestFields DEF Valid, TargetValid
<1>4. history[o.target] \in Seq(Configs)
  BY <1>3 DEF DesignInv, Types, RegistryTypeOK
<1>5. PICK v \in Nat : v = Len(history[o.target])
  BY <1>4
<1>6. PICK metrics \in SUBSET Metrics : metrics = Resolved(o)
  BY <1>2, TestFields DEF Resolved, Applicable
<1>7. PICK y : y = [state |-> "pending", test |-> x, target |-> o.target,
                    snapshot |-> [target |-> o.target, version |-> v,
                                  metrics |-> metrics, test |-> x]]
  OBVIOUS
<1>8. /\ y \in Run /\ y.state = "pending" /\ y.test = x /\ y.target = o.target
      /\ y.snapshot.target = o.target
  BY <1>3, <1>7 DEF Run
<1>9. run' = [run EXCEPT ![r] = y] /\ UNCHANGED <<registryVars, cases, test, observations>>
  BY <1>1, <1>5, <1>6, <1>7 DEF StartRun, Snapshot
<1>10. Anchored(y)
  BY <1>3, <1>8, NoneAssumption DEF Anchored
<1> QED
  BY <1>1, <1>2, <1>8, <1>9, <1>10, RunMove

LEMMA ExecuteInv ==
  ASSUME DesignInv, NEW r \in Runs, Execute(r) \/ RefuseExecution(r)
  PROVE  DesignInv'
<1>1. PICK x : x = run[r]
  OBVIOUS
<1>2. x \in Run /\ Anchored(x) /\ x.state # "none" /\ x.test # None => test[x.test].exists
  BY <1>1 DEF DesignInv, Types
<1>3. /\ x \in Run /\ Anchored(x) /\ x.state # "none"
      /\ x.test # None => test[x.test].exists
  BY <1>1 DEF DesignInv, Types, Execute, RefuseExecution
<1>4. PICK state \in {"executing", "failed"} :
        run' = [run EXCEPT ![r] = [x EXCEPT !.state = state]]
  <2>1. run' = [run EXCEPT ![r].state = "executing"] =>
          run' = [run EXCEPT ![r] = [x EXCEPT !.state = "executing"]]
    BY <1>1 DEF DesignInv, Types, Run
  <2>2. run' = [run EXCEPT ![r].state = "failed"] =>
          run' = [run EXCEPT ![r] = [x EXCEPT !.state = "failed"]]
    BY <1>1 DEF DesignInv, Types, Run
  <2> QED
    BY <2>1, <2>2 DEF Execute, RefuseExecution
<1>5. PICK y : y = [x EXCEPT !.state = state]
  OBVIOUS
<1>6. /\ y \in Run /\ y.state = state /\ y.target = x.target /\ y.test = x.test
      /\ y.snapshot = x.snapshot
  BY <1>3, <1>5 DEF Run
<1>7. run' = [run EXCEPT ![r] = y] /\ UNCHANGED <<registryVars, cases, test, observations>>
  BY <1>4, <1>5 DEF Execute, RefuseExecution
<1>8. Anchored(y)
  BY <1>3, <1>6 DEF Anchored
<1> QED
  BY <1>3, <1>6, <1>7, <1>8, RunMove

LEMMA ObserveInv ==
  ASSUME DesignInv, NEW r \in Runs, NEW supplied \in Observables, Observe(r, supplied)
  PROVE  DesignInv'
<1> USE DEF DesignInv
<1>1. run[r].target \in Targets
  BY DEF Types, Run, Observe
<1>2. observations' \in [Targets -> SUBSET SUBSET Requirements]
  BY <1>1, OffersAssumption DEF Types, Observe
<1>3. Types'
  BY <1>2 DEF Types, RegistryTypeOK, registryVars, Observe
<1>4. \A x \in Tests : (Live(test[x]) /\ Consistent(test[x]))'
  BY DEF Live, Consistent, HashCurrent, registryVars, Observe
<1>5. \A o \in Runs : Anchored(run[o])'
  BY DEF Anchored, registryVars, Observe
<1> QED
  BY <1>3, <1>4, <1>5 DEF Observe

-----------------------------------------------------------------------------
(* The invariant *)

LEMMA InitInv == Init => DesignInv
<1> SUFFICES ASSUME Init PROVE DesignInv
  OBVIOUS
<1>1. PICK y : y = NoTest
  OBVIOUS
<1>2. /\ y \in Test /\ y.target = None /\ y.benchmark = None /\ y.status = "INCOMPLETE"
      /\ y.hash = <<>> /\ y.mode = "EXPLICIT"
  BY <1>1 DEF NoTest, NewTest, Test, SelectionModes, Hashes
<1>3. Live(y) /\ Consistent(y)
  BY <1>2 DEF Live, Consistent, HashCurrent
<1>4. RegistryTypeOK
  <2>1. <<>> \in Seq(Configs)
    OBVIOUS
  <2> QED
    BY <2>1 DEF Init, RegistryInit, RegistryTypeOK
<1>5. Types
  <2>1. test \in [Tests -> Test] /\ run \in [Runs -> Run]
    BY <1>1, <1>2, NoRunTyped DEF Init
  <2>2. cases \in [Benchmarks -> (SUBSET Cases) \cup {None}]
        /\ observations \in [Targets -> SUBSET SUBSET Requirements]
    BY DEF Init
  <2> QED
    BY <1>4, <2>1, <2>2 DEF Types
<1>6. \A x \in Tests : test[x] = y
  BY <1>1 DEF Init
<1>7. \A r \in Runs : run[r] = NoRun
  BY DEF Init
<1> QED
  BY <1>3, <1>5, <1>6, <1>7, NoRunTyped DEF DesignInv

LEMMA StutterInv ==
  ASSUME DesignInv, UNCHANGED vars
  PROVE  DesignInv'
<1> USE DEF DesignInv, vars, testVars, registryVars
<1>1. Types'
  BY DEF Types, RegistryTypeOK
<1>2. \A x \in Tests : (Live(test[x]) /\ Consistent(test[x]))'
  BY DEF Live, Consistent, HashCurrent
<1>3. \A o \in Runs : Anchored(run[o])'
  BY DEF Anchored
<1> QED
  BY <1>1, <1>2, <1>3

LEMMA NextInv == DesignInv /\ [Next]_vars => DesignInv'
<1> SUFFICES ASSUME DesignInv, [Next]_vars PROVE DesignInv'
  OBVIOUS
<1>1. ASSUME NEW x \in Tests,
             \/ CreateTest(x)
             \/ DeleteTest(x)
             \/ SelectAllApplicable(x)
             \/ \E mode \in SelectionModes, requested \in SUBSET Metrics,
                   judge \in BOOLEAN : SetTestMetrics(x, mode, requested, judge)
             \/ \E r \in Runs : StartRun(x, r)
      PROVE  DesignInv'
  BY <1>1, CreateInv, DeleteTestInv, SelectInv, StartInv
<1>2. ASSUME NEW x \in Tests, NEW t \in Targets \cup {None}, NEW b \in Benchmarks \cup {None},
             \/ UpdateTest(x, t, b)
             \/ \E mode \in SelectionModes, requested \in SUBSET Metrics,
                   judge \in BOOLEAN : ImportTest(x, t, b, mode, requested, judge)
      PROVE  DesignInv'
  BY <1>2, UpdateInv, ImportInv
<1>3. ASSUME NEW t \in Targets, ChangeTarget(t) \/ DeleteTarget(t)
      PROVE  DesignInv'
  BY <1>3, ChangeInv, DeleteTargetInv
<1>4. ASSUME NEW b \in Benchmarks,
             (\E new \in SUBSET Cases : SetCases(b, new)) \/ DeleteBenchmark(b)
      PROVE  DesignInv'
  BY <1>4, SetCasesInv, DeleteBenchmarkInv
<1>5. ASSUME NEW r \in Runs,
             \/ Execute(r)
             \/ RefuseExecution(r)
             \/ \E supplied \in Observables : Observe(r, supplied)
      PROVE  DesignInv'
  BY <1>5, ExecuteInv, ObserveInv
<1>6. CASE UNCHANGED vars
  BY <1>6, StutterInv
<1> QED
  BY <1>1, <1>2, <1>3, <1>4, <1>5, <1>6 DEF Next

(* The rows of tests and runs tell the truth, whatever was edited or       *)
(* deleted underneath (_refresh_test_state, ON DELETE SET NULL).           *)
THEOREM TestsStaySound == Spec => []TestsAreSound
<1>1. DesignInv => TestsAreSound
  <2> SUFFICES ASSUME DesignInv PROVE TestsAreSound
    OBVIOUS
  <2> USE DEF DesignInv
  <2>1. ASSUME NEW x \in Tests
        PROVE  /\ test[x].mode \in SelectionModes
               /\ test[x].selected \subseteq Metrics
               /\ test[x].status \in {"INCOMPLETE", "READY"}
               /\ Len(test[x].hash) <= 1
               /\ test[x].status = "READY" <=> test[x].hash # <<>>
    <3>1. ASSUME NEW h \in Hashes PROVE Len(h) <= 1
      <4>1. CASE h = <<>>
        BY <4>1
      <4>2. ASSUME NEW p \in Payload, h = <<p>> PROVE Len(h) <= 1
        BY <4>2
      <4> QED
        BY <4>1, <4>2 DEF Hashes
    <3> QED
      BY <3>1, TestFields DEF Types, Consistent
  <2>2. TypeOK
    BY <2>1 DEF Types, TypeOK
  <2>3. ReferencesAreLive
    BY DEF ReferencesAreLive, Live, Anchored
  <2>4. ReadyHashIsCurrent
    BY DEF ReadyHashIsCurrent, Consistent, HashCurrent
  <2> QED
    BY <2>2, <2>3, <2>4 DEF TestsAreSound
<1> QED
  BY InitInv, NextInv, <1>1, PTL DEF Spec

(* Only the check of execute_run makes a run execute, and it passes only   *)
(* while the target has the configuration of the snapshot.                 *)
LEMMA ExecuteChecks ==
  ASSUME DesignInv, [Next]_vars, NEW r \in Runs,
         run[r].state # "executing", run'[r].state = "executing"
  PROVE  /\ run[r].target = run[r].snapshot.target
         /\ enabled[run[r].snapshot.target]
         /\ run[r].snapshot.version = Len(history[run[r].snapshot.target])
<1> USE DEF DesignInv
<1>1. CASE Execute(r)
  <2>1. SameConfiguration(r) /\ run[r].state # "none"
    BY <1>1 DEF Execute
  <2>2. Anchored(run[r])
    OBVIOUS
  <2> QED
    BY <2>1, <2>2 DEF SameConfiguration, Anchored
<1>2. ASSUME NEW o \in Runs, o # r, Execute(o) PROVE FALSE
  BY <1>2 DEF Execute, Types
<1>3. ASSUME NEW o \in Runs, RefuseExecution(o) PROVE FALSE
  BY <1>3 DEF RefuseExecution, Types, Run
<1>4. ASSUME NEW x \in Tests, NEW o \in Runs, StartRun(x, o) PROVE FALSE
  <2>1. PICK y : y = [state |-> "pending", test |-> x, target |-> test[x].target,
                      snapshot |-> Snapshot(x)]
    OBVIOUS
  <2>2. run' = [run EXCEPT ![o] = y] /\ y.state = "pending"
    BY <1>4, <2>1 DEF StartRun
  <2> QED
    BY <2>2 DEF Types
<1>5. ASSUME NEW x \in Tests, DeleteTest(x) PROVE FALSE
  <2>1. run'[r] \in {run[r], [run[r] EXCEPT !.test = None]}
    BY <1>5 DEF DeleteTest
  <2> QED
    BY <2>1 DEF Types, Run
<1>6. ASSUME NEW t \in Targets, DeleteTarget(t) PROVE FALSE
  <2>1. run'[r] \in {run[r], [run[r] EXCEPT !.target = None]}
    BY <1>6 DEF DeleteTarget
  <2> QED
    BY <2>1 DEF Types, Run
<1>7. ASSUME UNCHANGED run PROVE FALSE
  BY <1>7
<1>8. ASSUME NEW x \in Tests,
             \/ CreateTest(x)
             \/ SelectAllApplicable(x)
             \/ \E mode \in SelectionModes, requested \in SUBSET Metrics,
                   judge \in BOOLEAN : SetTestMetrics(x, mode, requested, judge)
             \/ \E t \in Targets \cup {None}, b \in Benchmarks \cup {None} :
                  \/ UpdateTest(x, t, b)
                  \/ \E mode \in SelectionModes, requested \in SUBSET Metrics,
                        judge \in BOOLEAN :
                       ImportTest(x, t, b, mode, requested, judge)
      PROVE  UNCHANGED run
  BY <1>8 DEF CreateTest, SelectAllApplicable, SetTestMetrics, UpdateTest, ImportTest
<1>9. ASSUME NEW t \in Targets, ChangeTarget(t) PROVE UNCHANGED run
  BY <1>9 DEF ChangeTarget, testVars
<1>10. ASSUME NEW b \in Benchmarks,
              (\E new \in SUBSET Cases : SetCases(b, new)) \/ DeleteBenchmark(b)
       PROVE  UNCHANGED run
  BY <1>10 DEF SetCases, DeleteBenchmark
<1>11. ASSUME NEW o \in Runs, NEW supplied \in Observables, Observe(o, supplied)
       PROVE  UNCHANGED run
  BY <1>11 DEF Observe
<1>12. CASE UNCHANGED vars
  BY <1>7, <1>12 DEF vars, testVars
<1> QED
  BY <1>1, <1>2, <1>3, <1>4, <1>5, <1>6, <1>7, <1>8, <1>9, <1>10, <1>11, <1>12 DEF Next

(* No run comes to execute on anything but the configuration that its      *)
(* snapshot was taken of (the checks of execute_run and get_adapter).      *)
THEOREM OnlyItsConfiguration == Spec => ExecutesItsConfiguration
<1> DEFINE Checked ==
      \A r \in Runs : run[r].state # "executing" /\ run'[r].state = "executing" =>
        LET t == run[r].snapshot.target IN
        /\ run[r].target = t
        /\ enabled[t]
        /\ run[r].snapshot.version = Len(history[t])
<1>1. DesignInv /\ [Next]_vars => Checked
  BY ExecuteChecks
<1> HIDE DEF Checked
<1>2. DesignInv /\ [Next]_vars => [Checked]_vars
  BY <1>1
<1>3. Spec => [][Checked]_vars
  BY InitInv, NextInv, <1>2, PTL DEF Spec
<1> QED
  BY <1>3 DEF ExecutesItsConfiguration, Checked

=============================================================================
