----------------------------- MODULE MetricValues -----------------------------
(***************************************************************************)
(* What a metric returns: metrics/base.py MetricResult with the statuses   *)
(* of metrics/engine.py, and the arithmetic of metrics/helpers.py. A value *)
(* is an exact ratio <<numerator, denominator>>; the rounding to six       *)
(* digits is left out, no property compares values that close.             *)
(***************************************************************************)
EXTENDS Integers, Sequences, FiniteSets, SequencesExt, FiniteSetsExt

CONSTANT None     \* Python's None

Zero == <<0, 1>>
One  == <<1, 1>>

safe_divide(n, d) == IF d = 0 THEN Zero ELSE <<n, d>>

Plus(a, b)     == <<a[1] * b[2] + b[1] * a[2], a[2] * b[2]>>
Minus(a, b)    == <<a[1] * b[2] - b[1] * a[2], a[2] * b[2]>>
Times(a, b)    == <<a[1] * b[1], a[2] * b[2]>>
Quotient(a, b) == safe_divide(a[1] * b[2], a[2] * b[1])
AtMost(a, b)   == a[1] * b[2] <= b[1] * a[2]
Same(a, b)     == a[1] * b[2] = b[1] * a[2]
Indicator(holds) == IF holds THEN One ELSE Zero
Counted(S, of)   == safe_divide(Cardinality(S), of)

(* MetricResult. A metric that raises is recorded as FAILED by the engine, *)
(* one whose requirements the context does not meet as unavailable.        *)
Computed(v) == [status |-> "COMPUTED", value |-> v]
Missing     == [status |-> "UNAVAILABLE_MISSING_INPUT", value |-> None]
Failed      == [status |-> "FAILED", value |-> None]
Scored(met, v) == IF met THEN Computed(v) ELSE Missing

is_computed(r) == r.status = "COMPUTED" /\ r.value # None
Statuses == {"COMPUTED", "UNAVAILABLE_MISSING_INPUT", "FAILED"}

(* The metric is computed twice and the values are subtracted.             *)
Change(before, after) ==
  IF "FAILED" \in {before.status, after.status} THEN Failed
  ELSE IF ~(is_computed(before) /\ is_computed(after)) THEN Missing
  ELSE Computed(Minus(after.value, before.value))

(* Harmonic mean.                                                          *)
Harmonic(p, r) == Quotient(Times(<<2, 1>>, Times(p, r)), Plus(p, r))

(* Both halves of a rate that is reported twice.                           *)
Complement(r) == IF is_computed(r) THEN Computed(Minus(One, r.value)) ELSE r
=============================================================================
