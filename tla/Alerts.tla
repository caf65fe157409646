------------------------------- MODULE Alerts -------------------------------
(***************************************************************************)
(* The alert rules of dashboard/alerts.py, as functions of the query       *)
(* results they read:                                                      *)
(*   daily_eval      a set of rows [date, version, mae, r2]                *)
(*   reconciliation  a set of rows [date, cold, hot]                       *)
(*   age             how long ago the predictor wrote, or Never            *)
(* Errors are whole cents, r2 is in hundredths.  An alert is its status,   *)
(* the rule that raised it and the day it is about; its wording and its    *)
(* place in the list are left out.                                         *)
(***************************************************************************)
EXTENDS Integers, FiniteSets

CONSTANTS
    Null,           \* SQL's NULL
    Never,          \* no prediction was written yet
    DivergenceWarn, \* _DIVERGENCE_WARN, in percent: 5 in the code
    StaleAfter      \* _STALE_AFTER, five minutes

Alert(status, rule, date) == [status |-> status, rule |-> rule, date |-> date]

\* The mae at place k of the rows in ascending order, places from 0.
MaeAt(rows, k) ==
    CHOOSE m \in {r.mae : r \in rows} :
        /\ Cardinality({r \in rows : r.mae < m}) <= k
        /\ k < Cardinality({r \in rows : r.mae <= m})

\* Twice the median, which lies between two rows when their number is even.
TwiceMedian(rows) ==
    LET n == Cardinality(rows)
    IN  MaeAt(rows, (n - 1) \div 2) + MaeAt(rows, n \div 2)

Others(daily_eval, row) == {r \in daily_eval : r.date # row.date}

\* Mutant: no margin above the median of the other days.
ModelErrorNoMargin(daily_eval) ==
    {Alert("serious", "error", r.date) :
        r \in {q \in daily_eval : /\ Others(daily_eval, q) # {}
                                 /\ 2 * q.mae >= TwiceMedian(Others(daily_eval, q))}}

\* ratio >= 2.0 and ratio >= 1.5, against the median of the other days.
ModelError(daily_eval) ==
    LET Baseline(r) == TwiceMedian(Others(daily_eval, r))
        judged == {r \in daily_eval : Others(daily_eval, r) # {} /\ Baseline(r) > 0}
        critical == {r \in judged : r.mae >= Baseline(r)}
        serious == {r \in judged : 4 * r.mae >= 3 * Baseline(r)} \ critical
    IN  IF Cardinality(daily_eval) < 2 THEN {}
        ELSE {Alert("critical", "error", r.date) : r \in critical}
               \cup {Alert("serious", "error", r.date) : r \in serious}

ExplanatoryPower(daily_eval) ==
    {Alert("serious", "r2", r.date) :
        r \in {q \in daily_eval : q.r2 # Null /\ q.r2 < 30}}

\* gap / cold >= _DIVERGENCE_WARN.
LayerDivergence(reconciliation) ==
    LET Gap(r) == IF r.cold > r.hot THEN r.cold - r.hot ELSE r.hot - r.cold
        apart == {r \in reconciliation :
                    r.cold > 0 /\ 100 * Gap(r) >= DivergenceWarn * r.cold}
    IN  {Alert("warning", "divergence", r.date) : r \in apart}

ScoringStalled(age) ==
    IF age = Never \/ age >= StaleAfter THEN {Alert("warning", "idle", Null)} ELSE {}

\* evaluate: every rule, and the good news only if none has anything to say.
Evaluate(daily_eval, reconciliation, age) ==
    LET found == ModelError(daily_eval) \cup ExplanatoryPower(daily_eval)
                   \cup LayerDivergence(reconciliation) \cup ScoringStalled(age)
    IN  IF found = {} THEN {Alert("good", "clear", Null)} ELSE found
=============================================================================
