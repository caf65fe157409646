----------------------------- MODULE DailyEval -----------------------------
(***************************************************************************)
(* The daily evaluation (ml/sql/evaluate_daily.sql, run every five minutes *)
(* by ml_daily_eval) beside the trainer and the predictor of Predictor.    *)
(*                                                                         *)
(* An average is modelled by its sum: the number of summands is published  *)
(* and compared with it, so one moves exactly when the other does.         *)
(***************************************************************************)
EXTENDS Predictor, FiniteSetsExt

CONSTANTS
    DayOf,      \* the date of a trip's pickup
    Actual,     \* actual_amount of a trip
    Predicted,  \* what a model quotes for a trip
    Null,       \* SQL's NULL
    Common      \* a common multiple of the actual amounts

ASSUME AmountsAssumption ==
    /\ Actual \in [Trips -> Int]
    /\ Predicted \in [Models -> [Trips -> Int]]
    /\ \A t \in Trips : Actual[t] # 0 => Common % Actual[t] = 0
ASSUME NullAssumption == Null \notin Nat \cup (Int \X Int)

VARIABLE scores   \* ml_daily_eval, by date and model version

evalVars == <<vars, scores>>

Versions == {VersionOf[m] : m \in Models}
ScoreKeys == {DayOf[t] : t \in Trips} \X Versions
NoScore == [predictions |-> 0]

\* GROUP BY 1, 2
Group(key) ==
    {t \in Trips : /\ table[t] # NoQuote
                   /\ <<DayOf[t], table[t].version>> = key}

Magnitude(n) == IF n < 0 THEN -n ELSE n

\* per_day, and the r2 of the SELECT: NULL without variance to explain.
PerDay(key) ==
    LET quoted == Group(key)
        n == Cardinality(quoted)
        Quoted(t) == Predicted[table[t].by][t]
        Error(t) == Quoted(t) - Actual[t]
        actual == MapThenSumSet(LAMBDA t : Actual[t], quoted)
        sse == MapThenSumSet(LAMBDA t : Error(t) * Error(t), quoted)
        paid == {t \in quoted : Actual[t] # 0}
        variance == n * MapThenSumSet(LAMBDA t : Actual[t] * Actual[t], quoted)
                      - actual * actual
    IN  [predictions |-> n,
         mae |-> MapThenSumSet(LAMBDA t : Magnitude(Error(t)), quoted),
         rmse |-> sse,
         mape |-> IF paid = {} THEN Null
                  ELSE <<MapThenSumSet(LAMBDA t : Magnitude(Error(t)) *
                           (Common \div Magnitude(Actual[t])), paid),
                         Cardinality(paid)>>,
         r2 |-> IF n > 1 /\ variance > 0
                THEN IF sse = 0 THEN <<0, 1>> ELSE <<sse, variance>>
                ELSE Null,
         mean_actual |-> actual,
         mean_predicted |-> MapThenSumSet(Quoted, quoted)]

\* The columns the WHERE clause of the upsert compares.
Compared == {"predictions", "mae", "rmse", "mape", "r2"}

\* Mutant: it compares the number of predictions only.
CountMoved(old, new) == old = NoScore \/ old.predictions # new.predictions

Moved(old, new) == old = NoScore \/ \E c \in Compared : old[c] # new[c]

\* One statement on one snapshot; days without quotes are not touched.
EvaluateDaily ==
    /\ scores' = [k \in ScoreKeys |->
                    IF Group(k) # {} /\ Moved(scores[k], PerDay(k))
                    THEN PerDay(k) ELSE scores[k]]
    /\ UNCHANGED vars

EvalInit == Init /\ scores = [k \in ScoreKeys |-> NoScore]

EvalNext == (Next /\ UNCHANGED scores) \/ EvaluateDaily

EvalSpec == EvalInit /\ [][EvalNext]_evalVars

\* The evaluation runs on a schedule for ever, beside the predictor.
FairEvalSpec == EvalSpec /\ Fairness /\ WF_evalVars(EvaluateDaily)

-----------------------------------------------------------------------------
(***************************************************************************)
(* Properties                                                              *)
(***************************************************************************)
\* The published score of every day that has quotes settles on the errors of
\* the quotes that are there, however quotes, re-scorings and evaluations
\* interleave (evaluate_daily.sql:4-7).
ErrorsCurrent(key) ==
    \A c \in Compared : scores[key] # NoScore /\ scores[key][c] = PerDay(key)[c]
ErrorsSettle == <>[](\A k \in ScoreKeys : Group(k) # {} => ErrorsCurrent(k))
=============================================================================
