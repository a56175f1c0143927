---------------------------- MODULE ModelSelection ----------------------------
(***************************************************************************)
(* The pure part of training: metrics of predictions (ml/evaluation/       *)
(* metrics.py), the choice of a threshold and of a model (threshold.py,    *)
(* selection.py, and the diagnostic choice of pipelines/train_models.py),  *)
(* and the quality gate of controlled retraining (ml/training/             *)
(* retraining.py).                                                         *)
(*                                                                         *)
(* A prediction is a row's label and the score a model gave it, a whole    *)
(* number up to the one that stands for probability 1.  A ratio is a pair  *)
(* of numerator and denominator, and costs are multiples of a unit.        *)
(***************************************************************************)
EXTENDS Integers, Sequences, FiniteSetsExt

-------------------------------------------------------------------------------
Ratios == Int \X (Nat \ {0})

\* SUPPORTED_PRIMARY_METRICS.
Metrics == {"recall", "precision", "f1", "pr_auc", "roc_auc"}

\* "thresholds must be a non-empty list", "must be sorted and unique".
Ascending(thresholds) ==
  Len(thresholds) > 0 /\ \A i, j \in DOMAIN thresholds : i < j => thresholds[i] < thresholds[j]

\* What load_model_config lets pass.
Configurations ==
  {c \in [thresholds: Seq(Nat \ {0}), costs: [positive: Nat, negative: Nat], minimum: Ratios,
          strategy: {"metric", "business_cost"}, metric: Metrics, primary: Metrics] :
     Ascending(c.thresholds)}

Alerts(rows, threshold) == {i \in DOMAIN rows : rows[i].score >= threshold}

Frauds(rows) == {i \in DOMAIN rows : rows[i].fraud}

\* "Both target classes are required for evaluation".
Evaluable(rows) == Frauds(rows) \notin {{}, DOMAIN rows}

\* evaluate_binary_predictions, and the expected cost of _evaluate_threshold.
Evaluation(rows, threshold, costs) ==
  LET caught == Cardinality(Alerts(rows, threshold) \cap Frauds(rows))
      missed == Cardinality(Frauds(rows)) - caught
      false  == Cardinality(Alerts(rows, threshold)) - caught
  IN  [threshold |-> threshold, caught |-> caught, missed |-> missed, false |-> false,
       ordered |-> Cardinality({p \in Frauds(rows) \X (DOMAIN rows \ Frauds(rows)) :
                                  rows[p[1]].score > rows[p[2]].score}),
       cost |-> false * costs.positive + missed * costs.negative]

\* zero_division=0.
Ratio(part, whole) == IF whole = 0 THEN <<0, 1>> ELSE <<part, whole>>

Whole(n) == <<n, 1>>

\* The two ranking metrics depend on the order of the scores alone, not on the threshold.  They
\* weigh it differently; here one measure of it, the pairs in the right order, stands for either.
Metric(name, e) ==
  CASE name = "recall"    -> Ratio(e.caught, e.caught + e.missed)
    [] name = "precision" -> Ratio(e.caught, e.caught + e.false)
    [] name = "f1"        -> Ratio(2 * e.caught, 2 * e.caught + e.false + e.missed)
    [] name \in {"pr_auc", "roc_auc"} -> Whole(e.ordered)

Less(x, y) == x[1] * y[2] < y[1] * x[2]

\* Tuples of ratios are compared as Python compares tuples.
Beats(key, other) ==
  \E i \in DOMAIN key : Less(other[i], key[i]) /\ \A h \in 1..(i - 1) : ~ Less(key[h], other[h])

\* max(items, key=...), and min with the key negated: the position of the best of the keys, of
\* equal ones the first.
BestOf(keys) ==
  MapThenFoldSet(LAMBDA i, best : IF Beats(keys[i], keys[best]) THEN i ELSE best,
                 Min(DOMAIN keys), LAMBDA i : i, LAMBDA positions : Max(positions), DOMAIN keys)

\* analyze_thresholds: one evaluation for each configured threshold, in their order.
Analysis(rows, config) ==
  [i \in DOMAIN config.thresholds |-> Evaluation(rows, config.thresholds[i], config.costs)]

\* _filter_by_recall; no minimum is a minimum of 0.
Eligible(evaluations, minimum) ==
  {i \in DOMAIN evaluations : ~ Less(Metric("recall", evaluations[i]), minimum)}

\* select_best_threshold and select_business_threshold.
ThresholdKey(e, config) ==
  IF config.strategy = "business_cost" THEN <<Whole(- e.cost), Metric("recall", e)>>
  ELSE <<Metric(config.metric, e), Whole(- e.cost)>>

\* Mutant of SelectThreshold: of equal thresholds the last one is taken.
SelectThresholdLast(evaluations, config) ==
  evaluations[- BestOf([i \in {- j : j \in Eligible(evaluations, config.minimum)} |->
                          ThresholdKey(evaluations[- i], config)])]

SelectThreshold(evaluations, config) ==
  evaluations[BestOf([i \in Eligible(evaluations, config.minimum) |->
                        ThresholdKey(evaluations[i], config)])]

\* _diagnostic_threshold.
DiagnosticThreshold(evaluations, config) ==
  LET Key(e) == <<Metric("recall", e), Metric(config.primary, e), Whole(- e.cost), Whole(- e.threshold)>>
  IN  evaluations[BestOf([i \in DOMAIN evaluations |-> Key(evaluations[i])])]

\* evaluate_validation_candidates: the models with a threshold that reaches the minimum recall.
\* analyses[i] is the analysis of the i-th model by name.
EligibleModels(analyses, config) ==
  {i \in DOMAIN analyses : Eligible(analyses[i], config.minimum) # {}}

ModelThreshold(evaluations, diagnostic, config) ==
  IF diagnostic THEN DiagnosticThreshold(evaluations, config) ELSE SelectThreshold(evaluations, config)

\* The order of the models, by the metrics at their thresholds.
BestModel(analyses, among, diagnostic, config) ==
  LET Choice(i) == ModelThreshold(analyses[i], diagnostic, config)
  IN  BestOf([i \in among |-> <<Metric(config.primary, Choice(i)), Whole(- Choice(i).cost), Whole(- i)>>])

\* select_production_candidate_from_results, and _select_diagnostic_candidate for retraining when
\* every model is rejected.  models[i] is what the i-th model predicts of the same rows.
Candidate(models, config) ==
  LET analyses == [i \in DOMAIN models |-> Analysis(models[i], config)]
      eligible == EligibleModels(analyses, config)
      diagnostic == eligible = {}
      among == IF diagnostic THEN DOMAIN models ELSE eligible
      chosen == BestModel(analyses, among, diagnostic, config)
  IN  [model |-> chosen, evaluation |-> ModelThreshold(analyses[chosen], diagnostic, config),
       diagnostic |-> diagnostic]

-------------------------------------------------------------------------------
(* The quality gate.                                                          *)

HigherBetter == {"pr_auc", "precision", "recall"}

LowerBetter == {"cost", "brier_score", "calibration_error", "alert_rate"}

Regressed(test, incumbent, policy) ==
  {m \in HigherBetter : test[m] - incumbent[m] < policy.delta[m]} \cup
  {m \in LowerBetter : test[m] - incumbent[m] > policy.delta[m]}

\* evaluate_retraining_quality.  load_training_dataset has refused duplicates, overlaps and
\* another set of features before, so the first three checks cannot fail.
FailedChecks(validation, test, incumbent, policy) ==
  {<<"validation", m>> : m \in {m \in HigherBetter : Less(validation[m], policy.validation[m])}} \cup
  {<<"test", m>> : m \in {m \in HigherBetter \cup {"rows", "positives"} : test[m] < policy.test[m]}} \cup
  {<<"test", m>> : m \in {m \in LowerBetter : test[m] > policy.test[m]}} \cup
  {<<"comparison", m>> : m \in Regressed(test, incumbent, policy)}

================================================================================
