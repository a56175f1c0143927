------------------------------ MODULE MCTrainingRun ------------------------------
(***************************************************************************)
(* Instance of TrainingRun for TLC: four validation rows, two of them      *)
(* fraud; scores from 0 to 3; three models of which two differ.            *)
(***************************************************************************)
EXTENDS TrainingRun, DataPreparation, TLC

Predictions(score) == [i \in 1..4 |-> [fraud |-> i <= 2, score |-> score[i]]]

Good  == Predictions(<<3, 3, 1, 0>>)
Fair  == Predictions(<<3, 0, 2, 1>>)
Blind == Predictions(<<0, 0, 2, 1>>)

ThreeModels == {<<Good, Fair, Blind>>, <<Fair, Fair, Blind>>, <<Blind, Blind, Blind>>}

\* evaluation_sampling_strategy "hash", with room for three rows.
HashSample(rows) == SampleRows(rows, "hash", 3)

SmallConfig == [thresholds |-> <<1, 2>>, costs |-> [positive |-> 1, negative |-> 2],
                minimum |-> <<2, 3>>, strategy |-> "business_cost", metric |-> "f1", primary |-> "pr_auc"]

Measured(recall, cost) ==
  [pr_auc |-> 1, precision |-> 1, recall |-> recall, cost |-> cost, brier_score |-> 0,
   calibration_error |-> 0, alert_rate |-> 1, rows |-> 4, positives |-> 2]

TestResults == {Measured(1, 0), Measured(0, 0), Measured(1, 2)}

PolicyOf(recall) ==
  [validation |-> [pr_auc |-> <<0, 1>>, precision |-> <<0, 1>>, recall |-> recall],
   test |-> Measured(0, 2),
   delta |-> [m \in HigherBetter \cup LowerBetter |-> 0]]

\* As strict as the configuration, and less strict.
TwoPolicies == {PolicyOf(<<2, 3>>), PolicyOf(<<1, 2>>)}

-------------------------------------------------------------------------------
\* Predictions of four rows, and configurations: the choice of a threshold is evaluated over all of
\* them once, in the initial state.
SmallPredictions ==
  {[i \in 1..4 |-> [fraud |-> i <= frauds, score |-> score[i]]] :
     frauds \in 1..3, score \in [1..4 -> 0..3]}

SmallConfigs ==
  {[thresholds |-> <<1, 2, 3>>, costs |-> [positive |-> p, negative |-> n], minimum |-> minimum,
    strategy |-> strategy, metric |-> metric, primary |-> "pr_auc"] :
     p \in 0..1, n \in {1, 2}, minimum \in {<<0, 1>>, <<1, 2>>, <<1, 1>>},
     strategy \in {"metric", "business_cost"}, metric \in {"f1", "precision"}}

(* The loop over the thresholds finds the lowest of the best among those that *)
(* reach the minimum recall, and there is none only if not even the lowest    *)
(* threshold reaches it.  Asking for more recall never raises the threshold.  *)
ThresholdIsBest ==
  TrainingInit => \A rows \in SmallPredictions, config \in SmallConfigs :
    LET evaluations == Analysis(rows, config)
        fit == {i \in 1..3 : ~ Less(Metric("recall", evaluations[i]), config.minimum)}
        Key(i) == ThresholdKey(evaluations[i], config)
        best == {i \in fit : \A j \in fit : ~ Beats(Key(j), Key(i))}
        unconstrained == [config EXCEPT !.minimum = <<0, 1>>]
    IN  IF fit = {} THEN Less(Metric("recall", evaluations[1]), config.minimum)
        ELSE /\ SelectThreshold(evaluations, config) = evaluations[Min(best)]
             /\ Min(best) <= SelectThreshold(evaluations, unconstrained).threshold

================================================================================
