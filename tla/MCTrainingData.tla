----------------------------- MODULE MCTrainingData -----------------------------
(***************************************************************************)
(* Instance of TrainingData for TLC, and the operators of DataPreparation  *)
(* over all small inputs: once, in the initial states.                     *)
(***************************************************************************)
EXTENDS TrainingData, DataPreparation, TLC

-------------------------------------------------------------------------------
(* A row that reaches training is labelled, of a known type, in time and the  *)
(* only one of its id, and no number of it is missing or NaN, or negative     *)
(* unless it is a balance and came by the staged route, which does not run    *)
(* validate_transaction_domain.  Whether they are finite is FeaturesFinite.   *)
PublishedRowsSound ==
  DataInit => \A route \in DOMAIN Routes, row \in Row : Publishes(route, row) =>
    /\ row.label \in {"fraud", "legitimate"} /\ row.type = "known" /\ row.step = "plain" /\ ~ row.twin
    /\ row.amount \notin {"null", "nan", "negative"} /\ row.balance \notin {"null", "nan"}
    /\ row.balance = "negative" => route = "staged"

(* ml/features/schema.py:86: "Reject null or non-finite values in numeric     *)
(* feature columns."  No published row has an infinite amount or balance.     *)
FeaturesFinite ==
  DataInit => \A route \in DOMAIN Routes, row \in Row :
    Publishes(route, row) => "infinite" \notin {row.amount, row.balance}

\* Every order of times, up to what comparisons tell apart.
SmallTimes(n, distinct) == UNION {[1..k -> 1..distinct] : k \in 1..n}

Percents == {<<70, 15>>, <<50, 25>>, <<34, 33>>}

(* However rows with equal times lie at a boundary, every split made has      *)
(* three parts that are not empty, share no row, lose none and follow one     *)
(* another in time, so that the pipeline's own validation never refuses it.   *)
(* "At least three rows are required" is not enough for the configured        *)
(* 70/15/15: seven are, whatever the times and the strategy.                  *)
SplitsSound ==
  DataInit =>
    /\ \A time \in SmallTimes(5, 3), ratio \in Percents :
         \A parts \in Splits(time, ratio[1], ratio[2]) \ {Refused} :
           /\ parts.train \cup parts.validation \cup parts.test = DOMAIN time
           /\ SplitValid(time, parts)
    /\ \A n \in 7..20, time \in {[i \in 1..20 |-> 1], [i \in 1..20 |-> i], [i \in 1..20 |-> i \div 8]} :
         Refused \notin Splits(SubSeq(time, 1, n), 70, 15)

(* Negative sampling loses no fraud, keeps to its cap unless the frauds alone *)
(* exceed it, and leaves both classes to train on as long as they do not fill *)
(* it.                                                                        *)
SampleKeepsFrauds ==
  DataInit => \A n \in 1..6 : \A frauds \in SUBSET (1..n), maxRows \in 1..6 :
    \A sample \in RetainFrauds(1..n, frauds, maxRows) :
      /\ frauds \subseteq sample
      /\ Cardinality(sample) <= Max({maxRows, Cardinality(frauds)})
      /\ BothClasses(1..n, frauds) /\ Cardinality(frauds) < maxRows => BothClasses(sample, frauds)

================================================================================
