---------------------------- MODULE DataPreparation ----------------------------
(***************************************************************************)
(* The pure part of the data pipeline: which rows its checks let through   *)
(* (ml/data/validation.py, ml/features/schema.py), how they are split in   *)
(* time (ml/data/split.py) and sampled (ml/training/sampling.py).  Where   *)
(* the result depends on a hash, on floating point or on an approximate    *)
(* quantile, an operator is the set of the results possible.               *)
(***************************************************************************)
EXTENDS Integers, Sequences, FiniteSetsExt

-------------------------------------------------------------------------------
(* Rows and their checks.  A condition of Spark that is not true, NULL        *)
(* included, counts nothing, and NaN is greater than every number: hence the  *)
(* checks of the sign see neither.                                            *)

Measures == {"null", "nan", "infinite", "negative", "plain"}

\* What the checks tell apart in a row.  twin: another row has the same
\* transaction_id.  is_flagged_fraud is checked as is_fraud is.
Row == [amount: Measures, balance: Measures, step: {"null", "negative", "plain"},
        label: {"null", "other", "fraud", "legitimate"}, type: {"null", "other", "known"},
        twin: BOOLEAN]

\* validate_paysim: no NULL in any column.
RawRefuses(row) ==
  \/ "null" \in {row.amount, row.balance, row.step, row.label, row.type}
  \/ row.amount = "negative" \/ row.step = "negative" \/ row.label = "other"

\* Mutant of CanonicalRefuses: NOT IN is taken to hold of known types only.
CanonicalRefusesUntyped(row) ==
  "null" \in {row.amount, row.step, row.label, row.type} \/ row.twin \/ row.amount = "negative"

\* validate_canonical_data: the balances are not among its required columns.
CanonicalRefuses(row) ==
  \/ "null" \in {row.amount, row.step, row.label, row.type}
  \/ row.twin \/ row.amount = "negative" \/ row.label = "other" \/ row.type = "other"

\* validate_transaction_domain, and the one count of it that is acted upon.
DomainRefuses(row) == row.balance = "negative"

\* validate_feature_values.  A balance before the transaction that is infinite makes
\* a ratio NaN, and is refused: "infinite" stands for a balance after it.
FeaturesRefuse(row) == {row.amount, row.balance} \cap {"null", "nan"} # {} \/ row.label = "null"

\* run_pipeline, and the same work done by canonicalize_paysim, build_features and split_features.
Routes == [whole  |-> {"raw", "canonical", "domain", "features"},
           staged |-> {"raw", "canonical", "features"}]

Publishes(route, row) ==
  ~ \/ "raw" \in Routes[route] /\ RawRefuses(row)
    \/ "canonical" \in Routes[route] /\ CanonicalRefuses(row)
    \/ "domain" \in Routes[route] /\ DomainRefuses(row)
    \/ "features" \in Routes[route] /\ FeaturesRefuse(row)

-------------------------------------------------------------------------------
(* The chronological split.  time[i] is the time of row i, and i orders rows  *)
(* of the same time as their transaction_id does.                             *)

\* ValueError: the ratios produce an empty part.
Refused == [train |-> {}, validation |-> {}, test |-> {}]

\* int(n * ratio), the ratio in percent: the product may fall just short of an integer.
Cuts(n, percent) ==
  LET exact == (n * percent) \div 100
  IN  IF exact * 100 = n * percent THEN {exact, exact - 1} ELSE {exact}

\* row_number over timestamp and transaction_id.
RowNumber(time, i) ==
  Cardinality({j \in DOMAIN time : time[j] < time[i] \/ (time[j] = time[i] /\ j <= i)})

\* Mutant of ByRowNumber: the validation part begins at the row train ends with.
ByRowNumberOverlapping(time, a, b) ==
  [train      |-> {i \in DOMAIN time : RowNumber(time, i) <= a},
   validation |-> {i \in DOMAIN time : RowNumber(time, i) \in a..b},
   test       |-> {i \in DOMAIN time : RowNumber(time, i) > b}]

ByRowNumber(time, a, b) ==
  [train      |-> {i \in DOMAIN time : RowNumber(time, i) <= a},
   validation |-> {i \in DOMAIN time : RowNumber(time, i) \in (a + 1)..b},
   test       |-> {i \in DOMAIN time : RowNumber(time, i) > b}]

EmptyPart(n, a, b) == a = 0 \/ b = a \/ b >= n

Exact(time, train, validation) ==
  LET n == Len(time) IN
  {IF EmptyPart(n, a, a + b) THEN Refused ELSE ByRowNumber(time, a, a + b) :
     a \in Cuts(n, train), b \in Cuts(n, validation)}

ByTime(time, low, high) ==
  [train      |-> {i \in DOMAIN time : time[i] <= low},
   validation |-> {i \in DOMAIN time : time[i] > low /\ time[i] <= high},
   test       |-> {i \in DOMAIN time : time[i] > high}]

\* approxQuantile returns two times of the data, as far off as the relative
\* error allows, which may be 1; Exact when a part would be empty.
TimeBoundary(time, train, validation) ==
  LET exact == Exact(time, train, validation)
      Cut(low, high) == LET parts == ByTime(time, low, high) IN
        IF low >= high \/ {} \in {parts.train, parts.validation, parts.test} THEN exact ELSE {parts}
  IN  UNION {Cut(low, high) : low, high \in {time[i] : i \in DOMAIN time}}

Splits(time, train, validation) ==
  Exact(time, train, validation) \cup TimeBoundary(time, train, validation)

\* validate_split_datasets: counts, no id twice, and no time of a part after the next part's.
SplitValid(time, parts) ==
  LET t == parts.train  v == parts.validation  u == parts.test
      Times(rows) == {time[i] : i \in rows}
  IN  /\ Cardinality(t) + Cardinality(v) + Cardinality(u) = Len(time)
      /\ t \cap v = {} /\ v \cap u = {} /\ t \cap u = {}
      /\ Max(Times(t)) <= Min(Times(v)) /\ Max(Times(v)) <= Min(Times(u))

-------------------------------------------------------------------------------
(* Sampling.  rows is a set of rows and frauds those labelled fraud.          *)

\* Mutant of NegativeLimit: a place is kept free.
NegativeLimitLess(rows, frauds, maxRows) == Max({maxRows - Cardinality(frauds) - 1, 0})

NegativeLimit(rows, frauds, maxRows) == Max({maxRows - Cardinality(frauds), 0})

\* retain_all_positives_and_sample_negatives: the order of the hashes is any order.
RetainFrauds(rows, frauds, maxRows) ==
  IF Cardinality(rows) <= maxRows THEN {rows}
  ELSE {frauds \cup legitimate :
          legitimate \in kSubset(NegativeLimit(rows, frauds, maxRows), rows \ frauds)}

\* deterministically_sample_rows: "exact" caps, "hash" keeps whatever falls below the threshold.
SampleRows(rows, strategy, maxRows) ==
  IF strategy = "full" \/ Cardinality(rows) <= maxRows THEN {rows}
  ELSE IF strategy = "exact" THEN kSubset(maxRows, rows) ELSE SUBSET rows

BothClasses(rows, frauds) == rows \cap frauds # {} /\ rows \ frauds # {}

================================================================================
