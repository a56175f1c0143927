--------------------------- MODULE TrainingRun_proofs ---------------------------
(***************************************************************************)
(* Theorems about TrainingRun, for all attempts, samples, policies and     *)
(* configurations: what is promotable served an input, the run and the     *)
(* version of an attempt agree, and training does to the registry no more  *)
(* than ModelRegistry says.                                                *)
(***************************************************************************)
EXTENDS MCTrainingRun, ModelSelection_proofs

-------------------------------------------------------------------------------
(* Types: those of TrainingTypeOK, and the shape of the two records.          *)

AttemptType ==
  /\ pc \in Steps \cup {"idle", "raised"}
  /\ attempt.version \in Versions \cup {None} /\ (attempt.version = None <=> pc = "idle")
  /\ {attempt.controlled, attempt.diagnostic, attempt.passed} \subseteq BOOLEAN
  /\ attempt.incumbent \in Versions \cup {None}
  /\ outcome \in [Versions -> {"none", "registered", "rejected", "recorded", "untracked", "failed",
                            "killed"}]
  /\ attempt = [version |-> attempt.version, controlled |-> attempt.controlled,
                policy |-> attempt.policy, incumbent |-> attempt.incumbent,
                choice |-> attempt.choice, diagnostic |-> attempt.diagnostic, passed |-> attempt.passed]

Tags == [status: {"none", "candidate", "rejected", "production"},
         signature: {"none", "passed"},
         serving: {"none", "pending", "passed", "failed"},
         incumbent: Versions \cup {None}]

StoreType ==
  /\ tags \in [Versions -> Tags]
  /\ run \in [Versions -> {"none", "validation_pending", "passed", "rejected", "candidate"}]
  /\ {production, candidate, local.models, local.report, local.last} \subseteq Versions \cup {None}
  /\ local = [models |-> local.models, report |-> local.report, last |-> local.last]
  /\ served \subseteq Versions

TypeInv == AttemptType /\ StoreType

LEMMA TypeInvInit == TrainingInit => TypeInv
BY VersionsAssumption
   DEF TrainingInit, TypeInv, AttemptType, StoreType, Tags, NoAttempt, Untagged, Steps

\* How an attempt is left: it ends, or an exception is on its way.
Left ==
  /\ pc # "idle"
  /\ \/ /\ pc' = "idle" /\ attempt' = NoAttempt
        /\ \E result \in {"registered", "rejected", "recorded", "untracked", "failed", "killed"} :
             outcome' = [outcome EXCEPT ![attempt.version] = result]
     \/ pc' = "raised" /\ UNCHANGED <<attempt, outcome>>

LEMMA RaiseLeaves == pc # "idle" /\ Raise => Left
BY DEF Raise, End, Left

\* Steps that take an attempt on.
On ==
  /\ pc # "idle" /\ pc' \in Steps /\ outcome' = outcome
  /\ \E incumbent \in Versions \cup {None}, diagnostic, passed \in BOOLEAN : \E choice :
       attempt' = [attempt EXCEPT !.incumbent = incumbent, !.choice = choice,
                                  !.diagnostic = diagnostic, !.passed = passed]

LEMMA CandidateShape ==
  ASSUME NEW models, NEW config
  PROVE  Candidate(models, config).diagnostic \in BOOLEAN
BY DEF Candidate

LEMMA KeepsOn ==
  ASSUME TypeInv, pc # "idle", pc' \in Steps, UNCHANGED <<attempt, outcome>>
  PROVE  On
<1>1. attempt = [attempt EXCEPT !.incumbent = attempt.incumbent, !.choice = attempt.choice,
                                !.diagnostic = attempt.diagnostic, !.passed = attempt.passed]
  BY DEF TypeInv, AttemptType
<1>2. /\ attempt.incumbent \in Versions \cup {None}
      /\ attempt.diagnostic \in BOOLEAN /\ attempt.passed \in BOOLEAN
  BY DEF TypeInv, AttemptType
<1>3. attempt' = [attempt EXCEPT !.incumbent = attempt.incumbent, !.choice = attempt.choice,
                                 !.diagnostic = attempt.diagnostic, !.passed = attempt.passed]
  BY <1>1
<1> QED
  BY <1>2, <1>3 DEF On

LEMMA LeftType ==
  ASSUME TypeInv, Left
  PROVE  AttemptType'
<1>1. CASE UNCHANGED <<attempt, outcome>> /\ pc' = "raised"
  BY <1>1 DEF TypeInv, AttemptType, Left
<1>2. CASE attempt' = NoAttempt /\ pc' = "idle"
  <2>1. PICK result \in {"registered", "rejected", "recorded", "untracked", "failed", "killed"} :
          outcome' = [outcome EXCEPT ![attempt.version] = result]
    BY <1>2 DEF Left
  <2>2. outcome' \in [Versions -> {"none", "registered", "rejected", "recorded", "untracked",
                                   "failed", "killed"}]
    BY <2>1 DEF TypeInv, AttemptType
  <2>3. attempt' = [version |-> None, controlled |-> FALSE, policy |-> None, incumbent |-> None,
                    choice |-> None, diagnostic |-> FALSE, passed |-> TRUE]
    BY <1>2 DEF NoAttempt
  <2> QED
    BY <1>2, <2>2, <2>3 DEF AttemptType
<1> QED
  BY <1>1, <1>2 DEF Left

LEMMA OnType ==
  ASSUME TypeInv, On
  PROVE  AttemptType' /\ attempt'.version = attempt.version
<1>1. \E incumbent \in Versions \cup {None}, diagnostic \in BOOLEAN, passed \in BOOLEAN : \E choice :
        attempt' = [version |-> attempt.version, controlled |-> attempt.controlled,
                    policy |-> attempt.policy, incumbent |-> incumbent, choice |-> choice,
                    diagnostic |-> diagnostic, passed |-> passed]
  BY DEF On, TypeInv, AttemptType
<1>2. pc' # "idle"
  BY DEF On, Steps
<1> QED
  BY <1>1, <1>2 DEF On, TypeInv, AttemptType

\* Those who work at the attempt, and those who do not.
Begins == \E v \in Versions, controlled \in BOOLEAN, policy \in Policies : Begin(v, controlled, policy)

Moves == \E v \in Versions \cup {None} : MoveProduction(v)

LEMMA NextMoves == TypeInv /\ TrainingNext => Begins \/ Moves \/ Left \/ On
<1> SUFFICES ASSUME TypeInv, TrainingNext PROVE Begins \/ Moves \/ Left \/ On
  OBVIOUS
<1>t. attempt.controlled \in BOOLEAN /\ attempt.diagnostic \in BOOLEAN /\ attempt.passed \in BOOLEAN
      /\ attempt.incumbent \in Versions \cup {None}
  BY DEF TypeInv, AttemptType
<1>1. ResolveIncumbent => On
  <2> SUFFICES ASSUME ResolveIncumbent PROVE On
    OBVIOUS
  <2>1. attempt' = [attempt EXCEPT !.incumbent = production, !.choice = attempt.choice,
                                   !.diagnostic = attempt.diagnostic, !.passed = attempt.passed]
    BY DEF ResolveIncumbent, TypeInv, AttemptType
  <2>2. production \in Versions \cup {None}
    BY DEF TypeInv, StoreType
  <2> QED
    <3>1. pc # "idle" /\ pc' \in Steps /\ outcome' = outcome
      BY DEF ResolveIncumbent, Step, Steps
    <3> QED
      BY <1>t, <2>1, <2>2, <3>1 DEF On
<1>2. Select => On
  <2> SUFFICES ASSUME Select PROVE On
    OBVIOUS
  <2>1. CASE attempt.controlled
    <3>1. PICK choice \in Selections :
            /\ choice.diagnostic => attempt.controlled
            /\ attempt' = [attempt EXCEPT !.choice = choice.evaluation, !.diagnostic = choice.diagnostic]
      BY <2>1 DEF Select
    <3>2. choice.diagnostic \in BOOLEAN
      BY <3>1, CandidateShape DEF Selections
    <3>4. pc # "idle" /\ pc' = "gate" /\ outcome' = outcome
      BY <2>1 DEF Select
    <3>3. attempt' = [attempt EXCEPT !.incumbent = attempt.incumbent, !.choice = choice.evaluation,
                                     !.diagnostic = choice.diagnostic, !.passed = attempt.passed]
      BY <3>1 DEF TypeInv, AttemptType
    <3> QED
      BY <1>t, <3>2, <3>3, <3>4 DEF On, Steps
  <2>2. CASE ~ attempt.controlled
    BY <2>2, KeepsOn DEF Select, Steps
  <2> QED
    BY <2>1, <2>2
<1>3. Gate => On
  <2> SUFFICES ASSUME Gate PROVE On
    OBVIOUS
  <2>1. PICK test \in Results, incumbent \in Results :
          LET validation == [m \in HigherBetter |-> Metric(m, attempt.choice)] IN
          attempt' = [attempt EXCEPT !.passed = FailedChecks(validation, test, incumbent, attempt.policy) = {},
                                     !.choice = None]
    BY DEF Gate
  <2>2. PICK passed \in BOOLEAN : attempt' = [attempt EXCEPT !.passed = passed, !.choice = None]
    BY <2>1
  <2>3. attempt' = [attempt EXCEPT !.incumbent = attempt.incumbent, !.choice = None,
                                   !.diagnostic = attempt.diagnostic, !.passed = passed]
    BY <2>2 DEF TypeInv, AttemptType
  <2> QED
    BY <1>t, <2>3 DEF Gate, Step, On, Steps
<1>4. SaveModels => On \/ Left
  <2>1. CASE Overwrite("models", attempt.version) /\ pc' = "report" /\ UNCHANGED <<attempt, outcome>>
    BY <2>1, KeepsOn DEF SaveModels, Steps
  <2> QED
    BY <2>1, RaiseLeaves DEF SaveModels
<1>5. LoadIncumbent \/ SaveReport \/ OpenRun \/ Judge \/ Register \/ TagNewVersion \/ Serve => On
  BY KeepsOn DEF LoadIncumbent, SaveReport, OpenRun, Judge, Register, TagNewVersion, Serve, TagRun,
     TagVersion, Step, Steps
<1>6. Untracked \/ LogRejected \/ RecordFailure \/ Kill => Left
  BY DEF Untracked, LogRejected, RecordFailure, Kill, End, Left
<1>7. Sign => On \/ Left
  BY KeepsOn, RaiseLeaves DEF Sign, Step, Steps
<1>8. Reject => On \/ Left
  BY KeepsOn, RaiseLeaves DEF Reject, TagRun, TagVersion, Step, Steps
<1>9. Accept => On \/ Left
  BY KeepsOn DEF Accept, TagRun, TagVersion, Step, Steps, End, Left
<1>10. CallFails => Left
  BY RaiseLeaves DEF CallFails, Steps
<1> QED
  BY <1>1, <1>2, <1>3, <1>4, <1>5, <1>6, <1>7, <1>8, <1>9, <1>10 DEF TrainingNext, Begins, Moves

LEMMA AttemptTypeNext == TypeInv /\ TrainingNext => AttemptType'
<1> SUFFICES ASSUME TypeInv, TrainingNext PROVE AttemptType'
  OBVIOUS
<1>1. CASE Begins
  <2>1. PICK v \in Versions, controlled \in BOOLEAN, policy \in Policies : Begin(v, controlled, policy)
    BY <1>1 DEF Begins
  <2>2. /\ attempt' = [version |-> v, controlled |-> controlled,
                       policy |-> IF controlled THEN policy ELSE None, incumbent |-> None,
                       choice |-> None, diagnostic |-> FALSE, passed |-> TRUE]
        /\ pc' \in {"resolve", "predict"} /\ outcome' = outcome
    BY <2>1 DEF Begin, NoAttempt
  <2> QED
    BY <2>2, VersionsAssumption DEF TypeInv, AttemptType, Steps
<1>2. CASE Moves
  BY <1>2 DEF Moves, MoveProduction, TypeInv, AttemptType
<1> QED
  BY <1>1, <1>2, NextMoves, LeftType, OnType

LEMMA StoreTypeNext == TypeInv /\ TrainingNext => StoreType'
<1> SUFFICES ASSUME TypeInv, TrainingNext PROVE StoreType'
  OBVIOUS
<1> DEFINE v == attempt.version
<1>v. pc # "idle" => v \in Versions
  BY DEF TypeInv, AttemptType
<1>m. ASSUME UNCHANGED <<mlflow, production>>,
             \/ local' = local
             \/ pc # "idle" /\ \E field \in {"models", "report"}, what \in Versions \cup {None} :
                  local' = [local EXCEPT ![field] = what, !.last = attempt.version]
      PROVE  StoreType'
  <2>1. \/ local' = local
        \/ v \in Versions /\ \E what \in Versions \cup {None} :
             \/ local' = [local EXCEPT !.models = what, !.last = v]
             \/ local' = [local EXCEPT !.report = what, !.last = v]
    BY <1>m, <1>v
  <2>2. /\ {local'.models, local'.report, local'.last} \subseteq Versions \cup {None}
        /\ local' = [models |-> local'.models, report |-> local'.report, last |-> local'.last]
    BY <2>1 DEF TypeInv, StoreType
  <2> QED
    BY <1>m, <2>2 DEF TypeInv, StoreType, mlflow
<1>1. ASSUME NEW u \in Versions, NEW controlled \in BOOLEAN, NEW policy \in Policies,
             Begin(u, controlled, policy)
      PROVE  StoreType'
  BY <1>m, <1>1 DEF Begin
<1>2. CASE \/ ResolveIncumbent \/ LoadIncumbent \/ Select \/ Gate \/ Untracked \/ LogRejected \/ Register
           \/ CallFails \/ RecordFailure \/ Kill
  BY <1>m, <1>2 DEF ResolveIncumbent, LoadIncumbent, Select, Gate, Untracked, LogRejected, Register,
     CallFails, RecordFailure, Kill
<1>3. CASE SaveModels \/ SaveReport
  <2>1. UNCHANGED <<mlflow, production>>
    BY <1>3 DEF SaveModels, SaveReport
  <2>2. v \in Versions /\ pc # "idle"
    BY <1>3, <1>v DEF SaveModels, SaveReport, Step
  <2>3. \E field \in {"models", "report"}, what \in {v, None} : Overwrite(field, what)
    BY <1>3 DEF SaveModels, SaveReport
  <2> QED
    BY <1>m, <2>1, <2>2, <2>3 DEF Overwrite
<1>r. ASSUME NEW value \in {"none", "validation_pending", "passed", "rejected", "candidate"}, v \in Versions,
             run' = [run EXCEPT ![v] = value], UNCHANGED <<tags, candidate, production, local, served>>
      PROVE  StoreType'
  BY <1>r DEF TypeInv, StoreType
<1>4. ASSUME NEW from \in Steps, NEW to, NEW value, TagRun(from, to, value),
             value \in {"none", "validation_pending", "passed", "rejected", "candidate"}
      PROVE  StoreType'
  BY <1>r, <1>4, <1>v DEF TagRun, Step, Steps
<1>5. CASE OpenRun
  BY <1>4, <1>5 DEF OpenRun, Steps
<1>6. CASE Judge
  <2>1. v \in Versions
    BY <1>6, <1>v DEF Judge, TagRun, Step
  <2>2. run[v] \in {"none", "validation_pending", "passed", "rejected", "candidate"}
    BY <2>1 DEF TypeInv, StoreType
  <2> QED
    BY <1>4, <1>6, <2>2 DEF Judge, Steps
<1>7. CASE Sign
  <2>1. CASE UNCHANGED <<mlflow, attempt, outcome, production, local>>
    BY <1>m, <2>1
  <2> QED
    BY <1>7, <1>v, <1>r, <2>1 DEF Sign
<1>8. ASSUME NEW from \in Steps, NEW to, NEW field, NEW value, TagVersion(from, to, field, value),
             \/ field = "status" /\ value \in {"candidate", "rejected"}
             \/ field = "signature" /\ value = "passed"
             \/ field = "serving" /\ value \in {"pending", "passed"}
             \/ field = "incumbent" /\ value \in Versions \cup {None}
      PROVE  StoreType'
  <2>1. v \in Versions /\ tags' = [tags EXCEPT ![v][field] = value]
    BY <1>8, <1>v DEF TagVersion, Step, Steps
  <2>2. tags' \in [Versions -> Tags]
    BY <1>8, <2>1 DEF TypeInv, StoreType, Tags
  <2> QED
    BY <1>8, <2>2 DEF TagVersion, TypeInv, StoreType
<1>9. CASE TagNewVersion
  BY <1>8, <1>9 DEF TagNewVersion, NewTags, Steps, TypeInv, AttemptType
<1>10. CASE Serve
  BY <1>10, <1>v DEF Serve, Step, TypeInv, StoreType
<1>11. CASE Reject
  <2>1. ASSUME pc = "reject serving", tags' = [tags EXCEPT ![v].serving = "failed"],
               UNCHANGED <<run, candidate, production, local, served>>
        PROVE  StoreType'
    <3>1. tags \in [Versions -> Tags] /\ v \in Versions
      BY <2>1, <1>v DEF TypeInv, StoreType, Steps
    <3>2. [tags[v] EXCEPT !.serving = "failed"] \in Tags
      BY <3>1 DEF Tags
    <3>3. tags' \in [Versions -> Tags]
      BY <2>1, <3>1, <3>2
    <3> QED
      BY <2>1, <3>3 DEF TypeInv, StoreType
  <2> QED
    BY <1>4, <1>8, <1>11, <2>1 DEF Reject, Steps
<1>12. CASE Accept
  <2>1. ASSUME pc = "alias", candidate' = v, UNCHANGED <<tags, run, production, local, served>>
        PROVE  StoreType'
    BY <2>1, <1>v DEF TypeInv, StoreType
  <2> QED
    BY <1>4, <1>8, <1>12, <2>1 DEF Accept, Steps
<1>13. ASSUME NEW u \in Versions \cup {None}, MoveProduction(u)
       PROVE  StoreType'
  <2>1. tags' \in [Versions -> Tags]
    BY <1>13 DEF MoveProduction, TypeInv, StoreType, Tags
  <2> QED
    BY <1>13, <2>1 DEF MoveProduction, TypeInv, StoreType
<1> QED
  BY <1>1, <1>2, <1>3, <1>5, <1>6, <1>7, <1>9, <1>10, <1>11, <1>12, <1>13 DEF TrainingNext

LEMMA TypeInvNext == TypeInv /\ [TrainingNext]_trainingVars => TypeInv'
<1>1. UNCHANGED trainingVars /\ TypeInv => TypeInv'
  BY DEF trainingVars, TypeInv, AttemptType, StoreType
<1> QED
  BY <1>1, AttemptTypeNext, StoreTypeNext DEF TypeInv

(* The variables of a training keep their types.                              *)
THEOREM TrainingTyped == TrainingSpec => []TrainingTypeOK
<1>1. TypeInv => TrainingTypeOK
  BY DEF TypeInv, AttemptType, StoreType, Tags, TrainingTypeOK
<1> QED
  BY TypeInvInit, TypeInvNext, <1>1, PTL DEF TrainingSpec

-------------------------------------------------------------------------------
(* What holds of the attempt at every step, and of the others.                *)

Undecided == {"validation_pending", "passed"}

Progress ==
  LET v == attempt.version IN
  /\ pc \in {"resolve", "load", "predict", "gate", "save", "report", "open"} =>
       tags[v] = Untagged /\ run[v] = "none"
  /\ pc \in {"judge", "sign", "log", "status"} => tags[v] = Untagged
  /\ pc \in {"judge", "sign", "log"} /\ attempt.passed => run[v] \in Undecided
  /\ pc \in {"status", "signature", "serving", "incumbent", "serve", "pass", "name run"} =>
       run[v] \in Undecided
  /\ pc \in {"status", "signature", "serving", "incumbent", "serve", "pass",
             "reject run", "reject status", "reject serving"} => tags[v].serving # "passed"
  /\ pc \in {"signature", "serving", "incumbent", "serve", "pass", "reject run", "reject status"} =>
       tags[v].status = "candidate"
  /\ pc \in {"serving", "incumbent", "serve", "pass"} => tags[v].signature = "passed"
  /\ pc \in {"reject status", "reject serving"} => run[v] = "rejected"
  /\ pc \in {"name run", "alias"} => Promotable(v)
  /\ pc = "alias" => run[v] = "candidate"
  /\ pc \in {"pass", "name run", "alias"} => v \in served

Fresh ==
  \A u \in Versions :
    outcome[u] = "none" /\ u # attempt.version => tags[u] = Untagged /\ run[u] = "none"

ServedFirst == \A u \in Versions : tags[u].serving = "passed" => u \in served

Inv == TypeInv /\ Progress /\ Fresh /\ ServedFirst /\ RunAgreesWithVersion

LEMMA InvInit == TrainingInit => Inv
<1> SUFFICES ASSUME TrainingInit PROVE Inv
  OBVIOUS
<1>1. TypeInv
  BY TypeInvInit
<1>2. Progress /\ Fresh /\ ServedFirst
  BY DEF TrainingInit, Progress, Fresh, ServedFirst, Untagged
<1>3. RunAgreesWithVersion
  BY DEF TrainingInit, RunAgreesWithVersion, Promotable, Served, Untagged
<1> QED
  BY <1>1, <1>2, <1>3 DEF Inv

\* Who has left an attempt needs no more than that the other versions are as they were.
LEMMA LeftKeeps ==
  ASSUME Inv, Left, \A u \in Versions : u # attempt.version => tags'[u] = tags[u] /\ run'[u] = run[u]
  PROVE  Progress' /\ Fresh'
<1>1. Progress'
  BY DEF Left, Progress
<1>2. ASSUME NEW u \in Versions, outcome'[u] = "none", u # attempt'.version
      PROVE  tags'[u] = Untagged /\ run'[u] = "none"
  <2>1. u # attempt.version /\ outcome[u] = "none"
    BY <1>2 DEF Inv, TypeInv, AttemptType, Left
  <2> QED
    BY <2>1 DEF Inv, Fresh
<1> QED
  BY <1>1, <1>2 DEF Fresh

\* A step that writes nothing to MLflow.
LEMMA QuietKeeps ==
  ASSUME Inv, UNCHANGED mlflow
  PROVE  ServedFirst' /\ RunAgreesWithVersion'
BY DEF Inv, mlflow, ServedFirst, RunAgreesWithVersion, Promotable, Served

LEMMA QuietFresh ==
  ASSUME Inv, UNCHANGED <<mlflow, outcome>>, attempt'.version = attempt.version
  PROVE  Fresh'
BY DEF Inv, mlflow, Fresh

LEMMA InvNext == Inv /\ TrainingNext => Progress' /\ Fresh' /\ ServedFirst' /\ RunAgreesWithVersion'
<1> SUFFICES ASSUME Inv, TrainingNext
             PROVE  Progress' /\ Fresh' /\ ServedFirst' /\ RunAgreesWithVersion'
  OBVIOUS
<1> DEFINE v == attempt.version
<1>t. TypeInv /\ TypeInv'
  BY TypeInvNext DEF Inv
<1>v. pc # "idle" => v \in Versions
  BY <1>t DEF TypeInv, AttemptType
<1>g. \A u \in Versions : tags[u] \in Tags
  BY <1>t DEF TypeInv, StoreType
\* The steps that write nothing.
<1>q. ASSUME Left, UNCHANGED mlflow
      PROVE  Progress' /\ Fresh' /\ ServedFirst' /\ RunAgreesWithVersion'
  BY <1>q, LeftKeeps, QuietKeeps DEF mlflow
<1>o. ASSUME On, UNCHANGED mlflow, Progress'
      PROVE  Progress' /\ Fresh' /\ ServedFirst' /\ RunAgreesWithVersion'
  BY <1>o, <1>t, OnType, QuietFresh, QuietKeeps DEF On
<1>1. ASSUME NEW u \in Versions, NEW controlled \in BOOLEAN, NEW policy \in Policies,
             Begin(u, controlled, policy)
      PROVE  Progress' /\ Fresh' /\ ServedFirst' /\ RunAgreesWithVersion'
  <2>1. UNCHANGED mlflow /\ outcome' = outcome /\ attempt'.version = u /\ pc' \in {"resolve", "predict"}
    BY <1>1 DEF Begin, NoAttempt
  <2>2. tags[u] = Untagged /\ run[u] = "none" /\ v = None
    BY <1>1, <1>t, VersionsAssumption DEF Begin, Inv, Fresh, TypeInv, AttemptType
  <2>3. Progress'
    BY <2>1, <2>2 DEF Progress, mlflow
  <2>4. Fresh'
    BY <2>1, <2>2, VersionsAssumption DEF Inv, Fresh, mlflow
  <2> QED
    BY <2>1, <2>3, <2>4, QuietKeeps
<1>2. ASSUME UNCHANGED mlflow, On,
             pc \in {"resolve", "load", "predict", "gate", "save", "report"},
             pc' \in {"load", "predict", "gate", "save", "report", "open"}
      PROVE  Progress' /\ Fresh' /\ ServedFirst' /\ RunAgreesWithVersion'
  <2>1. attempt'.version = v
    BY <1>2, <1>t, OnType
  <2>2. Progress'
    BY <1>2, <2>1 DEF Inv, Progress, mlflow
  <2> QED
    BY <1>2, <1>o, <2>2
<1>3. CASE ResolveIncumbent \/ LoadIncumbent \/ Select \/ Gate \/ SaveReport
  <2>1. On
    BY <1>3, <1>t, NextMoves DEF Begins, Begin, Moves, MoveProduction, Left, ResolveIncumbent,
       LoadIncumbent, Select, Gate, SaveReport, Step
  <2> QED
    BY <1>2, <1>3, <2>1 DEF ResolveIncumbent, LoadIncumbent, Select, Gate, SaveReport, Step
<1>4. CASE SaveModels
  <2>1. CASE pc' = "report" /\ UNCHANGED <<attempt, outcome>>
    BY <1>2, <1>4, <1>t, <2>1, KeepsOn DEF SaveModels, Steps
  <2> QED
    BY <1>4, <1>q, <2>1, RaiseLeaves DEF SaveModels
<1>5. CASE Untracked \/ LogRejected \/ CallFails \/ RecordFailure \/ Kill
  <2>1. UNCHANGED mlflow /\ Left
    BY <1>5, RaiseLeaves
       DEF Untracked, LogRejected, CallFails, RecordFailure, Kill, End, Left, Steps
  <2> QED
    BY <1>q, <2>1
\* One tag of the run is written.
<1>r. ASSUME v \in Versions, NEW value, run' = [run EXCEPT ![v] = value],
             UNCHANGED <<tags, candidate, served>>,
             v # candidate \/ value = run[v],
             value = "rejected" => ~ Promotable(v), value = "candidate" => Promotable(v)
      PROVE  /\ ServedFirst' /\ RunAgreesWithVersion'
             /\ \A u \in Versions : u # v => tags'[u] = tags[u] /\ run'[u] = run[u]
             /\ run'[v] = value
  <2>1. run'[v] = value /\ \A u \in Versions : u # v => run'[u] = run[u]
    BY <1>r, <1>t DEF TypeInv, StoreType
  <2>2. ServedFirst'
    BY <1>r DEF Inv, ServedFirst
  <2>3. \A u \in Versions : Promotable(u)' = Promotable(u)
    BY <1>r DEF Promotable, Served
  <2>4. candidate \in Versions \cup {None}
    BY <1>t DEF TypeInv, StoreType
  <2>5. RunAgreesWithVersion'
    BY <1>r, <2>1, <2>3, <2>4 DEF Inv, RunAgreesWithVersion
  <2> QED
    BY <1>r, <2>1, <2>2, <2>5
\* The alias names another version than the one at work, whose run is not a candidate yet.
<1>c. ASSUME pc # "idle", run[v] # "candidate" PROVE v # candidate
  BY <1>c, <1>v, VersionsAssumption DEF Inv, RunAgreesWithVersion
<1>6. CASE OpenRun \/ Judge
  <2>1. PICK value \in Undecided \cup {"rejected"} :
          /\ attempt.passed => value \in Undecided
          /\ pc \in {"open", "judge"} /\ pc' \in {"judge", "sign"}
          /\ run' = [run EXCEPT ![v] = value]
          /\ UNCHANGED <<attempt, tags, outcome, candidate, served>>
    BY <1>6, <1>t DEF OpenRun, Judge, TagRun, Step, Undecided, Inv, Progress
  <2>2. tags[v] = Untagged /\ v \in Versions
    BY <1>v, <2>1 DEF Inv, Progress
  <2>3. ~ Promotable(v)
    BY <2>2 DEF Promotable, Served, Untagged
  <2>4. v # candidate
    BY <1>c, <2>1, <2>2, <2>3 DEF Inv, RunAgreesWithVersion
  <2>5. /\ ServedFirst' /\ RunAgreesWithVersion' /\ run'[v] = value
        /\ \A u \in Versions : u # v => tags'[u] = tags[u] /\ run'[u] = run[u]
    BY <1>r, <2>1, <2>2, <2>3, <2>4 DEF Undecided
  <2>6. Progress'
    BY <2>1, <2>2, <2>5 DEF Progress
  <2>7. Fresh'
    BY <2>1, <2>5 DEF Inv, Fresh
  <2> QED
    BY <2>5, <2>6, <2>7
<1>7. CASE Sign
  <2>1. CASE pc = "sign" /\ pc' = "log" /\ UNCHANGED <<mlflow, attempt, outcome>>
    <3>1. On
      BY <1>t, <2>1, KeepsOn DEF Steps
    <3>2. Progress'
      BY <2>1 DEF Inv, Progress, mlflow
    <3> QED
      BY <1>o, <2>1, <3>1, <3>2
  <2>2. CASE pc = "sign" /\ Raise /\ run' = [run EXCEPT ![v] = "rejected"] /\ UNCHANGED <<tags, candidate, served>>
    <3>1. tags[v] = Untagged /\ v \in Versions /\ Left
      BY <1>v, <2>2, RaiseLeaves DEF Inv, Progress
    <3>2. ~ Promotable(v)
      BY <3>1 DEF Promotable, Served, Untagged
    <3>3. v # candidate
      BY <1>c, <2>2, <3>1, <3>2 DEF Inv, RunAgreesWithVersion
    <3> QED
      BY <1>r, <2>2, <3>1, <3>2, <3>3, LeftKeeps
  <2> QED
    BY <1>7, <2>1, <2>2 DEF Sign, Step
<1>8. CASE Register
  <2>1. /\ pc = "log" /\ pc' = "status" /\ attempt.passed /\ UNCHANGED <<mlflow, attempt, outcome>>
    BY <1>8 DEF Register, Registers, Step
  <2>2. On
    BY <1>t, <2>1, KeepsOn DEF Steps
  <2>3. Progress'
    BY <2>1 DEF Inv, Progress, mlflow, Untagged
  <2> QED
    BY <1>o, <2>1, <2>2, <2>3
\* One tag of the version is written, which does not make it promotable.
<1>w. ASSUME v \in Versions, NEW new \in Tags, tags' = [tags EXCEPT ![v] = new],
             UNCHANGED <<run, candidate, served>>,
             new.serving # "passed", ~ Promotable(v)
      PROVE  /\ ServedFirst' /\ RunAgreesWithVersion' /\ tags'[v] = new
             /\ \A u \in Versions : u # v => tags'[u] = tags[u] /\ run'[u] = run[u]
  <2>1. tags'[v] = new /\ \A u \in Versions : u # v => tags'[u] = tags[u]
    BY <1>w, <1>t DEF TypeInv, StoreType
  <2>2. ServedFirst'
    BY <1>w, <2>1 DEF Inv, ServedFirst
  <2>3. \A u \in Versions : Promotable(u)' = Promotable(u)
    BY <1>w, <2>1 DEF Promotable, Served
  <2>4. RunAgreesWithVersion'
    BY <1>w, <2>3 DEF Inv, RunAgreesWithVersion
  <2> QED
    BY <1>w, <2>1, <2>2, <2>4
<1>9. CASE TagNewVersion
  <2>1. /\ pc \in {"status", "signature", "serving", "incumbent"} /\ v \in Versions
        /\ UNCHANGED <<attempt, run, outcome, candidate, served>>
        /\ tags[v].serving # "passed" /\ run[v] \in Undecided
    BY <1>9, <1>v DEF TagNewVersion, TagVersion, Step, Inv, Progress
  <2>2. PICK new \in Tags :
          /\ tags' = [tags EXCEPT ![v] = new] /\ new.serving # "passed"
          /\ \/ pc = "status" /\ pc' = "signature" /\ new.status = "candidate"
             \/ pc = "signature" /\ pc' = "serving" /\ new.signature = "passed" /\ new.status = tags[v].status
             \/ /\ pc \in {"serving", "incumbent"} /\ pc' \in {"incumbent", "serve"}
                /\ new.signature = tags[v].signature /\ new.status = tags[v].status
    <3>1. CASE TagVersion("status", "signature", "status", "candidate")
      <4>1. [tags[v] EXCEPT !.status = "candidate"] \in Tags
        BY <1>g, <1>t, <2>1 DEF Tags, TypeInv, AttemptType
      <4> QED
        BY <1>g, <2>1, <3>1, <4>1 DEF TagVersion, Step, Tags
    <3>2. CASE TagVersion("signature", "serving", "signature", "passed")
      <4>1. [tags[v] EXCEPT !.signature = "passed"] \in Tags
        BY <1>g, <1>t, <2>1 DEF Tags, TypeInv, AttemptType
      <4> QED
        BY <1>g, <2>1, <3>2, <4>1 DEF TagVersion, Step, Tags
    <3>3. CASE TagVersion("serving", "incumbent", "serving", "pending")
      <4>1. [tags[v] EXCEPT !.serving = "pending"] \in Tags
        BY <1>g, <1>t, <2>1 DEF Tags, TypeInv, AttemptType
      <4> QED
        BY <1>g, <2>1, <3>3, <4>1 DEF TagVersion, Step, Tags
    <3>4. CASE TagVersion("incumbent", "serve", "incumbent", attempt.incumbent)
      <4>1. [tags[v] EXCEPT !.incumbent = attempt.incumbent] \in Tags
        BY <1>g, <1>t, <2>1 DEF Tags, TypeInv, AttemptType
      <4> QED
        BY <1>g, <2>1, <3>4, <4>1 DEF TagVersion, Step, Tags
    <3> QED
      BY <1>9, <3>1, <3>2, <3>3, <3>4 DEF TagNewVersion, NewTags
  <2>3. ~ Promotable(v)
    BY <2>1 DEF Promotable, Served
  <2>4. /\ ServedFirst' /\ RunAgreesWithVersion' /\ tags'[v] = new
        /\ \A u \in Versions : u # v => tags'[u] = tags[u] /\ run'[u] = run[u]
    BY <1>w, <2>1, <2>2, <2>3
  <2>5. Progress'
    BY <2>1, <2>2, <2>4 DEF Inv, Progress
  <2>6. Fresh'
    BY <2>1, <2>4 DEF Inv, Fresh
  <2> QED
    BY <2>4, <2>5, <2>6
<1>10. CASE Serve
  <2>1. /\ pc = "serve" /\ pc' \in {"pass", "reject run"} /\ v \in Versions
        /\ UNCHANGED <<attempt, tags, run, outcome, candidate>>
        /\ pc' = "pass" => v \in served'
        /\ served \subseteq served'
    BY <1>10, <1>v DEF Serve, Step
  <2>2. Progress' /\ Fresh'
    BY <2>1 DEF Inv, Progress, Fresh
  <2>3. ServedFirst' /\ RunAgreesWithVersion'
    BY <2>1 DEF Inv, ServedFirst, RunAgreesWithVersion, Promotable, Served
  <2> QED
    BY <2>2, <2>3
<1>11. CASE Reject
  <2>0. pc \in {"reject run", "reject status", "reject serving"} /\ v \in Versions
    BY <1>11, <1>v DEF Reject, TagRun, TagVersion, Step
  <2>1. tags[v].serving # "passed" /\ ~ Promotable(v)
    BY <2>0 DEF Inv, Progress, Promotable, Served
  <2>2. CASE TagRun("reject run", "reject status", "rejected")
    <3>1. /\ pc = "reject run" /\ pc' = "reject status" /\ run' = [run EXCEPT ![v] = "rejected"]
          /\ UNCHANGED <<attempt, tags, outcome, candidate, served>>
      BY <2>2 DEF TagRun, Step
    <3>2. v # candidate
      BY <1>c, <2>0, <2>1 DEF Inv, RunAgreesWithVersion
    <3>3. /\ ServedFirst' /\ RunAgreesWithVersion' /\ run'[v] = "rejected"
          /\ \A u \in Versions : u # v => tags'[u] = tags[u] /\ run'[u] = run[u]
      BY <1>r, <2>0, <2>1, <3>1, <3>2
    <3>4. Progress' /\ Fresh'
      BY <3>1, <3>3 DEF Inv, Progress, Fresh
    <3> QED
      BY <3>3, <3>4
  <2>3. CASE TagVersion("reject status", "reject serving", "status", "rejected")
    <3> DEFINE new == [tags[v] EXCEPT !.status = "rejected"]
    <3>1. /\ pc = "reject status" /\ pc' = "reject serving" /\ tags' = [tags EXCEPT ![v] = new]
          /\ UNCHANGED <<attempt, run, outcome, candidate, served>>
      BY <2>3 DEF TagVersion, Step
    <3>2. new \in Tags /\ new.serving # "passed"
      BY <1>g, <2>0, <2>1 DEF Tags
    <3> HIDE DEF new
    <3>3. /\ ServedFirst' /\ RunAgreesWithVersion' /\ tags'[v] = new
          /\ \A u \in Versions : u # v => tags'[u] = tags[u] /\ run'[u] = run[u]
      BY <1>w, <2>0, <2>1, <3>1, <3>2
    <3>4. Progress' /\ Fresh'
      BY <3>1, <3>2, <3>3 DEF Inv, Progress, Fresh
    <3> QED
      BY <3>3, <3>4
  <2>4. CASE pc = "reject serving" /\ Raise /\ tags' = [tags EXCEPT ![v].serving = "failed"]
             /\ UNCHANGED <<run, candidate, served>>
    <3> DEFINE new == [tags[v] EXCEPT !.serving = "failed"]
    <3>1. tags' = [tags EXCEPT ![v] = new] /\ Left
      BY <2>4, RaiseLeaves
    <3>2. new \in Tags /\ new.serving # "passed"
      BY <1>g, <2>0 DEF Tags
    <3> HIDE DEF new
    <3> QED
      BY <1>w, <2>0, <2>1, <2>4, <3>1, <3>2, LeftKeeps
  <2> QED
    BY <1>11, <2>2, <2>3, <2>4 DEF Reject
<1>12. CASE Accept
  <2>0. pc \in {"pass", "name run", "alias"} /\ v \in Versions /\ v \in served
    BY <1>12, <1>v DEF Accept, TagRun, TagVersion, Step, Inv, Progress
  <2>1. CASE TagVersion("pass", "name run", "serving", "passed")
    <3>1. /\ pc = "pass" /\ pc' = "name run" /\ tags' = [tags EXCEPT ![v].serving = "passed"]
          /\ UNCHANGED <<attempt, run, outcome, candidate, served>>
      BY <2>1 DEF TagVersion, Step
    <3>2. tags[v].status = "candidate" /\ tags[v].signature = "passed" /\ run[v] \in Undecided
      BY <3>1 DEF Inv, Progress
    <3>3. /\ tags'[v].status = "candidate" /\ tags'[v].signature = "passed" /\ tags'[v].serving = "passed"
          /\ \A u \in Versions : u # v => tags'[u] = tags[u]
      <4>1. /\ tags'[v] = [tags[v] EXCEPT !.serving = "passed"]
            /\ \A u \in Versions : u # v => tags'[u] = tags[u]
        BY <1>t, <2>0, <3>1 DEF TypeInv, StoreType
      <4>2. tags[v] \in Tags
        BY <1>g, <2>0
      <4> QED
        BY <3>2, <4>1, <4>2 DEF Tags
    <3>4. Promotable(v)' /\ \A u \in Versions : u # v => Promotable(u)' = Promotable(u)
      <4>1. v' = v
        BY <3>1
      <4>2. tags'[v'].signature = "passed" /\ tags'[v'].serving = "passed" /\ tags'[v'].status # "rejected"
        BY <3>3, <4>1
      <4> QED
        BY <3>3, <4>2 DEF Promotable, Served
    <3>5. ServedFirst'
      BY <2>0, <3>1, <3>3 DEF Inv, ServedFirst
    <3>6. RunAgreesWithVersion'
      BY <3>1, <3>2, <3>4 DEF Inv, RunAgreesWithVersion, Undecided
    <3>7. Progress'
      BY <2>0, <3>1, <3>2, <3>4 DEF Progress
    <3>8. Fresh'
      BY <3>1, <3>3 DEF Inv, Fresh
    <3> QED
      BY <3>5, <3>6, <3>7, <3>8
  <2>2. CASE TagRun("name run", "alias", "candidate")
    <3>1. /\ pc = "name run" /\ pc' = "alias" /\ run' = [run EXCEPT ![v] = "candidate"]
          /\ UNCHANGED <<attempt, tags, outcome, candidate, served>>
      BY <2>2 DEF TagRun, Step
    <3>2. Promotable(v) /\ v # candidate
      BY <1>c, <3>1 DEF Inv, Progress, Undecided
    <3>3. /\ ServedFirst' /\ RunAgreesWithVersion' /\ run'[v] = "candidate"
          /\ \A u \in Versions : u # v => tags'[u] = tags[u] /\ run'[u] = run[u]
      BY <1>r, <2>0, <3>1, <3>2
    <3>4. Promotable(v)'
      BY <3>1, <3>2 DEF Promotable, Served
    <3>5. Progress' /\ Fresh'
      BY <2>0, <3>1, <3>3, <3>4 DEF Inv, Progress, Fresh
    <3> QED
      BY <3>3, <3>5
  <2>3. CASE pc = "alias" /\ End("registered") /\ candidate' = v /\ UNCHANGED <<tags, run, served>>
    <3>1. Left
      BY <2>3 DEF End, Left
    <3>2. run[v] = "candidate"
      BY <2>3 DEF Inv, Progress
    <3>3. ServedFirst' /\ RunAgreesWithVersion'
      BY <2>3, <3>2 DEF Inv, ServedFirst, RunAgreesWithVersion, Promotable, Served
    <3> QED
      BY <2>3, <3>1, <3>3, LeftKeeps
  <2> QED
    BY <1>12, <2>1, <2>2, <2>3 DEF Accept
<1>13. ASSUME NEW u \in Versions \cup {None}, MoveProduction(u)
       PROVE  Progress' /\ Fresh' /\ ServedFirst' /\ RunAgreesWithVersion'
  <2>0. UNCHANGED <<pc, attempt, run, outcome, candidate, served>>
    BY <1>13 DEF MoveProduction
  <2>1. CASE tags' = tags
    BY <2>0, <2>1 DEF Inv, Progress, Fresh, ServedFirst, RunAgreesWithVersion, Promotable, Served
  <2>2. CASE u \in Versions /\ Promotable(u) /\ tags' = [tags EXCEPT ![u].status = "production"]
    <3>1. /\ tags'[u].status = "production" /\ tags'[u].signature = tags[u].signature
          /\ tags'[u].serving = tags[u].serving
          /\ \A w \in Versions : w # u => tags'[w] = tags[w]
      BY <1>t, <1>g, <2>2 DEF TypeInv, StoreType, Tags
    <3>2. \A w \in Versions : Promotable(w)' = Promotable(w)
      BY <2>2, <3>1 DEF Promotable, Served
    <3>3. ServedFirst' /\ RunAgreesWithVersion'
      BY <2>0, <3>1, <3>2 DEF Inv, ServedFirst, RunAgreesWithVersion
    <3>4. tags[u].serving = "passed" /\ tags[u] # Untagged
      BY <2>2 DEF Promotable, Served, Untagged
    <3>5. Fresh'
      BY <2>0, <2>2, <3>1, <3>4 DEF Inv, Fresh
    <3>6. Progress'
      <4>1. CASE pc = "idle" \/ pc = "raised"
        BY <2>0, <4>1 DEF Progress
      <4>2. CASE u # v /\ v \in Versions
        BY <2>0, <3>1, <3>2, <4>2 DEF Inv, Progress
      <4>3. CASE u = v /\ pc \in Steps
        <5>1. pc \in {"name run", "alias"}
          BY <3>4, <4>3 DEF Inv, Progress, Steps
        <5> QED
          BY <2>0, <2>2, <3>2, <4>3, <5>1 DEF Inv, Progress
      <4> QED
        BY <1>t, <1>v, <4>1, <4>2, <4>3 DEF TypeInv, AttemptType
    <3> QED
      BY <3>3, <3>5, <3>6
  <2> QED
    BY <1>13, <2>1, <2>2 DEF MoveProduction
<1> QED
  BY <1>1, <1>3, <1>4, <1>5, <1>6, <1>7, <1>8, <1>9, <1>10, <1>11, <1>12, <1>13 DEF TrainingNext

LEMMA InvSteps == Inv /\ [TrainingNext]_trainingVars => Inv'
<1>1. Inv /\ UNCHANGED trainingVars => Inv'
  <2> SUFFICES ASSUME Inv, UNCHANGED trainingVars PROVE Inv'
    OBVIOUS
  <2>1. TypeInv'
    BY TypeInvNext DEF Inv
  <2>2. Progress' /\ Fresh' /\ ServedFirst' /\ RunAgreesWithVersion'
    BY DEF Inv, trainingVars, Progress, Fresh, ServedFirst, RunAgreesWithVersion, Promotable, Served
  <2> QED
    BY <2>1, <2>2 DEF Inv
<1>2. Inv /\ TrainingNext => Inv'
  BY InvNext, TypeInvNext DEF Inv
<1> QED
  BY <1>1, <1>2

(* Whatever is promotable has served the input example, however its training  *)
(* ended.                                                                     *)
THEOREM PromotableServed == TrainingSpec => []PromotableWasServed
<1>1. Inv => PromotableWasServed
  BY DEF Inv, ServedFirst, PromotableWasServed, Promotable, Served
<1> QED
  BY InvInit, InvSteps, <1>1, PTL DEF TrainingSpec

(* The run of an attempt and its registered version never contradict one      *)
(* another, between no two of the tags that are written one by one.           *)
THEOREM RunsAgree == TrainingSpec => []RunAgreesWithVersion
<1>1. Inv => RunAgreesWithVersion
  BY DEF Inv
<1> QED
  BY InvInit, InvSteps, <1>1, PTL DEF TrainingSpec

-------------------------------------------------------------------------------
(* The files in the local paths.                                              *)

Interrupted(u) == outcome[u] \in {"failed", "killed"} /\ run[u] = "none"

\* Only the plain training under way can have written last without having ended.
LocalInv ==
  /\ pc # "idle" => outcome[attempt.version] = "none"
  /\ local.last # None /\ outcome[local.last] = "none" =>
       local.last = attempt.version /\ ~ attempt.controlled
  /\ pc = "report" /\ ~ attempt.controlled => local.models = attempt.version
  /\ LocalPairWhole

\* The steps that concern the report.
LEMMA ReportSteps ==
  ASSUME TrainingNext
  PROVE  /\ pc = "report" => SaveReport \/ CallFails \/ Kill \/ Moves
         /\ pc' = "report" => SaveModels \/ Moves
         /\ local' = local \/ SaveModels \/ SaveReport
<1>1. \/ Begins \/ ResolveIncumbent \/ LoadIncumbent \/ Select \/ Gate \/ SaveModels \/ SaveReport
      \/ Untracked \/ OpenRun \/ Judge \/ Sign \/ LogRejected \/ Register \/ TagNewVersion \/ Serve
      \/ Reject \/ Accept \/ CallFails \/ RecordFailure \/ Kill \/ Moves
  BY DEF TrainingNext, Begins, Moves
<1>2. CASE Begins \/ Moves
  BY <1>2 DEF Begins, Begin, Moves, MoveProduction
<1>3. CASE ResolveIncumbent \/ LoadIncumbent \/ Select \/ Gate \/ SaveModels \/ SaveReport \/ Untracked
  BY <1>3 DEF ResolveIncumbent, LoadIncumbent, Select, Gate, SaveModels, SaveReport, Untracked, Step, End
<1>4. CASE OpenRun \/ Judge \/ Sign \/ LogRejected \/ Register \/ TagNewVersion
  BY <1>4 DEF OpenRun, Judge, Sign, LogRejected, Register, TagNewVersion, TagRun, TagVersion, Step,
     Raise, End
<1>5. CASE Serve \/ Reject \/ Accept \/ CallFails \/ RecordFailure \/ Kill
  BY <1>5 DEF Serve, Reject, Accept, CallFails, RecordFailure, Kill, TagRun, TagVersion, Step, Raise, End
<1> QED
  BY <1>1, <1>2, <1>3, <1>4, <1>5

\* The runs of the other attempts, and of all of them between attempts, are left alone.
LEMMA RunsElsewhere ==
  ASSUME TrainingNext
  PROVE  run' = run \/ \E value : pc # "idle" /\ run' = [run EXCEPT ![attempt.version] = value]
<1>1. CASE \/ Begins \/ Moves \/ ResolveIncumbent \/ LoadIncumbent \/ Select \/ Gate \/ SaveModels
           \/ SaveReport \/ Untracked \/ LogRejected \/ Register \/ CallFails \/ RecordFailure \/ Kill
  BY <1>1 DEF Begins, Begin, Moves, MoveProduction, ResolveIncumbent, LoadIncumbent, Select, Gate, SaveModels,
     SaveReport, Untracked, LogRejected, Register, CallFails, RecordFailure, Kill, mlflow
<1>2. CASE OpenRun \/ Judge \/ Sign
  BY <1>2 DEF OpenRun, Judge, Sign, TagRun, Step, mlflow
<1>3. CASE TagNewVersion \/ Serve \/ Reject \/ Accept
  BY <1>3 DEF TagNewVersion, Serve, Reject, Accept, TagRun, TagVersion, Step
<1> QED
  BY <1>1, <1>2, <1>3 DEF TrainingNext, Begins, Moves

LEMMA InterruptedStays ==
  ASSUME Inv, LocalInv, TrainingNext, NEW u \in Versions, Interrupted(u)
  PROVE  Interrupted(u)'
<1>1. outcome[u] \in {"failed", "killed"} /\ run[u] = "none"
  BY DEF Interrupted
<1>2. pc # "idle" => u # attempt.version
  BY <1>1 DEF LocalInv
<1>3. run'[u] = "none"
  BY <1>1, <1>2, RunsElsewhere DEF Inv, TypeInv, StoreType
<1>4. Begins \/ Moves \/ Left \/ On
  BY NextMoves DEF Inv
<1>5. outcome'[u] = outcome[u]
  BY <1>2, <1>4 DEF Begins, Begin, Moves, MoveProduction, Left, On, Inv, TypeInv, AttemptType
<1> QED
  BY <1>1, <1>3, <1>5 DEF Interrupted

LEMMA LocalInvNext == Inv /\ LocalInv /\ TrainingNext => LocalInv'
<1> SUFFICES ASSUME Inv, LocalInv, TrainingNext PROVE LocalInv'
  OBVIOUS
<1> DEFINE v == attempt.version
           last == local.last
<1>t. /\ pc # "idle" => v \in Versions
      /\ pc = "idle" => v = None
      /\ attempt.controlled \in BOOLEAN
      /\ outcome \in [Versions -> {"none", "registered", "rejected", "recorded", "untracked", "failed", "killed"}]
      /\ local = [models |-> local.models, report |-> local.report, last |-> local.last]
      /\ last # None => last \in Versions
  BY DEF Inv, TypeInv, AttemptType, StoreType
<1>w. last # None => \/ local.models = last /\ local.report = last
                     \/ pc = "report" /\ v = last
                     \/ Interrupted(last)
  BY DEF LocalInv, LocalPairWhole, Interrupted
<1>i. local' = local /\ (pc = "report" => v # last) => LocalPairWhole'
  <2> SUFFICES ASSUME local' = local, pc = "report" => v # last, last # None
               PROVE  LocalPairWhole'
    BY DEF LocalPairWhole
  <2>1. CASE local.models = last /\ local.report = last
    BY <2>1 DEF LocalPairWhole
  <2>2. CASE Interrupted(last)
    <3>1. Interrupted(last)'
      BY <1>t, <2>2, InterruptedStays
    <3> QED
      BY <3>1 DEF Interrupted, LocalPairWhole
  <2> QED
    BY <1>w, <2>1, <2>2
<1>1. CASE Begins
  <2>1. PICK u \in Versions, controlled \in BOOLEAN, policy \in Policies : Begin(u, controlled, policy)
    BY <1>1 DEF Begins
  <2>2. /\ pc = "idle" /\ outcome[u] = "none" /\ UNCHANGED <<outcome, local>>
        /\ attempt'.version = u /\ pc' # "report"
    BY <2>1 DEF Begin, NoAttempt
  <2>3. last # None => outcome[last] # "none"
    BY <1>t, <2>2 DEF LocalInv
  <2>4. LocalPairWhole'
    BY <1>i, <2>2
  <2> QED
    BY <2>2, <2>3, <2>4 DEF LocalInv
<1>2. CASE Moves
  <2>1. UNCHANGED <<pc, attempt, outcome, local, run>>
    BY <1>2 DEF Moves, MoveProduction
  <2> QED
    BY <2>1 DEF LocalInv, LocalPairWhole
<1>3. CASE SaveModels
  <2>0. pc = "save" /\ v \in Versions /\ run[v] = "none" /\ outcome[v] = "none" /\ run' = run
    BY <1>3, <1>t DEF SaveModels, mlflow, Inv, Progress, LocalInv
  <2>1. CASE attempt.controlled
    <3>1. local' = local /\ UNCHANGED <<attempt, outcome>> /\ pc' \in {"report", "raised"}
      BY <1>3, <2>1 DEF SaveModels, Overwrite, OwnPaths, Raise
    <3>2. LocalPairWhole'
      BY <1>i, <2>0, <3>1
    <3> QED
      BY <2>0, <2>1, <3>1, <3>2 DEF LocalInv
  <2>2. CASE ~ attempt.controlled /\ Overwrite("models", v) /\ pc' = "report" /\ UNCHANGED <<attempt, outcome>>
    <3>1. local'.models = v /\ local'.last = v
      BY <1>t, <2>2 DEF Overwrite, OwnPaths
    <3>2. LocalPairWhole'
      BY <2>2, <3>1 DEF LocalPairWhole
    <3> QED
      BY <2>0, <2>2, <3>1, <3>2 DEF LocalInv
  <2>3. CASE ~ attempt.controlled /\ Overwrite("models", None) /\ Raise
    <3>1. local'.last = v
      BY <1>t, <2>3 DEF Overwrite, OwnPaths
    <3>2. pc' = "idle" /\ outcome'[v] = "failed"
      BY <1>t, <2>0, <2>3 DEF Raise, End
    <3>3. LocalPairWhole'
      BY <2>0, <3>1, <3>2 DEF LocalPairWhole
    <3> QED
      BY <3>1, <3>2, <3>3 DEF LocalInv
  <2> QED
    BY <1>3, <2>1, <2>2, <2>3 DEF SaveModels
<1>4. CASE SaveReport
  <2>0. /\ pc = "report" /\ pc' = "open" /\ UNCHANGED <<attempt, outcome>> /\ Overwrite("report", v)
        /\ v \in Versions /\ outcome[v] = "none"
    BY <1>4, <1>t DEF SaveReport, Step, LocalInv
  <2>1. CASE attempt.controlled
    <3>1. local' = local /\ v # last
      BY <2>0, <2>1, VersionsAssumption DEF Overwrite, OwnPaths, LocalInv
    <3>2. LocalPairWhole'
      BY <1>i, <3>1
    <3> QED
      BY <2>0, <3>1, <3>2 DEF LocalInv
  <2>2. CASE ~ attempt.controlled
    <3>1. local'.models = v /\ local'.report = v /\ local'.last = v
      BY <1>t, <2>0, <2>2 DEF Overwrite, OwnPaths, LocalInv
    <3>2. LocalPairWhole'
      BY <3>1 DEF LocalPairWhole
    <3> QED
      BY <2>0, <2>2, <3>1, <3>2 DEF LocalInv
  <2> QED
    BY <2>1, <2>2
<1>5. CASE pc = "report" /\ (CallFails \/ Kill)
  <2>0. v \in Versions /\ run[v] = "none" /\ outcome[v] = "none" /\ UNCHANGED <<run, local>>
    BY <1>5, <1>t DEF CallFails, Kill, mlflow, Inv, Progress, LocalInv
  <2>1. CASE pc' = "raised" /\ attempt.controlled /\ UNCHANGED <<attempt, outcome>>
    <3>1. v # last
      BY <2>0, <2>1, VersionsAssumption DEF LocalInv
    <3>2. LocalPairWhole'
      BY <1>i, <2>0, <3>1
    <3> QED
      BY <2>0, <2>1, <3>2 DEF LocalInv
  <2>2. CASE pc' = "idle" /\ outcome'[v] \in {"failed", "killed"}
             /\ \A u \in Versions : u # v => outcome'[u] = outcome[u]
    <3>1. LocalPairWhole'
      <4>1. CASE v = last
        BY <2>0, <2>2, <4>1 DEF LocalPairWhole
      <4>2. CASE v # last
        BY <1>i, <2>0, <4>2
      <4> QED
        BY <4>1, <4>2
    <3>2. local'.last # None => outcome'[local'.last] # "none"
      BY <1>t, <2>0, <2>2 DEF LocalInv
    <3> QED
      BY <2>2, <3>1, <3>2 DEF LocalInv
  <2> QED
    BY <1>5, <1>t, <2>0, <2>1, <2>2 DEF CallFails, Kill, Raise, End
<1>6. CASE pc # "report" /\ pc' # "report" /\ local' = local /\ (Left \/ On)
  <2>1. LocalPairWhole'
    BY <1>i, <1>6
  <2>2. CASE UNCHANGED <<attempt, outcome>>
    BY <1>6, <2>1, <2>2 DEF LocalInv, Left, On, Steps
  <2>3. CASE Left /\ pc' = "idle"
    <3>1. PICK result \in {"registered", "rejected", "recorded", "untracked", "failed", "killed"} :
            outcome' = [outcome EXCEPT ![v] = result]
      BY <2>3 DEF Left
    <3>2. v \in Versions
      BY <1>t, <2>3 DEF Left
    <3>3. local'.last # None => outcome'[local'.last] # "none"
      BY <1>6, <1>t, <3>1, <3>2 DEF LocalInv
    <3> QED
      BY <1>6, <2>1, <2>3, <3>3 DEF LocalInv
  <2>4. CASE On
    <3>1. pc # "idle" /\ outcome' = outcome /\ attempt'.version = v /\ attempt'.controlled = attempt.controlled
      BY <2>4 DEF On, Inv, TypeInv, AttemptType
    <3> QED
      BY <1>6, <2>1, <3>1 DEF LocalInv
  <2> QED
    BY <1>6, <2>2, <2>3, <2>4 DEF Left
<1> QED
  <2>1. Begins \/ Moves \/ Left \/ On
    BY NextMoves DEF Inv
  <2> QED
    BY <1>1, <1>2, <1>3, <1>4, <1>5, <1>6, <2>1, ReportSteps

(* The models and the report in the local paths are those of the training     *)
(* that wrote there last, unless that one is, or ended, between               *)
(* _save_artifacts and the evaluation report.                                 *)
THEOREM LocalPairsWhole == TrainingSpec => []LocalPairWhole
<1>1. TrainingInit => LocalInv
  BY VersionsAssumption DEF TrainingInit, LocalInv, LocalPairWhole
<1>2. Inv /\ LocalInv /\ [TrainingNext]_trainingVars => LocalInv'
  <2>1. LocalInv /\ UNCHANGED trainingVars => LocalInv'
    BY DEF trainingVars, LocalInv, LocalPairWhole
  <2> QED
    BY <2>1, LocalInvNext
<1>3. LocalInv => LocalPairWhole
  BY DEF LocalInv
<1> QED
  BY InvInit, InvSteps, <1>1, <1>2, <1>3, PTL DEF TrainingSpec

-------------------------------------------------------------------------------
(* The quality gate.                                                          *)

BeforeGate == {"resolve", "load", "predict", "gate"}

Registering == {"status", "signature", "serving", "incumbent", "serve", "reject run", "reject status",
                "reject serving", "pass", "name run", "alias"}

\* The policy asks for less recall than the configuration does.
Lenient == Less(attempt.policy.validation["recall"], Config.minimum)

\* What the gate has to know of a diagnostic choice, and what its verdict means later.
GateInv ==
  /\ attempt.controlled => attempt.policy \in Policies
  /\ pc \in {"resolve", "load", "gate"} => attempt.controlled
  /\ ~ attempt.controlled => ~ attempt.diagnostic
  /\ pc \in {"resolve", "load", "predict"} => ~ attempt.diagnostic
  /\ pc = "gate" => /\ attempt.choice \in Evaluations
                    /\ attempt.diagnostic => Less(Metric("recall", attempt.choice), Config.minimum)
  /\ attempt.version \in Registered \/ pc \in Registering => attempt.passed
  /\ attempt.version \in Registered \/ pc \in Steps \ BeforeGate =>
       (attempt.diagnostic /\ attempt.passed => Lenient)

\* What training sees of the choice: its recall, and whether it is diagnostic.
LEMMA SelectionsKnown ==
  ASSUME NEW choice \in Selections
  PROVE  /\ choice.evaluation \in Evaluations /\ choice.diagnostic \in BOOLEAN
         /\ choice.diagnostic => Less(Metric("recall", choice.evaluation), Config.minimum)
<1>1. PICK seen \in Drawn : choice = Candidate(seen, Config)
  BY DEF Selections
<1>2. PICK models \in Samples : \E kept \in Keep(DOMAIN models[1]) :
        seen = [i \in DOMAIN models |-> [row \in kept |-> models[i][row]]]
  BY <1>1 DEF Drawn
<1>3. PICK kept \in Keep(DOMAIN models[1]) :
        seen = [i \in DOMAIN models |-> [row \in kept |-> models[i][row]]]
  BY <1>2
<1>4. DOMAIN models = 1..3 /\ IsFiniteSet(DOMAIN models[1]) /\ kept \subseteq DOMAIN models[1]
  BY SamplesAssumption
<1>5. IsFiniteSet(kept)
  BY <1>4, FS_Subset
<1>6. PICK k \in Nat \ {0} : k = 3
  OBVIOUS
<1>7. DOMAIN seen = 1..k /\ \A i \in 1..k : DOMAIN seen[i] = kept
  BY <1>3, <1>4, <1>6
<1>8. \A i \in 1..k : IsFiniteSet(DOMAIN seen[i])
  BY <1>5, <1>7
<1>9. /\ Candidate(seen, Config).evaluation \in Evaluations
      /\ Candidate(seen, Config).diagnostic <=>
           Less(Metric("recall", Candidate(seen, Config).evaluation), Config.minimum)
  BY <1>7, <1>8, ConfigAssumption, CandidateKnown
<1> QED
  BY <1>1, <1>9, CandidateShape

\* A gate that passes a choice below the configured recall has a lower limit.
LEMMA GatePasses ==
  ASSUME NEW choice \in Evaluations, NEW policy \in Policies, NEW test, NEW incumbent,
         FailedChecks([m \in HigherBetter |-> Metric(m, choice)], test, incumbent, policy) = {},
         Less(Metric("recall", choice), Config.minimum)
  PROVE  Less(policy.validation["recall"], Config.minimum)
<1> DEFINE validation == [m \in HigherBetter |-> Metric(m, choice)]
           low == {m \in HigherBetter : Less(validation[m], policy.validation[m])}
<1>1. {<<"validation", m>> : m \in low} = {}
  BY DEF FailedChecks
<1>2. "recall" \in HigherBetter
  BY DEF HigherBetter
<1>3. ~ Less(Metric("recall", choice), policy.validation["recall"])
  <2>1. "recall" \notin low
    <3> HIDE DEF low
    <3> QED
      BY <1>1
  <2> QED
    BY <1>2, <2>1
<1>4. Metric("recall", choice) \in Ratios
  BY MetricType DEF Metrics
<1>5. policy.validation["recall"] \in Ratios /\ Config.minimum \in Ratios
  BY <1>2, PoliciesAssumption, ConfigAssumption DEF Configurations
<1> QED
  BY <1>3, <1>4, <1>5, LessOrder

\* A version gets its first tag when the gate has passed it.
LEMMA RegisteredFirst ==
  ASSUME Inv, TrainingNext
  PROVE  \A u \in Versions :
           u \in Registered' => u \in Registered \/ (u = attempt.version /\ pc \in Registering)
<1>1. CASE tags' = tags
  BY <1>1 DEF Registered
<1>2. CASE Moves
  <2>1. PICK u \in Versions \cup {None} : MoveProduction(u)
    BY <1>2 DEF Moves
  <2>2. CASE u \in Versions /\ Promotable(u) /\ tags' = [tags EXCEPT ![u].status = "production"]
    <3>1. tags[u] # Untagged
      BY <2>2 DEF Promotable, Served, Untagged
    <3> QED
      BY <2>2, <3>1 DEF Registered, Inv, TypeInv, StoreType
  <2> QED
    BY <1>1, <2>1, <2>2 DEF MoveProduction
<1>3. CASE TagNewVersion \/ Reject \/ Accept
  <2>1. pc \in Registering
    BY <1>3 DEF TagNewVersion, Reject, Accept, TagRun, TagVersion, Step, Registering
  <2>2. \A u \in Versions : u # attempt.version => tags'[u] = tags[u]
    BY <1>3 DEF TagNewVersion, Reject, Accept, TagRun, TagVersion, Step, Inv, TypeInv, StoreType
  <2> QED
    BY <2>1, <2>2 DEF Registered
<1>4. tags' = tags \/ TagNewVersion \/ Reject \/ Accept \/ Moves
  BY DEF mlflow, TrainingNext, Begin, ResolveIncumbent, LoadIncumbent, Select, Gate,
     SaveModels, SaveReport, Untracked, OpenRun, Judge, Sign, TagRun, LogRejected, Register, Serve, CallFails,
     RecordFailure, Kill, Moves
<1> QED
  BY <1>1, <1>2, <1>3, <1>4

\* After the gate the attempt is what the gate made it.
LEMMA LaterSteps ==
  ASSUME TrainingNext, On,
         ~ (ResolveIncumbent \/ LoadIncumbent \/ Select \/ Gate \/ Begins \/ Moves)
  PROVE  /\ attempt' = attempt /\ pc \notin BeforeGate /\ pc' \in Steps \ BeforeGate
         /\ pc' \in Registering => pc \in Registering \/ attempt.passed
<1>1. CASE SaveModels \/ SaveReport \/ OpenRun \/ Judge \/ Sign \/ Register
  BY <1>1 DEF SaveModels, SaveReport, OpenRun, Judge, Sign, Register, Registers, TagRun, Step, Raise, End, On,
     Steps, BeforeGate, Registering
<1>2. CASE TagNewVersion \/ Serve \/ Reject \/ Accept
  BY <1>2 DEF TagNewVersion, Serve, Reject, Accept, TagRun, TagVersion, Step, Raise, End, On,
     Steps, BeforeGate, Registering
<1>3. CASE Untracked \/ LogRejected \/ CallFails \/ RecordFailure \/ Kill
  BY <1>3 DEF Untracked, LogRejected, CallFails, RecordFailure, Kill, Raise, End, On, Steps
<1> QED
  BY <1>1, <1>2, <1>3 DEF TrainingNext, Begins, Moves

LEMMA GateInvNext == Inv /\ GateInv /\ TrainingNext => GateInv'
<1> SUFFICES ASSUME Inv, GateInv, TrainingNext PROVE GateInv'
  OBVIOUS
<1> DEFINE v == attempt.version
<1>t. /\ pc # "idle" => v \in Versions
      /\ attempt.controlled \in BOOLEAN /\ attempt.diagnostic \in BOOLEAN /\ attempt.passed \in BOOLEAN
      /\ attempt = [version |-> attempt.version, controlled |-> attempt.controlled,
                    policy |-> attempt.policy, incumbent |-> attempt.incumbent,
                    choice |-> attempt.choice, diagnostic |-> attempt.diagnostic, passed |-> attempt.passed]
  BY DEF Inv, TypeInv, AttemptType
<1>n. None \notin Registered /\ None \notin Registered'
  BY VersionsAssumption DEF Registered
\* Before the gate nothing is registered of the attempt.
<1>b. pc \in BeforeGate => v \notin Registered
  BY DEF Inv, Progress, BeforeGate, Registered
<1>1. CASE Begins
  <2>1. PICK u \in Versions, controlled \in BOOLEAN, policy \in Policies : Begin(u, controlled, policy)
    BY <1>1 DEF Begins
  <2>2. /\ pc' = IF controlled THEN "resolve" ELSE "predict"
        /\ attempt' = [version |-> u, controlled |-> controlled,
                       policy |-> IF controlled THEN policy ELSE None, incumbent |-> None,
                       choice |-> None, diagnostic |-> FALSE, passed |-> TRUE]
        /\ tags' = tags /\ outcome[u] = "none" /\ pc = "idle"
    BY <2>1 DEF Begin, NoAttempt, mlflow
  <2>3. u \notin Registered'
    BY <2>2, VersionsAssumption DEF Inv, TypeInv, AttemptType, Fresh, Registered
  <2> QED
    BY <2>2, <2>3 DEF GateInv, Lenient, BeforeGate, Registering
<1>2. CASE Moves
  <2>1. UNCHANGED <<pc, attempt>>
    BY <1>2 DEF Moves, MoveProduction
  <2>2. v \in Registered' => v \in Registered \/ pc \in Registering
    BY <1>n, RegisteredFirst DEF Registered
  <2>3. pc \in Registering => pc \in Steps \ BeforeGate
    BY DEF Registering, Steps, BeforeGate
  <2> QED
    BY <2>1, <2>2, <2>3 DEF GateInv, Lenient
<1>3. CASE Left /\ pc' = "idle" /\ attempt' = NoAttempt
  BY <1>3, <1>n DEF GateInv, NoAttempt, Registering, Steps, BeforeGate
<1>4. CASE Left /\ pc' = "raised" /\ attempt' = attempt
  <2>1. v \in Registered' => v \in Registered \/ pc \in Registering
    BY <1>n, RegisteredFirst DEF Registered
  <2>2. pc \in Registering => pc \in Steps \ BeforeGate
    BY DEF Registering, Steps, BeforeGate
  <2> QED
    BY <1>4, <2>1, <2>2 DEF GateInv, Lenient, Registering, Steps, BeforeGate
<1>5. CASE ResolveIncumbent \/ LoadIncumbent
  <2>1. /\ \E incumbent : attempt' = [attempt EXCEPT !.incumbent = incumbent]
        /\ pc \in {"resolve", "load"} /\ pc' \in {"load", "predict"} /\ tags' = tags
        /\ pc = "load" => pc' = "predict"
    <3>1. attempt = [attempt EXCEPT !.incumbent = attempt.incumbent]
      BY <1>t
    <3> QED
      BY <1>5, <3>1 DEF ResolveIncumbent, LoadIncumbent, Step, mlflow
  <2>2. /\ attempt'.version = v /\ attempt'.controlled = attempt.controlled /\ attempt'.policy = attempt.policy
        /\ attempt'.diagnostic = attempt.diagnostic
    BY <1>t, <2>1
  <2>3. v \notin Registered'
    BY <1>b, <2>1 DEF Registered, BeforeGate
  <2> QED
    BY <2>1, <2>2, <2>3 DEF GateInv, Registering, Steps, BeforeGate
<1>6. CASE Select
  <2>0. pc = "predict" /\ tags' = tags /\ ~ attempt.diagnostic /\ v \notin Registered'
    BY <1>6, <1>b DEF Select, mlflow, GateInv, BeforeGate, Registered
  <2>1. CASE attempt.controlled
    <3>1. PICK choice \in Selections :
            /\ pc' = "gate"
            /\ attempt' = [attempt EXCEPT !.choice = choice.evaluation, !.diagnostic = choice.diagnostic]
      BY <1>6, <2>1 DEF Select
    <3>2. /\ attempt'.version = v /\ attempt'.controlled = attempt.controlled /\ attempt'.policy = attempt.policy
          /\ attempt'.choice = choice.evaluation /\ attempt'.diagnostic = choice.diagnostic
      BY <1>t, <3>1
    <3> QED
      BY <2>0, <2>1, <3>1, <3>2, SelectionsKnown DEF GateInv, Registering, Steps, BeforeGate
  <2>2. CASE ~ attempt.controlled
    <3>1. pc' = "save" /\ attempt' = attempt
      BY <1>6, <2>2 DEF Select
    <3> QED
      BY <2>0, <2>2, <3>1 DEF GateInv, Registering
  <2> QED
    BY <2>1, <2>2
<1>7. CASE Gate
  <2>1. PICK test \in Results, incumbent \in Results :
          attempt' = [attempt EXCEPT
                        !.passed = FailedChecks([m \in HigherBetter |-> Metric(m, attempt.choice)],
                                                test, incumbent, attempt.policy) = {},
                        !.choice = None]
    BY <1>7 DEF Gate
  <2>2. /\ attempt'.version = v /\ attempt'.controlled = attempt.controlled /\ attempt'.policy = attempt.policy
        /\ attempt'.diagnostic = attempt.diagnostic
        /\ attempt'.passed => FailedChecks([m \in HigherBetter |-> Metric(m, attempt.choice)],
                                           test, incumbent, attempt.policy) = {}
    BY <1>t, <2>1
  <2>3. pc = "gate" /\ pc' = "save" /\ attempt.controlled /\ v \notin Registered'
    BY <1>7, <1>b DEF Gate, Step, mlflow, GateInv, BeforeGate, Registered
  <2>4. attempt'.diagnostic /\ attempt'.passed => Lenient'
    <3> SUFFICES ASSUME attempt'.diagnostic, attempt'.passed
                 PROVE  Less(attempt.policy.validation["recall"], Config.minimum)
      BY <2>2 DEF Lenient
    <3>1. /\ attempt.choice \in Evaluations /\ attempt.policy \in Policies
          /\ Less(Metric("recall", attempt.choice), Config.minimum)
      BY <2>2, <2>3 DEF GateInv
    <3> QED
      BY <2>2, <3>1, GatePasses
  <2> QED
    BY <2>2, <2>3, <2>4 DEF GateInv, Registering
<1>8. CASE On /\ ~ (ResolveIncumbent \/ LoadIncumbent \/ Select \/ Gate \/ Begins \/ Moves)
  <2>1. /\ attempt' = attempt /\ pc \notin BeforeGate /\ pc' \in Steps \ BeforeGate
        /\ pc' \in Registering => pc \in Registering \/ attempt.passed
    BY <1>8, LaterSteps
  <2>2. v \in Registered' => v \in Registered \/ pc \in Registering
    BY <1>n, RegisteredFirst DEF Registered
  <2>3. pc # "idle" /\ (pc \in Steps \/ pc = "raised")
    BY <1>8 DEF On, Inv, TypeInv, AttemptType
  <2>4. pc = "raised" => FALSE
    BY <1>8, <2>3 DEF On, Steps, TrainingNext, SaveModels, SaveReport, Untracked, OpenRun, Judge, Sign, LogRejected,
       Register, TagNewVersion, Serve, Reject, Accept, CallFails, RecordFailure, Kill, TagRun, TagVersion, Step,
       End, Begins, Moves
  <2>5. pc \in Steps \ BeforeGate
    BY <2>1, <2>3, <2>4
  <2>6. attempt.diagnostic /\ attempt.passed => Lenient
    BY <2>5 DEF GateInv
  <2>7. Lenient' <=> Lenient
    BY <2>1 DEF Lenient
  <2> QED
    BY <2>1, <2>2, <2>6, <2>7 DEF GateInv, BeforeGate
<1> QED
  <2>1. Begins \/ Moves \/ Left \/ On
    BY NextMoves DEF Inv
  <2> QED
    BY <1>1, <1>2, <1>3, <1>4, <1>5, <1>6, <1>7, <1>8, <2>1 DEF Left

(* A retraining registers a version only if the gate passed it, and one whose *)
(* threshold is diagnostic only if the policy asks for less recall than the   *)
(* configuration does: no pass of the gate is below both limits               *)
(* (_select_diagnostic_candidate, evaluate_retraining_quality).               *)
THEOREM PassedRegistered == TrainingSpec => []OnlyPassedRegistered
<1>1. TrainingInit => GateInv
  BY DEF TrainingInit, GateInv, NoAttempt, Registered, Registering, Steps, BeforeGate
<1>2. Inv /\ GateInv /\ [TrainingNext]_trainingVars => GateInv'
  <2>1. GateInv /\ UNCHANGED trainingVars => GateInv'
    BY DEF trainingVars, GateInv, Lenient, Registered
  <2> QED
    BY <2>1, GateInvNext
<1>3. GateInv => OnlyPassedRegistered
  BY DEF GateInv, OnlyPassedRegistered, Lenient
<1> QED
  BY InvInit, InvSteps, <1>1, <1>2, <1>3, PTL DEF TrainingSpec

-------------------------------------------------------------------------------
(* Training and ModelRegistry.                                                *)

Rejected(u) == tags[u].status = "rejected"

LEMMA RegistryInit == TrainingInit => Registry!Init
BY DEF TrainingInit, Registry!Init, Untagged, Served

LEMMA SameRegistry ==
  ASSUME \A u \in Versions : (Rejected(u)' <=> Rejected(u)) /\ (Served(u)' <=> Served(u))
  PROVE  UNCHANGED Registry!vars
BY DEF Rejected, Registry!vars, Registry!registry, Registry!session, Registry!task, Registry!history,
   Registry!bounds

\* The two outcomes of ModelRegistry's Validate.
LEMMA Rejection ==
  ASSUME NEW u \in Versions, ~ Served(u), ~ Rejected(u), tags'[u].status = "rejected",
         \A w \in Versions : (Served(w)' <=> Served(w)) /\ (w # u => (Rejected(w)' <=> Rejected(w)))
  PROVE  Registry!Validate(u)
<1> DEFINE Standing == [w \in Versions |-> IF tags[w].status = "rejected" THEN "rejected" ELSE "candidate"]
<1>1. Standing' = [Standing EXCEPT ![u] = "rejected"]
  BY DEF Rejected
<1>2. {w \in Versions : Served(w)}' = {w \in Versions : Served(w)}
  OBVIOUS
<1>3. u \notin {w \in Versions : Served(w)} /\ Standing[u] = "candidate"
  BY DEF Rejected
<1> QED
  BY <1>1, <1>2, <1>3 DEF Registry!Validate, Registry!session, Registry!task, Registry!history, Registry!bounds

LEMMA Validation ==
  ASSUME NEW u \in Versions, ~ Served(u), ~ Rejected(u), Served(u)',
         \A w \in Versions : (Rejected(w)' <=> Rejected(w)) /\ (w # u => (Served(w)' <=> Served(w)))
  PROVE  Registry!Validate(u)
<1> DEFINE Standing == [w \in Versions |-> IF tags[w].status = "rejected" THEN "rejected" ELSE "candidate"]
<1>1. Standing' = Standing
  BY DEF Rejected
<1>2. {w \in Versions : Served(w)}' = {w \in Versions : Served(w)} \cup {u}
  OBVIOUS
<1>3. u \notin {w \in Versions : Served(w)} /\ Standing[u] = "candidate"
  BY DEF Rejected
<1> QED
  BY <1>1, <1>2, <1>3 DEF Registry!Validate, Registry!session, Registry!task, Registry!history, Registry!bounds

LEMMA RegistryNext == Inv /\ [TrainingNext]_trainingVars => [Registry!Next]_(Registry!vars)
<1> SUFFICES ASSUME Inv, [TrainingNext]_trainingVars PROVE [Registry!Next]_(Registry!vars)
  OBVIOUS
<1> DEFINE v == attempt.version
<1>t. tags \in [Versions -> Tags] /\ (pc # "idle" => v \in Versions)
  BY DEF Inv, TypeInv, AttemptType, StoreType
<1>s. tags' = tags => UNCHANGED Registry!vars
  BY SameRegistry DEF Rejected, Served
<1>1. ASSUME tags' # tags
      PROVE  TagNewVersion \/ Reject \/ Accept \/ \E u \in Versions : MoveProduction(u) /\ u # None
  BY <1>1 DEF trainingVars, mlflow, TrainingNext, Begin, ResolveIncumbent, LoadIncumbent, Select, Gate,
     SaveModels, SaveReport, Untracked, OpenRun, Judge, Sign, TagRun, LogRejected, Register, Serve, CallFails,
     RecordFailure, Kill, MoveProduction
\* What becomes of the tags of one version.
<1>f. ASSUME NEW u \in Versions,
             NEW field \in {"status", "signature", "serving", "incumbent"}, NEW value,
             tags' = [tags EXCEPT ![u][field] = value]
      PROVE  /\ tags'[u][field] = value
             /\ \A f \in {"status", "signature", "serving", "incumbent"} : f # field => tags'[u][f] = tags[u][f]
             /\ \A w \in Versions : w # u => tags'[w] = tags[w]
  BY <1>f, <1>t DEF Tags
\* The version at work, whatever becomes of the attempt.
<1>p. pc # "idle" => \E u \in Versions : u = v
  BY <1>t
<1>2. ASSUME tags' # tags, TagNewVersion PROVE UNCHANGED Registry!vars
  <2>0. pc \in {"status", "signature", "serving", "incumbent"} /\ pc # "idle"
    BY <1>2 DEF TagNewVersion, TagVersion, Step
  <2>1. PICK u \in Versions : u = v
    BY <1>p, <2>0
  <2>2. tags[u].serving # "passed" /\ tags[u].status # "rejected"
    <3>1. CASE pc = "status"
      BY <2>1, <3>1 DEF Inv, Progress, Untagged
    <3>2. CASE pc \in {"signature", "serving", "incumbent"}
      BY <2>1, <3>2 DEF Inv, Progress
    <3> QED
      BY <2>0, <3>1, <3>2
  <2>3. \E field \in {"status", "signature", "serving", "incumbent"} : \E value :
          /\ tags' = [tags EXCEPT ![u][field] = value]
          /\ field = "status" => value = "candidate"
          /\ field = "serving" => value = "pending"
    <3>1. CASE TagVersion("status", "signature", "status", "candidate")
      BY <2>1, <3>1 DEF TagVersion
    <3>2. CASE TagVersion("signature", "serving", "signature", "passed")
      BY <2>1, <3>2 DEF TagVersion
    <3>3. CASE TagVersion("serving", "incumbent", "serving", "pending")
      BY <2>1, <3>3 DEF TagVersion
    <3>4. CASE TagVersion("incumbent", "serve", "incumbent", attempt.incumbent)
      BY <2>1, <3>4 DEF TagVersion
    <3> QED
      BY <1>2, <3>1, <3>2, <3>3, <3>4 DEF TagNewVersion, NewTags
  <2>4. PICK field \in {"status", "signature", "serving", "incumbent"} : \E value :
          /\ tags' = [tags EXCEPT ![u][field] = value]
          /\ field = "status" => value = "candidate"
          /\ field = "serving" => value = "pending"
    BY <2>3
  <2>4a. PICK value :
                     /\ tags' = [tags EXCEPT ![u][field] = value]
                     /\ field = "status" => value = "candidate"
                     /\ field = "serving" => value = "pending"
    BY <2>4
  <2>5. /\ tags'[u][field] = value
        /\ \A f \in {"status", "signature", "serving", "incumbent"} : f # field => tags'[u][f] = tags[u][f]
        /\ \A w \in Versions : w # u => tags'[w] = tags[w]
    <3>1. tags' = [tags EXCEPT ![u][field] = value]
      BY <2>4a
    <3> QED
      BY <1>t, <3>1 DEF Tags
  <2>6. tags'[u]["serving"] # "passed" /\ tags'[u]["status"] # "rejected"
    <3>1. tags'[u]["serving"] \in {tags[u]["serving"], "pending"}
      BY <2>4a, <2>5
    <3>2. tags'[u]["status"] \in {tags[u]["status"], "candidate"}
      BY <2>4a, <2>5
    <3> QED
      BY <2>2, <3>1, <3>2
  <2> QED
    BY <2>2, <2>5, <2>6, SameRegistry DEF Rejected, Served
<1>3. ASSUME tags' # tags, Reject PROVE [Registry!Next]_(Registry!vars)
  <2>0. pc \in {"reject status", "reject serving"} /\ pc # "idle"
    BY <1>3 DEF Reject, TagRun, TagVersion, Step
  <2>1. PICK u \in Versions : u = v
    BY <1>p, <2>0
  <2>2. tags[u].serving # "passed" /\ (pc = "reject status" => tags[u].status = "candidate")
    BY <2>0, <2>1 DEF Inv, Progress
  <2>3. CASE pc = "reject status"
    <3>1. tags' = [tags EXCEPT ![u]["status"] = "rejected"]
      BY <1>3, <2>1, <2>3 DEF Reject, TagRun, TagVersion, Step
    <3>2. /\ tags'[u].status = "rejected" /\ tags'[u].serving = tags[u].serving
          /\ \A w \in Versions : w # u => tags'[w] = tags[w]
      BY <1>f, <3>1
    <3>3. \A w \in Versions : (Served(w)' <=> Served(w)) /\ (w # u => (Rejected(w)' <=> Rejected(w)))
      BY <2>2, <3>2 DEF Served, Rejected
    <3>4. ~ Served(u) /\ ~ Rejected(u)
      BY <2>2, <2>3 DEF Served, Rejected
    <3>5. Registry!Validate(u)
      BY <3>2, <3>3, <3>4, Rejection
    <3> QED
      BY <3>5 DEF Registry!Next
  <2>4. CASE pc = "reject serving"
    <3>1. tags' = [tags EXCEPT ![u]["serving"] = "failed"]
      BY <1>3, <2>1, <2>4 DEF Reject, TagRun, TagVersion, Step
    <3>2. /\ tags'[u].status = tags[u].status /\ tags'[u].serving = "failed"
          /\ \A w \in Versions : w # u => tags'[w] = tags[w]
      BY <1>f, <3>1
    <3> QED
      BY <2>2, <3>2, SameRegistry DEF Rejected, Served
  <2> QED
    BY <2>0, <2>3, <2>4
<1>4. ASSUME tags' # tags, Accept PROVE [Registry!Next]_(Registry!vars)
  <2>0. pc = "pass" /\ pc # "idle" /\ tags' = [tags EXCEPT ![v]["serving"] = "passed"]
    BY <1>4 DEF Accept, TagRun, TagVersion, Step
  <2>1. PICK u \in Versions : u = v
    BY <1>p, <2>0
  <2>2. tags[u].status = "candidate" /\ tags[u].serving # "passed" /\ tags[u].signature = "passed"
    BY <2>0, <2>1 DEF Inv, Progress
  <2>3. /\ tags'[u].status = "candidate" /\ tags'[u].serving = "passed" /\ tags'[u].signature = "passed"
        /\ \A w \in Versions : w # u => tags'[w] = tags[w]
    BY <1>f, <2>0, <2>1, <2>2
  <2>4. \A w \in Versions : (Rejected(w)' <=> Rejected(w)) /\ (w # u => (Served(w)' <=> Served(w)))
    BY <2>2, <2>3 DEF Served, Rejected
  <2>5. ~ Served(u) /\ ~ Rejected(u) /\ Served(u)'
    BY <2>2, <2>3 DEF Served, Rejected
  <2>6. Registry!Validate(u)
    BY <2>4, <2>5, Validation
  <2> QED
    BY <2>6 DEF Registry!Next
<1>5. ASSUME tags' # tags, NEW u \in Versions, MoveProduction(u), u # None PROVE UNCHANGED Registry!vars
  <2>1. Promotable(u) /\ tags' = [tags EXCEPT ![u]["status"] = "production"]
    BY <1>5 DEF MoveProduction
  <2>2. /\ tags'[u].status = "production" /\ tags'[u].serving = tags[u].serving
        /\ tags'[u].signature = tags[u].signature
        /\ \A w \in Versions : w # u => tags'[w] = tags[w]
    BY <1>f, <2>1
  <2> QED
    BY <2>1, <2>2, SameRegistry DEF Rejected, Served, Promotable
<1> QED
  BY <1>s, <1>1, <1>2, <1>3, <1>4, <1>5

(* What training writes implements the one step that ModelRegistry makes of   *)
(* it: a version is validated, or rejected, once, and nothing undoes it.      *)
THEOREM TrainingImplementsRegistry == TrainingSpec => ImplementsRegistry
BY InvInit, InvSteps, RegistryInit, RegistryNext, PTL DEF TrainingSpec, ImplementsRegistry, Registry!Spec

-------------------------------------------------------------------------------
(* The choice of a threshold, over the predictions and configurations of the  *)
(* instance: ThresholdChosen of them.                                         *)

LEMMA SmallPredictionsFinite ==
  ASSUME NEW rows \in SmallPredictions
  PROVE  IsFiniteSet(DOMAIN rows) /\ \A i \in DOMAIN rows : rows[i].score \in Int
<1>1. PICK frauds \in 1..3, score \in [1..4 -> 0..3] :
        rows = [i \in 1..4 |-> [fraud |-> i <= frauds, score |-> score[i]]]
  BY DEF SmallPredictions
<1>2. IsFiniteSet(1..4)
  <2>1. PICK a \in Int, b \in Int : a = 1 /\ b = 4
    OBVIOUS
  <2>2. IsFiniteSet(a..b)
    BY FS_Interval
  <2> QED
    BY <2>1, <2>2
<1> QED
  BY <1>1, <1>2

LEMMA SmallConfigsLoaded ==
  ASSUME NEW config \in SmallConfigs
  PROVE  config \in Configurations /\ config.thresholds = <<1, 2, 3>>
<1>1. PICK p \in 0..1, n \in {1, 2}, minimum \in {<<0, 1>>, <<1, 2>>, <<1, 1>>},
           strategy \in {"metric", "business_cost"}, metric \in {"f1", "precision"} :
        config = [thresholds |-> <<1, 2, 3>>, costs |-> [positive |-> p, negative |-> n],
                  minimum |-> minimum, strategy |-> strategy, metric |-> metric, primary |-> "pr_auc"]
  BY DEF SmallConfigs
<1> DEFINE T == Seq(Nat \ {0})
           t == <<1, 2, 3>>
<1>2. t \in T /\ Ascending(t)
  <2>1. t \in T /\ Len(t) = 3 /\ DOMAIN t = 1..3
    OBVIOUS
  <2>2. \A i, j \in 1..3 : i < j => t[i] < t[j]
    OBVIOUS
  <2> QED
    BY <2>1, <2>2 DEF Ascending
<1>3. minimum \in Ratios
  BY DEF Ratios
<1>4. metric \in Metrics /\ "pr_auc" \in Metrics
  BY DEF Metrics
<1>5. config = [thresholds |-> t, costs |-> [positive |-> p, negative |-> n],
                minimum |-> minimum, strategy |-> strategy, metric |-> metric, primary |-> "pr_auc"]
  BY <1>1
<1>6. config.thresholds = t
  BY <1>5
<1>7. [positive |-> p, negative |-> n] \in [positive: Nat, negative: Nat]
  OBVIOUS
<1>8. config \in [thresholds: T, costs: [positive: Nat, negative: Nat], minimum: Ratios,
                  strategy: {"metric", "business_cost"}, metric: Metrics, primary: Metrics]
  <2> HIDE DEF T, t
  <2> QED
    BY <1>2, <1>3, <1>4, <1>5, <1>7
<1>9. config \in Configurations
  BY <1>2, <1>6, <1>8 DEF Configurations
<1> QED
  BY <1>6, <1>9

(* The threshold chosen is the lowest of the best of those that reach the     *)
(* minimum recall (select_best_threshold, select_business_threshold).         *)
THEOREM ThresholdsBest == TrainingSpec => []ThresholdIsBest
<1>1. ASSUME NEW rows \in SmallPredictions, NEW config \in SmallConfigs
      PROVE  LET evaluations == Analysis(rows, config)
                 fit == {i \in 1..3 : ~ Less(Metric("recall", evaluations[i]), config.minimum)}
                 Key(i) == ThresholdKey(evaluations[i], config)
                 best == {i \in fit : \A j \in fit : ~ Beats(Key(j), Key(i))}
                 unconstrained == [config EXCEPT !.minimum = <<0, 1>>]
             IN  IF fit = {} THEN Less(Metric("recall", evaluations[1]), config.minimum)
                 ELSE /\ SelectThreshold(evaluations, config) = evaluations[Min(best)]
                      /\ Min(best) <= SelectThreshold(evaluations, unconstrained).threshold
  <2> DEFINE evaluations == Analysis(rows, config)
             fit == Eligible(evaluations, config.minimum)
             Key(i) == ThresholdKey(evaluations[i], config)
             best == {i \in fit : \A j \in fit : ~ Beats(Key(j), Key(i))}
             unconstrained == [config EXCEPT !.minimum = <<0, 1>>]
  <2>1. DOMAIN evaluations = 1..3 /\ \A i \in 1..3 : evaluations[i].threshold = i
    BY SmallConfigsLoaded DEF Analysis, Evaluation
  <2>2. fit = {i \in 1..3 : ~ Less(Metric("recall", evaluations[i]), config.minimum)}
    BY <2>1 DEF Eligible
  <2>3. IF fit = {} THEN Less(Metric("recall", evaluations[1]), config.minimum)
        ELSE /\ SelectThreshold(evaluations, config) = evaluations[Min(best)]
             /\ Min(best) \in fit
             /\ \E b \in DOMAIN evaluations :
                  /\ SelectThreshold(evaluations, unconstrained) = evaluations[b]
                  /\ Min(best) <= b
    BY SmallPredictionsFinite, SmallConfigsLoaded, ThresholdChosen, Zenon
  <2>4. fit # {} => Min(best) <= SelectThreshold(evaluations, unconstrained).threshold
    <3> HIDE DEF evaluations, fit, best, unconstrained
    <3> QED
      BY <2>1, <2>3
  <2> HIDE DEF evaluations
  <2>5. IF fit = {} THEN Less(Metric("recall", evaluations[1]), config.minimum)
        ELSE /\ SelectThreshold(evaluations, config) = evaluations[Min(best)]
             /\ Min(best) <= SelectThreshold(evaluations, unconstrained).threshold
    <3> HIDE DEF fit, best, unconstrained
    <3> QED
      BY <2>3, <2>4
  <2> QED
    BY <2>2, <2>5 DEF evaluations
<1>2. ThresholdIsBest
  BY <1>1 DEF ThresholdIsBest
<1> QED
  BY <1>2, PTL

===============================================================================
