------------------------------- MODULE TrainingRun -------------------------------
(***************************************************************************)
(* One training after the other (pipelines/train_models.py), plain or as a *)
(* controlled retraining (pipelines/retrain_model.py), from the data in    *)
(* memory to the alias "candidate", while others move the production alias *)
(* of the same registry.  TrainingData says how the data came to be in     *)
(* memory, ModelSelection how a model and a threshold are chosen of it.    *)
(*                                                                         *)
(* A version stands for one attempt: for its final MLflow run, and for the *)
(* registered version if it gets so far.  Every write to MLflow is a step  *)
(* of its own, and a set of version tags one step per tag.  Any call may   *)
(* fail; a write that took effect and is reported as failed is the write   *)
(* followed by a failure of the next call.                                 *)
(***************************************************************************)
EXTENDS ModelSelection

CONSTANTS
  Versions,     \* attempts, and the versions they register
  None,         \* no version, nothing
  Samples,      \* what the three models may predict of the validation split
  Keep(_),      \* the samples that may be drawn of its rows
  Results,      \* metrics a model may have on the test split
  Config,       \* the model configuration
  Policies      \* retraining policies

ASSUME VersionsAssumption == None \notin Versions

ASSUME ConfigAssumption == Config \in Configurations

ASSUME PoliciesAssumption == \A policy \in Policies : policy.validation \in [HigherBetter -> Ratios]

\* Three models, and samples of the rows there are.
ASSUME SamplesAssumption ==
  \A models \in Samples :
    /\ DOMAIN models = 1..3 /\ IsFiniteSet(DOMAIN models[1])
    /\ \A kept \in Keep(DOMAIN models[1]) : kept \subseteq DOMAIN models[1]

VARIABLES
  pc,           \* the next step of the training
  attempt,      \* what it is about
  tags,         \* the tags of every version; none before it is registered
  run,          \* tag candidate_status of the final MLflow run of every attempt
  outcome,      \* how every attempt ended
  production, candidate,  \* the two aliases
  local,        \* the attempts whose models and report lie in the fixed local paths, and,
                \* history, the one that wrote there last
  served        \* history: the versions that served the input example

trainingVars == <<pc, attempt, tags, run, outcome, production, candidate, local, served>>

Untagged == [status |-> "none", signature |-> "none", serving |-> "none", incumbent |-> None]

NoAttempt == [version |-> None, controlled |-> FALSE, policy |-> None, incumbent |-> None,
              choice |-> None, diagnostic |-> FALSE, passed |-> TRUE]

\* The steps with a call that may fail, and the others.
Steps == {"resolve", "load", "predict", "gate", "save", "report", "open", "judge", "sign", "log",
          "status", "signature", "serving", "incumbent", "serve",
          "reject run", "reject status", "reject serving", "pass", "name run", "alias"}

Registered == {v \in Versions : tags[v] # Untagged}

TrainingTypeOK ==
  /\ pc \in Steps \cup {"idle", "raised"}
  /\ attempt.version \in Versions \cup {None} /\ (attempt.version = None <=> pc = "idle")
  /\ {attempt.controlled, attempt.diagnostic, attempt.passed} \subseteq BOOLEAN
  /\ attempt.incumbent \in Versions \cup {None}
  /\ tags \in [Versions -> [status: {"none", "candidate", "rejected", "production"},
                            signature: {"none", "passed"},
                            serving: {"none", "pending", "passed", "failed"},
                            incumbent: Versions \cup {None}]]
  /\ run \in [Versions -> {"none", "validation_pending", "passed", "rejected", "candidate"}]
  /\ outcome \in [Versions -> {"none", "registered", "rejected", "recorded", "untracked", "failed",
                            "killed"}]
  /\ {production, candidate, local.models, local.report, local.last} \subseteq Versions \cup {None}
  /\ served \subseteq Versions

TrainingInit ==
  /\ pc = "idle" /\ attempt = NoAttempt
  /\ tags = [v \in Versions |-> Untagged]
  /\ run = [v \in Versions |-> "none"]
  /\ outcome = [v \in Versions |-> "none"]
  /\ production = None /\ candidate = None
  /\ local = [models |-> None, report |-> None, last |-> None]
  /\ served = {}

-------------------------------------------------------------------------------
mlflow == <<tags, run, candidate, served>>

Step(from, to) == pc = from /\ pc' = to

End(result) ==
  /\ pc' = "idle" /\ attempt' = NoAttempt
  /\ outcome' = [outcome EXCEPT ![attempt.version] = result]

\* An exception: retrain_model records it, a plain training just ends.
Raise ==
  IF attempt.controlled THEN pc' = "raised" /\ UNCHANGED <<attempt, outcome>> ELSE End("failed")

\* The approved data are in memory.
Begin(v, controlled, policy) ==
  /\ pc = "idle" /\ outcome[v] = "none"
  /\ pc' = IF controlled THEN "resolve" ELSE "predict"
  /\ attempt' = [NoAttempt EXCEPT !.version = v, !.controlled = controlled,
                                  !.policy = IF controlled THEN policy ELSE None]
  /\ UNCHANGED <<mlflow, outcome, production, local>>

Served(v) == tags[v].signature = "passed" /\ tags[v].serving = "passed"

\* The production version and the checks of its tags.
ResolveIncumbent ==
  /\ Step("resolve", "load")
  /\ production # None /\ Served(production)
  /\ attempt' = [attempt EXCEPT !.incumbent = production]
  /\ UNCHANGED <<mlflow, outcome, production, local>>

\* models:/...@production is resolved once more: the model compared with may be another
\* version's than the tags, which any Results of the gate allow for.
LoadIncumbent ==
  /\ Step("load", "predict")
  /\ production # None
  /\ UNCHANGED <<mlflow, attempt, outcome, production, local>>

\* What the models predict of the rows sampled.
Drawn ==
  UNION {{[i \in DOMAIN models |-> [row \in kept |-> models[i][row]]] : kept \in Keep(DOMAIN models[1])} :
           models \in Samples}

\* The choices made of them, none when the sample lacks a class.
Selections == {Candidate(seen, Config) : seen \in {seen \in Drawn : Evaluable(seen[1])}}

\* Training, and the choice of a model; without an eligible one only a controlled run goes on.
Select ==
  /\ pc = "predict"
  /\ \E choice \in Selections :
       /\ choice.diagnostic => attempt.controlled
       /\ IF attempt.controlled
          THEN /\ pc' = "gate"
               /\ attempt' = [attempt EXCEPT !.choice = choice.evaluation, !.diagnostic = choice.diagnostic]
          ELSE pc' = "save" /\ UNCHANGED attempt
  /\ UNCHANGED <<mlflow, outcome, production, local>>

\* The threshold is that of the incumbent's tags, the scores are those of the model loaded.
Gate ==
  /\ Step("gate", "save")
  /\ \E test, incumbent \in Results :
       LET validation == [m \in HigherBetter |-> Metric(m, attempt.choice)] IN
       attempt' = [attempt EXCEPT !.passed = FailedChecks(validation, test, incumbent, attempt.policy) = {},
                                  !.choice = None]
  /\ UNCHANGED <<mlflow, outcome, production, local>>

\* Mutant of OwnPaths: only the reports of retrainings are kept apart.
OwnReport(field) == attempt.controlled /\ field = "report"

\* A retraining writes to a directory of its own.
OwnPaths(field) == attempt.controlled

Overwrite(field, what) ==
  local' = IF OwnPaths(field) THEN local ELSE [local EXCEPT ![field] = what, !.last = attempt.version]

\* Three files: all of them are written, or writing fails between them.
SaveModels ==
  /\ pc = "save"
  /\ \/ Overwrite("models", attempt.version) /\ pc' = "report" /\ UNCHANGED <<attempt, outcome>>
     \/ Overwrite("models", None) /\ Raise
  /\ UNCHANGED <<mlflow, production>>

\* The evaluation report and the model card.
SaveReport ==
  /\ Step("report", "open")
  /\ Overwrite("report", attempt.version)
  /\ UNCHANGED <<mlflow, attempt, outcome, production>>

-------------------------------------------------------------------------------
(* _track_training_run.                                                       *)

TagRun(from, to, value) ==
  /\ Step(from, to)
  /\ run' = [run EXCEPT ![attempt.version] = value]
  /\ UNCHANGED <<attempt, tags, outcome, production, candidate, local, served>>

\* A plain training may be configured without tracking.
Untracked ==
  /\ pc = "open" /\ ~ attempt.controlled
  /\ End("untracked")
  /\ UNCHANGED <<mlflow, production, local>>

\* The parent run, one run for each model, and the final run.
OpenRun ==
  TagRun("open", "judge", IF ~ attempt.controlled THEN "validation_pending"
                          ELSE IF attempt.passed THEN "passed" ELSE "rejected")

\* The rejection by the gate, and the artifacts of the run.
Judge == TagRun("judge", "sign", IF attempt.passed THEN run[attempt.version] ELSE "rejected")

Sign ==
  \/ Step("sign", "log") /\ UNCHANGED <<mlflow, attempt, outcome, production, local>>
  \/ /\ pc = "sign" /\ Raise
     /\ run' = [run EXCEPT ![attempt.version] = "rejected"]
     /\ UNCHANGED <<tags, candidate, production, local, served>>

\* Mutant of Registers: a rejection is only recorded in the run.
RegistersAny == TRUE

Registers == attempt.passed

\* A model the gate rejects is logged, but not registered.
LogRejected ==
  /\ pc = "log" /\ ~ Registers
  /\ End("rejected")
  /\ UNCHANGED <<mlflow, production, local>>

\* Mutant of NewTags: the serving check is assumed to pass.
NewTagsServed == [status |-> "candidate", signature |-> "passed", serving |-> "passed", incumbent |-> attempt.incumbent]

\* The tags of a new version, in the order they are written.
NewTags == [status |-> "candidate", signature |-> "passed", serving |-> "pending", incumbent |-> attempt.incumbent]

TagVersion(from, to, field, value) ==
  /\ Step(from, to)
  /\ tags' = [tags EXCEPT ![attempt.version][field] = value]
  /\ UNCHANGED <<attempt, run, outcome, production, candidate, local, served>>

\* log_model registers the version.
Register == Registers /\ Step("log", "status") /\ UNCHANGED <<mlflow, attempt, outcome, production, local>>

TagNewVersion ==
  \/ TagVersion("status", "signature", "status", NewTags.status)
  \/ TagVersion("signature", "serving", "signature", NewTags.signature)
  \/ TagVersion("serving", "incumbent", "serving", NewTags.serving)
  \/ TagVersion("incumbent", "serve", "incumbent", NewTags.incumbent)

\* The registered model serves the input example, or whatever goes wrong rejects it.
Serve ==
  /\ \/ Step("serve", "pass") /\ served' = served \cup {attempt.version}
     \/ Step("serve", "reject run") /\ UNCHANGED served
  /\ UNCHANGED <<attempt, tags, run, outcome, production, candidate, local>>

Reject ==
  \/ TagRun("reject run", "reject status", "rejected")
  \/ TagVersion("reject status", "reject serving", "status", "rejected")
  \/ /\ pc = "reject serving" /\ Raise
     /\ tags' = [tags EXCEPT ![attempt.version].serving = "failed"]
     /\ UNCHANGED <<run, candidate, production, local, served>>

\* Mutant of Accept: the alias is set first.
AcceptAliasFirst ==
  \/ TagVersion("alias", "name run", "serving", "passed")
  \/ TagRun("name run", "raised", "candidate")
  \/ /\ Step("pass", "alias") /\ candidate' = attempt.version
     /\ UNCHANGED <<attempt, tags, run, outcome, production, local, served>>

Accept ==
  \/ TagVersion("pass", "name run", "serving", "passed")
  \/ TagRun("name run", "alias", "candidate")
  \/ /\ pc = "alias" /\ End("registered")
     /\ candidate' = attempt.version
     /\ UNCHANGED <<tags, run, production, local, served>>

\* A call fails without effect, or a check refuses.
CallFails ==
  /\ pc \in Steps /\ Raise
  /\ UNCHANGED <<mlflow, production, local>>

\* _record_failed_attempt, whose own failure is only logged.
RecordFailure ==
  /\ pc = "raised"
  /\ \/ End("recorded")
     \/ End("failed")
  /\ UNCHANGED <<mlflow, production, local>>

Kill ==
  /\ pc # "idle" /\ End("killed")
  /\ UNCHANGED <<mlflow, production, local>>

Promotable(v) == Served(v) /\ tags[v].status # "rejected"

\* A promotion of ModelRegistry, of which the alias and the approval tag are all that training
\* sees; a rollback moves the alias to a version promoted before, or deletes it.
MoveProduction(v) ==
  /\ v # production /\ v \in {None} \cup {u \in Versions : Promotable(u)}
  /\ production' = v
  /\ tags' = IF v = None THEN tags ELSE [tags EXCEPT ![v].status = "production"]
  /\ UNCHANGED <<pc, attempt, run, outcome, candidate, local, served>>

TrainingNext ==
  \/ \E v \in Versions, controlled \in BOOLEAN, policy \in Policies : Begin(v, controlled, policy)
  \/ ResolveIncumbent
  \/ LoadIncumbent
  \/ Select
  \/ Gate
  \/ SaveModels
  \/ SaveReport
  \/ Untracked
  \/ OpenRun
  \/ Judge
  \/ Sign
  \/ LogRejected
  \/ Register
  \/ TagNewVersion
  \/ Serve
  \/ Reject
  \/ Accept
  \/ CallFails
  \/ RecordFailure
  \/ Kill
  \/ \E v \in Versions \cup {None} : MoveProduction(v)

TrainingSpec == TrainingInit /\ [][TrainingNext]_trainingVars

-------------------------------------------------------------------------------
(* Whatever is promotable has served the input example, however its training  *)
(* ended: tags are written one by one, and the one that opens the way to      *)
(* production comes last.                                                     *)
PromotableWasServed == \A v \in Versions : Promotable(v) => v \in served

(* A retraining registers a version only if the gate passed it.  Under a      *)
(* policy that asks for no less recall than the configuration does, none is   *)
(* registered with a diagnostic threshold, which did not reach the recall     *)
(* configured; for policies that ask for less see DiagnosticOnlyRejected.     *)
OnlyPassedRegistered ==
  attempt.version \in Registered /\ attempt.controlled =>
    /\ attempt.passed
    /\ ~ Less(attempt.policy.validation["recall"], Config.minimum) => ~ attempt.diagnostic

(* train_models.py:814 says that the diagnostic threshold is chosen "solely   *)
(* to record a rejected retraining attempt": none is ever registered with it. *)
DiagnosticOnlyRejected == attempt.version \in Registered => ~ attempt.diagnostic

(* A run marked as rejected has no promotable version, a run marked as a      *)
(* candidate has one, and the alias "candidate" names only versions of such   *)
(* runs, also when training stops between two tags.                           *)
RunAgreesWithVersion ==
  /\ \A v \in Versions : /\ run[v] = "rejected" => ~ Promotable(v)
                         /\ run[v] = "candidate" => Promotable(v)
  /\ candidate # None => run[candidate] = "candidate"

(* The models and the report in the local paths are those of the training     *)
(* that wrote there last, unless it is still between the two, or ended there  *)
(* and has no run: what other trainings do, or how they end, never parts or   *)
(* mixes them, and the next plain training that gets past them repairs them.  *)
LocalPairWhole ==
  local.last # None =>
    \/ local.models = local.last /\ local.report = local.last
    \/ pc = "report" /\ attempt.version = local.last
    \/ outcome[local.last] \in {"failed", "killed"} /\ run[local.last] = "none"

(* What training writes implements the one step that ModelRegistry makes of   *)
(* it: a version is validated, or rejected, once, and nothing undoes it.      *)
Registry == INSTANCE ModelRegistry WITH
  Operators <- {}, Stages <- {}, NoTag <- "no tag", Duties <- {},
  MaxSessions <- 0, MaxFailures <- 0, MaxMishaps <- 0,
  alias <- <<>>, previousIn <- [v \in Versions |-> <<>>], previousAny <- [v \in Versions |-> "no tag"],
  standing <- [v \in Versions |-> IF tags[v].status = "rejected" THEN "rejected" ELSE "candidate"],
  validated <- {v \in Versions : Served(v)},
  pc <- <<>>, stage <- <<>>, version <- <<>>, previous <- <<>>, expected <- <<>>,
  settled <- <<>>, replaced <- <<>>, held <- <<>>, raced <- {}, started <- 0, failures <- 0, mishaps <- 0

ImplementsRegistry == Registry!Spec

================================================================================
