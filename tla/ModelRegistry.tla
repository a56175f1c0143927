----------------------------- MODULE ModelRegistry -----------------------------
(***************************************************************************)
(* Promotion and rollback of registered model versions                     *)
(* (ml/tracking/registry.py), run by operators and by the rollout guard    *)
(* against one shared registry.                                            *)
(*                                                                         *)
(* Every call to the registry is a step of its own: the registry offers no *)
(* compare-and-set, and a set of tags is written one tag at a time.  A     *)
(* call may fail.  A write that is reported as failed but did take place   *)
(* needs no step of its own: it is the write followed by a failure of the  *)
(* next call.                                                              *)
(*                                                                         *)
(* previousIn[v][s] is the tag promotion.previous_version.s of version v,  *)
(* previousAny[v] the tag promotion.previous_version without a stage.      *)
(***************************************************************************)
EXTENDS Integers, FiniteSets

CONSTANTS
  Operators,    \* who runs promotions and rollbacks
  Versions,     \* registered model versions
  Stages,       \* the aliases "staging" and "production"
  None,         \* no version: an alias that is unset, the tag value "none"
  NoTag,        \* a tag never written
  Duties,       \* <<operator, stage>> pairs: who may work on which alias
  MaxSessions,  \* bound: promotions and rollbacks started
  MaxFailures,  \* bound: calls that fail and are compensated
  MaxMishaps    \* bound: processes killed, and compensations that fail

ASSUME DutiesAssumption == Duties \subseteq Operators \X Stages

ASSUME MarksAssumption == None \notin Versions /\ NoTag \notin Versions \cup {None}

ASSUME StagesAssumption == Stages \cap {"candidate", "rejected"} = {} /\ None \notin Stages

ASSUME BoundsAssumption == MaxSessions \in Nat /\ MaxFailures \in Nat /\ MaxMishaps \in Nat

VARIABLES
  alias,        \* the version an alias names
  standing,     \* tag candidate_status
  validated,    \* versions whose signature and serving input were validated
  previousIn,
  previousAny,
  pc,           \* the next call of every operator
  stage,        \* the alias an operator works on
  version,      \* the version to promote, or to roll back from
  previous,     \* the version to come back to (promotion), to restore (rollback)
  expected,     \* the version a rollback was told to expect
  settled,      \* history: where the last successful operation left an alias
  replaced,     \* history: what the last successful promotion of a version replaced
  held,         \* history: versions a promotion ever gave an alias to
  raced,        \* history: aliases two operators ever worked on at once
  started, failures, mishaps

registry == <<alias, standing, validated, previousIn, previousAny>>
history  == <<settled, replaced, held, raced>>
bounds   == <<started, failures, mishaps>>
task     == <<stage, version, previous, expected>>
session  == <<pc, task>>
vars     == <<registry, session, history, bounds>>

Marked == Versions \cup {None}

Promoting   == {"check", "peek", "move", "tagStanding", "tagAny", "tagIn", "tagRest", "revert"}
RollingBack == {"current", "lookup", "restore", "audit", "unrestore"}

TypeOK ==
  /\ alias \in [Stages -> Marked]
  /\ standing \in [Versions -> {"candidate", "rejected"} \cup Stages]
  /\ validated \in SUBSET Versions
  /\ previousIn \in [Versions -> [Stages -> Marked \cup {NoTag}]]
  /\ previousAny \in [Versions -> Marked \cup {NoTag}]
  /\ pc \in [Operators -> Promoting \cup RollingBack \cup {"idle"}]
  /\ stage \in [Operators -> Stages \cup {None}]
  /\ version \in [Operators -> Marked]
  /\ previous \in [Operators -> Marked]
  /\ expected \in [Operators -> Marked]
  /\ settled \in [Stages -> Marked]
  /\ replaced \in [Stages -> [Versions -> Marked \cup {NoTag}]]
  /\ held \in [Stages -> SUBSET Versions]
  /\ raced \in SUBSET Stages
  /\ started \in 0..MaxSessions /\ failures \in 0..MaxFailures /\ mishaps \in 0..MaxMishaps

\* Versions as log_and_register_model leaves them: candidates to be validated.
Init ==
  /\ alias = [s \in Stages |-> None]
  /\ standing = [v \in Versions |-> "candidate"]
  /\ validated = {}
  /\ previousIn = [v \in Versions |-> [s \in Stages |-> NoTag]]
  /\ previousAny = [v \in Versions |-> NoTag]
  /\ pc = [o \in Operators |-> "idle"]
  /\ stage = [o \in Operators |-> None]
  /\ version = [o \in Operators |-> None]
  /\ previous = [o \in Operators |-> None]
  /\ expected = [o \in Operators |-> None]
  /\ settled = [s \in Stages |-> None]
  /\ replaced = [s \in Stages |-> [v \in Versions |-> NoTag]]
  /\ held = [s \in Stages |-> {}]
  /\ raced = {}
  /\ started = 0 /\ failures = 0 /\ mishaps = 0

Go(o, place) == pc' = [pc EXCEPT ![o] = place]

\* An operation ends, whatever its outcome.
Finish(o) ==
  /\ Go(o, "idle")
  /\ stage' = [stage EXCEPT ![o] = None]
  /\ version' = [version EXCEPT ![o] = None]
  /\ previous' = [previous EXCEPT ![o] = None]
  /\ expected' = [expected EXCEPT ![o] = None]

-------------------------------------------------------------------------------
\* Training validates the registered model by serving one input to it.
Validate(v) ==
  /\ v \notin validated /\ standing[v] = "candidate"
  /\ \/ validated' = validated \cup {v} /\ UNCHANGED standing
     \/ standing' = [standing EXCEPT ![v] = "rejected"] /\ UNCHANGED validated
  /\ UNCHANGED <<alias, previousIn, previousAny, session, history, bounds>>

Working(s) == \E o \in Operators : stage[o] = s

\* An operator takes up a stage, whether or not somebody else works on it.
TakeUp(o, s) ==
  /\ pc[o] = "idle"
  /\ <<o, s>> \in Duties
  /\ started < MaxSessions
  /\ started' = started + 1
  /\ stage' = [stage EXCEPT ![o] = s]
  /\ raced' = IF Working(s) THEN raced \cup {s} ELSE raced
  /\ UNCHANGED <<registry, settled, replaced, held, failures, mishaps>>

StartPromotion(o, s, v) ==
  /\ TakeUp(o, s)
  /\ Go(o, "check")
  /\ version' = [version EXCEPT ![o] = v]
  /\ UNCHANGED <<previous, expected>>

\* Mutant of Promotable: the serving check is not looked at.
PromotableUnserved(v) == standing[v] # "rejected"

Promotable(v) == standing[v] # "rejected" /\ v \in validated

\* get_model_version and the checks of its tags.
CheckVersion(o) ==
  /\ pc[o] = "check"
  /\ IF Promotable(version[o]) THEN Go(o, "peek") /\ UNCHANGED task ELSE Finish(o)
  /\ UNCHANGED <<registry, history, bounds>>

\* get_model_alias_version; a version that has the alias already is refused.
PeekAlias(o) ==
  LET s == stage[o] IN
  /\ pc[o] = "peek"
  /\ IF alias[s] = version[o]
     THEN Finish(o)
     ELSE /\ Go(o, "move")
          /\ previous' = [previous EXCEPT ![o] = alias[s]]
          /\ UNCHANGED <<stage, version, expected>>
  /\ UNCHANGED <<registry, history, bounds>>

MoveAlias(o) ==
  LET s == stage[o]  v == version[o] IN
  /\ pc[o] = "move"
  /\ alias' = [alias EXCEPT ![s] = v]
  /\ held' = [held EXCEPT ![s] = @ \cup {v}]
  /\ Go(o, "tagStanding")
  /\ UNCHANGED <<task, standing, validated, previousIn, previousAny, settled, replaced, raced, bounds>>

\* The tags of the promotion, in the order they are written.
TagStanding(o) ==
  /\ pc[o] = "tagStanding"
  /\ standing' = [standing EXCEPT ![version[o]] = stage[o]]
  /\ Go(o, "tagAny")
  /\ UNCHANGED <<task, alias, validated, previousIn, previousAny, history, bounds>>

TagAny(o) ==
  /\ pc[o] = "tagAny"
  /\ previousAny' = [previousAny EXCEPT ![version[o]] = previous[o]]
  /\ Go(o, "tagIn")
  /\ UNCHANGED <<task, alias, standing, validated, previousIn, history, bounds>>

TagIn(o) ==
  /\ pc[o] = "tagIn"
  /\ previousIn' = [previousIn EXCEPT ![version[o]][stage[o]] = previous[o]]
  /\ Go(o, "tagRest")
  /\ UNCHANGED <<task, alias, standing, validated, previousAny, history, bounds>>

\* The last tags, and success.
TagRest(o) ==
  LET s == stage[o]  v == version[o] IN
  /\ pc[o] = "tagRest"
  /\ settled' = [settled EXCEPT ![s] = v]
  /\ replaced' = [replaced EXCEPT ![s][v] = previous[o]]
  /\ Finish(o)
  /\ UNCHANGED <<registry, held, raced, bounds>>

\* A write of the promotion fails: the alias is to be put back.
PromotionFails(o) ==
  /\ pc[o] \in {"move", "tagStanding", "tagAny", "tagIn", "tagRest"}
  /\ failures < MaxFailures
  /\ failures' = failures + 1
  /\ Go(o, "revert")
  /\ UNCHANGED <<task, registry, history, started, mishaps>>

\* Mutant of PutBack: the alias is put back when there was one, never deleted.
PutBackVersion(s, v) == alias' = IF v = None THEN alias ELSE [alias EXCEPT ![s] = v]

\* set_model_alias, or delete_model_alias for None.
PutBack(s, v) == alias' = [alias EXCEPT ![s] = v]

\* Mutant of RevertPromotion: the approval tag is taken back as well.
RevertPromotionAndTag(o) ==
  /\ pc[o] = "revert"
  /\ PutBack(stage[o], previous[o])
  /\ standing' = [standing EXCEPT ![version[o]] = "candidate"]
  /\ Finish(o)
  /\ UNCHANGED <<validated, previousIn, previousAny, history, bounds>>

RevertPromotion(o) ==
  /\ pc[o] = "revert"
  /\ PutBack(stage[o], previous[o])
  /\ Finish(o)
  /\ UNCHANGED <<standing, validated, previousIn, previousAny, history, bounds>>

-------------------------------------------------------------------------------
\* v is None, or the version the rollout guard knows it released.
StartRollback(o, s, v) ==
  /\ TakeUp(o, s)
  /\ Go(o, "current")
  /\ expected' = [expected EXCEPT ![o] = v]
  /\ UNCHANGED <<version, previous>>

\* The alias is unset, or names another version than expected: refused.
ReadCurrent(o) ==
  LET s == stage[o] IN
  /\ pc[o] = "current"
  /\ IF alias[s] = None \/ expected[o] \notin {None, alias[s]}
     THEN Finish(o)
     ELSE /\ Go(o, "lookup")
          /\ version' = [version EXCEPT ![o] = alias[s]]
          /\ UNCHANGED <<stage, previous, expected>>
  /\ UNCHANGED <<registry, history, bounds>>

\* Mutant of Recorded: the tag without a stage is read.
RecordedAny(v, s) == previousAny[v]

\* The tag of the stage, or for want of it the one without a stage.
Recorded(v, s) == IF previousIn[v][s] # NoTag THEN previousIn[v][s] ELSE previousAny[v]

\* Mutant of NoPredecessor: a tag that was never written is overlooked.
OnlyNone(target) == target = None

NoPredecessor(target) == target \in {None, NoTag}

\* The tags of the current version; no recorded predecessor: refused.
LookUpPrevious(o) ==
  LET target == Recorded(version[o], stage[o]) IN
  /\ pc[o] = "lookup"
  /\ IF NoPredecessor(target)
     THEN Finish(o)
     ELSE /\ Go(o, "restore")
          /\ previous' = [previous EXCEPT ![o] = target]
          /\ UNCHANGED <<stage, version, expected>>
  /\ UNCHANGED <<registry, history, bounds>>

RestorePrevious(o) ==
  /\ pc[o] = "restore"
  /\ alias' = [alias EXCEPT ![stage[o]] = previous[o]]
  /\ Go(o, "audit")
  /\ UNCHANGED <<task, standing, validated, previousIn, previousAny, history, bounds>>

\* The rollback tags, and success.
AuditRollback(o) ==
  /\ pc[o] = "audit"
  /\ settled' = [settled EXCEPT ![stage[o]] = previous[o]]
  /\ Finish(o)
  /\ UNCHANGED <<registry, replaced, held, raced, bounds>>

RollbackFails(o) ==
  /\ pc[o] \in {"restore", "audit"}
  /\ failures < MaxFailures
  /\ failures' = failures + 1
  /\ Go(o, "unrestore")
  /\ UNCHANGED <<task, registry, history, started, mishaps>>

RevertRollback(o) ==
  /\ pc[o] = "unrestore"
  /\ PutBack(stage[o], version[o])
  /\ Finish(o)
  /\ UNCHANGED <<standing, validated, previousIn, previousAny, history, bounds>>

\* The process is killed between two calls, or the compensation fails too.
Abort(o) ==
  /\ pc[o] # "idle"
  /\ mishaps < MaxMishaps
  /\ mishaps' = mishaps + 1
  /\ Finish(o)
  /\ UNCHANGED <<registry, history, started, failures>>

Promotion(o) ==
  \/ \E s \in Stages, v \in Versions : StartPromotion(o, s, v)
  \/ CheckVersion(o)
  \/ PeekAlias(o)
  \/ MoveAlias(o)
  \/ TagStanding(o)
  \/ TagAny(o)
  \/ TagIn(o)
  \/ TagRest(o)
  \/ PromotionFails(o)
  \/ RevertPromotion(o)

Rollback(o) ==
  \/ \E s \in Stages, v \in Marked : StartRollback(o, s, v)
  \/ ReadCurrent(o)
  \/ LookUpPrevious(o)
  \/ RestorePrevious(o)
  \/ AuditRollback(o)
  \/ RollbackFails(o)
  \/ RevertRollback(o)

Next ==
  \/ \E v \in Versions : Validate(v)
  \/ \E o \in Operators : Promotion(o) \/ Rollback(o) \/ Abort(o)

Spec == Init /\ [][Next]_vars

-------------------------------------------------------------------------------
(* No alias ever names a version that was rejected or is not validated,       *)
(* whoever promotes, rolls back, fails or is killed, in whatever order.       *)
AliasesValidated ==
  \A s \in Stages : alias[s] # None => alias[s] \in validated /\ standing[alias[s]] # "rejected"

\* Nobody was killed, and one operator at a time worked on the alias.
Orderly(s) == mishaps = 0 /\ s \notin raced

(* While nobody works on an alias it is where the last successful promotion   *)
(* or rollback left it: a failed one leaves no trace in it.                   *)
AliasFollowsSuccess ==
  \A s \in Stages : Orderly(s) => Working(s) \/ alias[s] = settled[s]

Restores(o) == pc[o] = "restore" /\ pc'[o] = "audit"

(* rollback_registered_model: "restore the version recorded by the latest     *)
(* successful promotion audit", that is the one it replaced.                  *)
RestoresReplaced ==
  [][\A o \in Operators : Restores(o) => previous[o] = replaced[stage[o]][version[o]]]_vars

(* So it does as long as no call has failed: then the tags of a version tell  *)
(* of its last promotion, and the tag of the other stage is never taken.      *)
RestoresReplacedUnlessFailed ==
  [][\A o \in Operators :
       Restores(o) /\ Orderly(stage[o]) /\ failures = 0 =>
         previous[o] = replaced[stage[o]][version[o]]]_vars

(* "refusing to roll back a concurrent promotion": a rollback told which      *)
(* version to expect takes the alias from that version only.                  *)
RollbackRefusesConcurrent ==
  [][\A o \in Operators :
       Restores(o) /\ expected[o] # None =>
         alias[stage[o]] = expected[o]]_vars

================================================================================
