---------------------------- MODULE ReleaseLifecycle ----------------------------
(***************************************************************************)
(* What becomes of a promoted version: it is exported into a release       *)
(* directory (pipelines/export_model_bundle.py), rolled out to Kubernetes  *)
(* (pipelines/rollout_model.py), or loaded by alias into a server          *)
(* (app/services/model_provider.py), while operators go on promoting and   *)
(* rolling back in the registry of ModelRegistry.                          *)
(*                                                                         *)
(* A release directory is Absent, Partial, or the version whose model it   *)
(* holds; its report and its metadata are those of the version it is named *)
(* after.  A rollout is a process of the operator Guard: on failure it     *)
(* undoes the deployment's last revision and then runs the rollback of     *)
(* ModelRegistry.                                                          *)
(***************************************************************************)
EXTENDS ModelRegistry

CONSTANTS
  Readers,      \* processes of export_model_bundle, and servers loading by alias
  Guard,        \* the operator that is a rollout
  Absent,       \* no release directory
  Partial,      \* a release directory without its content
  MaxFaults,    \* bound: failed calls and mishaps together
  MaxAtOnce     \* bound: processes at work at the same time

ASSUME GuardAssumption == Guard \in Operators

\* stage not in {"staging", "production"} is refused.
ASSUME ProductionAssumption == Stages = {"staging", "production"}

ASSUME DirectoryAssumption ==
  /\ {Absent, Partial} \cap Versions = {} /\ Absent # Partial
  /\ MaxFaults \in Nat /\ MaxAtOnce \in Nat

VARIABLES
  bundle,       \* release directories
  reader,       \* what every reader is doing, and whether it exports or serves
  cluster,      \* the deployment's version, and that of its revision before
  rollout       \* the rollout process

release == <<bundle, reader, cluster, rollout>>
allVars == <<vars, release>>

Production == "production"

Asleep == [pc |-> "idle", exports |-> FALSE, from |-> None, label |-> None, model |-> None]
\* History: what was deployed before, and whether production was left in peace then.
NoRun  == [pc |-> "idle", version |-> None, was |-> None, calm |-> FALSE, started |-> FALSE, errors |-> FALSE]

RolloutSteps == {"build", "patch", "await", "undo", "registry", "restoring"}

\* None yet, or ready; an error that reports agreement; another error.
Outcomes == {"idle", "restored", "failed"}

ReleaseTypeOK ==
  /\ TypeOK
  /\ bundle \in [Versions -> Versions \cup {Absent, Partial}]
  /\ reader \in [Readers -> [pc: {"idle", "resolved", "loaded", "writing"},
                             exports: BOOLEAN, from: Stages \cup {None}, label: Marked, model: Marked]]
  /\ cluster \in [now: Marked, before: Marked]
  /\ rollout \in [pc: RolloutSteps \cup Outcomes, version: Marked, was: Marked,
                  calm: BOOLEAN, started: BOOLEAN, errors: BOOLEAN]

\* The deployment starts with the image of any release, or one built locally.
ReleaseInit ==
  /\ Init
  /\ bundle = [v \in Versions |-> Absent]
  /\ reader = [r \in Readers |-> Asleep]
  /\ cluster \in [now: Marked, before: {None}]
  /\ rollout = NoRun

-------------------------------------------------------------------------------
\* Mutant of Acceptable: export does not ask for approval.
AcceptableUnapproved(v, exports) == v \in validated

\* The tags an exporter asks for, and those a server asks for.
Acceptable(v, exports) == v \in validated /\ (exports => standing[v] = Production)

\* get_model_version_by_alias: the version, with its tags.
Resolve(r, s, exports) ==
  /\ reader[r].pc = "idle"
  /\ alias[s] # None /\ Acceptable(alias[s], exports)
  /\ reader' = [reader EXCEPT ![r] = [Asleep EXCEPT !.pc = "resolved", !.exports = exports,
                                                   !.from = s, !.label = alias[s]]]
  /\ UNCHANGED <<vars, bundle, cluster, rollout>>

\* load_model("models:/name@alias") resolves the alias once more.
Named(r) == alias[reader[r].from]

LoadModel(r) ==
  /\ reader[r].pc = "resolved"
  /\ Named(r) # None
  /\ LET label == IF reader[r].exports THEN reader[r].label ELSE None IN
     reader' = [reader EXCEPT ![r] =
                  [@ EXCEPT !.pc = "loaded", !.model = Named(r), !.from = None, !.label = label]]
  /\ UNCHANGED <<vars, bundle, cluster, rollout>>

\* A call fails, a check of the model or the report does, or a server is stopped.
GiveUp(r) ==
  /\ reader[r].pc \in {"resolved", "loaded"}
  /\ reader' = [reader EXCEPT ![r] = Asleep]
  /\ UNCHANGED <<vars, bundle, cluster, rollout>>

\* Mutant of Vacant: an existing directory is written into.
VacantOrNot(v) == TRUE

Vacant(v) == bundle[v] = Absent

\* mkdir with exist_ok=False; a directory that exists is refused.
MakeDirectory(r) ==
  LET v == reader[r].label IN
  /\ reader[r].pc = "loaded" /\ reader[r].exports
  /\ IF Vacant(v)
     THEN /\ bundle' = [bundle EXCEPT ![v] = Partial]
          /\ reader' = [reader EXCEPT ![r].pc = "writing"]
     ELSE /\ reader' = [reader EXCEPT ![r] = Asleep]
          /\ UNCHANGED bundle
  /\ UNCHANGED <<vars, cluster, rollout>>

\* The directory is filled; removed again when that fails; or left when killed.
EndExport(r) ==
  LET v == reader[r].label IN
  /\ reader[r].pc = "writing"
  /\ \E content \in {reader[r].model, Absent, Partial} : bundle' = [bundle EXCEPT ![v] = content]
  /\ reader' = [reader EXCEPT ![r] = Asleep]
  /\ UNCHANGED <<vars, cluster, rollout>>

-------------------------------------------------------------------------------
\* Mutant of Recoverable: the predecessor is not asked for.
RecoverableAlways(v) == TRUE

\* "Production rollout requires a previously promoted version".
Recoverable(v) == Recorded(v, Production) \notin {None, NoTag}

\* _bundle_metadata and _validate_registry_release.
StartRollout(v) ==
  /\ rollout.pc \in Outcomes
  /\ bundle[v] \in Versions
  /\ alias[Production] = v /\ standing[v] = Production /\ Recoverable(v)
  /\ rollout' = [NoRun EXCEPT !.pc = "build", !.version = v, !.was = cluster.now,
                                 !.calm = ~ Working(Production)]
  /\ UNCHANGED <<vars, bundle, reader, cluster>>

RolloutGoes(place) == rollout' = [rollout EXCEPT !.pc = place]

RolloutEnds(outcome) == rollout' = [NoRun EXCEPT !.pc = outcome]

\* podman build, podman save, kind load.
Build ==
  /\ rollout.pc = "build"
  /\ RolloutGoes("patch") \/ RolloutGoes("registry")
  /\ UNCHANGED <<vars, bundle, reader, cluster>>

\* The image is named by its content: patching to the one deployed is no revision.
Patched(v) == IF cluster.now = v THEN cluster ELSE [now |-> v, before |-> cluster.now]

\* Mutant of Applied: rollout_started is set after the readiness check.
AppliedLate == [rollout EXCEPT !.pc = "await"]

\* The patch went through; what follows is kubectl rollout status.
Applied == [rollout EXCEPT !.pc = "await", !.started = TRUE]

Patch ==
  /\ rollout.pc = "patch"
  /\ \/ cluster' = Patched(rollout.version) /\ rollout' = Applied
     \/ RolloutGoes("registry") /\ UNCHANGED cluster
  /\ UNCHANGED <<vars, bundle, reader>>

\* kubectl reports a failure although the patch took effect.
PatchUnacknowledged ==
  /\ rollout.pc = "patch"
  /\ mishaps < MaxMishaps
  /\ mishaps' = mishaps + 1
  /\ cluster' = Patched(rollout.version)
  /\ RolloutGoes("registry")
  /\ UNCHANGED <<registry, session, history, started, failures, bundle, reader>>

\* Ready, or not within the timeout.
Await ==
  /\ rollout.pc = "await"
  /\ \/ RolloutEnds("idle")
     \/ RolloutGoes(IF rollout.started THEN "undo" ELSE "registry")
  /\ UNCHANGED <<vars, bundle, reader, cluster>>

\* kubectl rollout undo and status; undo may fail, or status after it.
Undo ==
  /\ rollout.pc = "undo"
  /\ \E done, errors \in BOOLEAN :
       /\ done \/ errors
       /\ cluster' = IF done THEN [now |-> cluster.before, before |-> cluster.now] ELSE cluster
       /\ rollout' = [rollout EXCEPT !.pc = "registry", !.errors = errors]
  /\ UNCHANGED <<vars, bundle, reader>>

\* rollback_registered_model, expecting the version of the bundle.
RestoreRegistry ==
  /\ rollout.pc = "registry"
  /\ StartRollback(Guard, Production, rollout.version)
  /\ RolloutGoes("restoring")
  /\ UNCHANGED <<bundle, reader, cluster>>

\* The message of the ModelRolloutError, when the registry's rollback succeeds: "registry and
\* Kubernetes restored", or "the deployment remained unchanged".
Told == IF rollout.errors THEN "failed" ELSE "restored"

RegistryRollback ==
  /\ rollout.pc = "restoring"
  /\ \/ AuditRollback(Guard) /\ RolloutEnds(Told)
     \/ /\ \/ ReadCurrent(Guard)
           \/ LookUpPrevious(Guard)
           \/ RestorePrevious(Guard)
           \/ RollbackFails(Guard)
           \/ RevertRollback(Guard)
        /\ IF pc'[Guard] = "idle" THEN RolloutEnds("failed") ELSE UNCHANGED rollout
  /\ UNCHANGED <<bundle, reader, cluster>>

\* The rollout is killed at any step.
KillRollout ==
  /\ rollout.pc \in RolloutSteps
  /\ mishaps < MaxMishaps
  /\ mishaps' = mishaps + 1
  /\ Finish(Guard)
  /\ rollout' = NoRun
  /\ UNCHANGED <<registry, history, started, failures, bundle, reader, cluster>>

\* Training and the other operators.
RegistryStep ==
  /\ \/ \E v \in Versions : Validate(v)
     \/ \E o \in Operators \ {Guard} : Promotion(o) \/ Rollback(o) \/ Abort(o)
  /\ UNCHANGED <<bundle, reader, cluster, rollout>>

ReleaseAction ==
  \/ RegistryStep
  \/ \E r \in Readers, s \in Stages, exports \in BOOLEAN : Resolve(r, s, exports)
  \/ \E r \in Readers : LoadModel(r) \/ GiveUp(r) \/ MakeDirectory(r) \/ EndExport(r)
  \/ \E v \in Versions : StartRollout(v)
  \/ Build
  \/ Patch
  \/ PatchUnacknowledged
  \/ Await
  \/ Undo
  \/ RestoreRegistry
  \/ RegistryRollback
  \/ KillRollout

\* A server counts until it is stopped.
AtWork ==
  Cardinality({o \in Operators \ {Guard} : pc[o] # "idle"})
  + Cardinality({r \in Readers : reader[r].pc # "idle"})
  + (IF rollout.pc \in RolloutSteps THEN 1 ELSE 0)

ReleaseNext == ReleaseAction /\ failures' + mishaps' <= MaxFaults /\ AtWork' <= MaxAtOnce

ReleaseSpec == ReleaseInit /\ [][ReleaseNext]_allVars

-------------------------------------------------------------------------------
(* The second reading of an alias is checked by nobody: the model in a server *)
(* or a release directory may be another one than the tags were read of, but  *)
(* never one that was not validated.                                          *)
LoadedValidated ==
  /\ \A r \in Readers : reader[r].model # None => reader[r].model \in validated
  /\ \A v \in Versions : bundle[v] \in Versions => bundle[v] \in validated

(* Whatever alias export is given, it names a directory only after a version  *)
(* that had the production alias, and puts in it only a model a promotion     *)
(* gave an alias.  That is all: an alias that moves between the two readings  *)
(* puts one version's model beside another's tags, threshold and report, and  *)
(* a staging alias even the model of a version that never was in production.  *)
BundlesWerePromoted ==
  \A v \in Versions :
    /\ bundle[v] # Absent => v \in held[Production]
    /\ bundle[v] \in Versions => bundle[v] \in held["staging"] \cup held[Production]

(* While nobody works on production, its version carries the approval tag     *)
(* that export and rollout ask for, unless it was promoted to staging too:    *)
(* both stages share the tag.  Nobody was killed, and one operator at a time  *)
(* worked on production.                                                      *)
ApprovalShared ==
  LET v == alias[Production] IN
  Orderly(Production) /\ ~ Working(Production) /\ v \notin held["staging"] \cup {None} =>
    standing[v] = Production

(* A release directory, once complete, is never changed: no two exports write *)
(* into the same one.                                                         *)
ReleasesImmutable ==
  [][\A v \in Versions : bundle[v] \in Versions => bundle'[v] = bundle[v]]_allVars

(* A rollout that reports registry and deployment restored, or the deployment *)
(* unchanged, leaves the two in agreement, if the version it replaced in the  *)
(* cluster was the one recorded as the predecessor, nobody was killed, one    *)
(* operator at a time worked on production, and no call that was reported as  *)
(* failed took effect.  A patch that did is beyond it: rollout_model.py then  *)
(* restores the registry, says "deployment was unchanged", and is wrong.      *)
RestoredTogether ==
  [][rollout.pc = "restoring" /\ rollout'.pc = "restored"
       /\ Orderly(Production) /\ previous[Guard] = rollout.was
       => cluster'.now = alias'[Production]]_allVars

(* A rollback the guard began is never refused for want of a predecessor: the *)
(* rollout made sure of one before it touched anything.  It did not if a      *)
(* promotion was writing its tags then: what it read may be of another stage, *)
(* and the promotion puts "none" in its place.  Nor does it hold once anybody *)
(* was killed, or two operators worked on production at a time.               *)
RollbackStaysPossible ==
  [][pc[Guard] = "lookup" /\ rollout'.pc = "failed" /\ rollout.calm => ~ Orderly(Production)]_allVars

================================================================================
