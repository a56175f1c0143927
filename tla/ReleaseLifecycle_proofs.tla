------------------------ MODULE ReleaseLifecycle_proofs ------------------------
(***************************************************************************)
(* Theorems about ReleaseLifecycle, for every number of versions, readers  *)
(* and operators and every bound.  A release step is a step of the         *)
(* registry, leaves the registry alone, or is a mishap of the rollout; so  *)
(* what ModelRegistry_proofs shows of the registry carries over.           *)
(***************************************************************************)
EXTENDS ReleaseLifecycle, ModelRegistry_proofs

\* A process that read an alias has a stage and a version; a loaded model is one.
ReadersKnow ==
  \A r \in Readers :
    /\ reader[r].pc = "resolved" => reader[r].from \in Stages
    /\ reader[r].exports => reader[r].label \in Versions
    /\ reader[r].pc \in {"loaded", "writing"} => reader[r].model \in Versions
    /\ reader[r].pc = "writing" => reader[r].exports

RolloutKnows == rollout.pc \in RolloutSteps => rollout.version \in Versions

ReleaseTypeInv == TypeInv /\ ReleaseTypeOK /\ ReadersKnow /\ RolloutKnows

LEMMA ReleaseTypeInit == ReleaseInit => ReleaseTypeInv
<1> SUFFICES ASSUME ReleaseInit PROVE ReleaseTypeInv
  OBVIOUS
<1>1. TypeInv
  BY TypeInvInit DEF ReleaseInit
<1> QED
  BY <1>1 DEF ReleaseInit, ReleaseTypeInv, ReleaseTypeOK, ReadersKnow, RolloutKnows, TypeInv,
              Asleep, NoRun, Marked, RolloutSteps, Outcomes

-------------------------------------------------------------------------------
\* The rollout is killed, or told of a failure that was none.
Mishap ==
  /\ mishaps < MaxMishaps
  /\ mishaps' = mishaps + 1
  /\ UNCHANGED <<registry, history, started, failures>>
  /\ UNCHANGED session \/ Finish(Guard)

\* What a release step does to the registry.
LEMMA RegistryMoves == ReleaseTypeInv /\ [ReleaseNext]_allVars => [Next]_vars \/ Mishap
<1> SUFFICES ASSUME ReleaseTypeInv, [ReleaseNext]_allVars PROVE [Next]_vars \/ Mishap
  OBVIOUS
<1>1. CASE RegistryStep
  BY <1>1 DEF RegistryStep, Next
<1>2. CASE RestoreRegistry
  <2>1. rollout.version \in Marked
    BY DEF ReleaseTypeInv, ReleaseTypeOK
  <2> QED
    BY <1>2, <2>1, GuardAssumption, ProductionAssumption DEF RestoreRegistry, Production, Next, Rollback
<1>3. CASE RegistryRollback
  BY <1>3, GuardAssumption DEF RegistryRollback, Next, Rollback
<1>4. CASE KillRollout
  BY <1>4 DEF KillRollout, Mishap
<1>5. CASE PatchUnacknowledged
  BY <1>5 DEF PatchUnacknowledged, Mishap
<1>6. CASE \/ \E r \in Readers, s \in Stages, exports \in BOOLEAN : Resolve(r, s, exports)
           \/ \E r \in Readers : LoadModel(r) \/ GiveUp(r) \/ MakeDirectory(r) \/ EndExport(r)
           \/ \E v \in Versions : StartRollout(v)
           \/ Build \/ Patch \/ Await \/ Undo
  BY <1>6 DEF Resolve, LoadModel, GiveUp, MakeDirectory, EndExport, StartRollout, Build, Patch, Await, Undo
<1>7. CASE UNCHANGED allVars
  BY <1>7 DEF allVars
<1> QED
  BY <1>1, <1>2, <1>3, <1>4, <1>5, <1>6, <1>7 DEF ReleaseNext, ReleaseAction

LEMMA TypeInvMishap == TypeInv /\ Mishap => TypeInv'
<1> SUFFICES ASSUME TypeInv, Mishap PROVE TypeInv'
  OBVIOUS
<1> USE GuardAssumption DEF TypeInv, TypeOK, SessionsKnow, Marked, Promoting, RollingBack
<1>1. UNCHANGED <<registry, history, started, failures>>
  BY DEF Mishap
<1>2. mishaps' \in 0..MaxMishaps
  BY BoundsAssumption DEF Mishap
<1>3. CASE UNCHANGED session
  BY <1>1, <1>2, <1>3 DEF registry, history, session, task
<1>4. CASE Finish(Guard)
  BY <1>1, <1>2, <1>4 DEF registry, history, Finish, Go
<1> QED
  BY <1>3, <1>4 DEF Mishap

LEMMA RegistryTyped == ReleaseTypeInv /\ [ReleaseNext]_allVars => TypeInv'
BY RegistryMoves, TypeInvNext, TypeInvMishap DEF ReleaseTypeInv

LEMMA ReleaseTypeNext == ReleaseTypeInv /\ [ReleaseNext]_allVars => ReleaseTypeInv'
<1> SUFFICES ASSUME ReleaseTypeInv, [ReleaseNext]_allVars PROVE ReleaseTypeInv'
  OBVIOUS
<1>1. TypeInv'
  BY RegistryTyped
<1> DEFINE Rest == /\ bundle \in [Versions -> Versions \cup {Absent, Partial}]
                   /\ reader \in [Readers -> [pc: {"idle", "resolved", "loaded", "writing"}, exports: BOOLEAN,
                                              from: Stages \cup {None}, label: Marked, model: Marked]]
                   /\ cluster \in [now: Marked, before: Marked]
                   /\ rollout \in [pc: RolloutSteps \cup Outcomes, version: Marked, was: Marked,
                                   calm: BOOLEAN, started: BOOLEAN, errors: BOOLEAN]
                   /\ ReadersKnow /\ RolloutKnows
<1>2. SUFFICES Rest'
  BY <1>1, <1>2 DEF ReleaseTypeInv, ReleaseTypeOK, TypeInv
<1>3. Rest /\ alias \in [Stages -> Marked]
  BY DEF ReleaseTypeInv, ReleaseTypeOK, TypeInv, TypeOK
<1> HIDE DEF Rest
<1> USE <1>3, MarksAssumption DEF Rest, ReadersKnow, RolloutKnows
<1>4. ASSUME NEW r \in Readers, NEW s \in Stages, NEW exports \in BOOLEAN, Resolve(r, s, exports) PROVE Rest'
  <2> DEFINE new == [Asleep EXCEPT !.pc = "resolved", !.exports = exports, !.from = s, !.label = alias[s]]
  <2>1. reader' = [reader EXCEPT ![r] = new] /\ UNCHANGED <<bundle, cluster, rollout>>
    BY <1>4 DEF Resolve
  <2>2. alias[s] \in Versions
    BY <1>4 DEF Resolve, Marked
  <2>3. new \in [pc: {"idle", "resolved", "loaded", "writing"}, exports: BOOLEAN,
                 from: Stages \cup {None}, label: Marked, model: Marked]
    BY <2>2 DEF Asleep, Marked
  <2>4. new.pc = "resolved" /\ new.from = s /\ new.label = alias[s]
    BY DEF Asleep
  <2> HIDE DEF new
  <2> QED
    BY <2>1, <2>2, <2>3, <2>4
<1>5. ASSUME NEW r \in Readers, LoadModel(r) PROVE Rest'
  <2> DEFINE label == IF reader[r].exports THEN reader[r].label ELSE None
             new == [reader[r] EXCEPT !.pc = "loaded", !.model = Named(r), !.from = None, !.label = label]
  <2>1. reader' = [reader EXCEPT ![r] = new] /\ UNCHANGED <<bundle, cluster, rollout>>
    BY <1>5 DEF LoadModel
  <2>2. Named(r) \in Versions
    BY <1>5 DEF LoadModel, Named, Marked
  <2>3. new \in [pc: {"idle", "resolved", "loaded", "writing"}, exports: BOOLEAN,
                 from: Stages \cup {None}, label: Marked, model: Marked]
    <3>1. label \in Marked
      BY DEF Marked
    <3>2. reader[r] \in [pc: {"idle", "resolved", "loaded", "writing"}, exports: BOOLEAN,
                        from: Stages \cup {None}, label: Marked, model: Marked]
      OBVIOUS
    <3> HIDE DEF label, Rest, ReadersKnow, RolloutKnows
    <3> QED
      BY <2>2, <3>1, <3>2 DEF Marked
  <2>4. new.pc = "loaded" /\ (new.exports => new.label \in Versions) /\ new.model \in Versions
    BY <2>2
  <2> QED
    BY <2>1, <2>3, <2>4
<1>6. ASSUME NEW r \in Readers, GiveUp(r) PROVE Rest'
  BY <1>6 DEF GiveUp, Asleep, Marked
<1>7. ASSUME NEW r \in Readers, MakeDirectory(r) PROVE Rest'
  <2>1. CASE Vacant(reader[r].label)
    <3>1. /\ bundle' = [bundle EXCEPT ![reader[r].label] = Partial] /\ reader' = [reader EXCEPT ![r].pc = "writing"]
          /\ reader[r].pc = "loaded" /\ reader[r].exports /\ UNCHANGED <<cluster, rollout>>
      BY <1>7, <2>1 DEF MakeDirectory
    <3> QED
      BY <3>1
  <2>2. CASE ~Vacant(reader[r].label)
    <3>1. reader' = [reader EXCEPT ![r] = Asleep] /\ UNCHANGED <<bundle, cluster, rollout>>
      BY <1>7, <2>2 DEF MakeDirectory
    <3> QED
      BY <3>1 DEF Asleep, Marked
  <2> QED
    BY <2>1, <2>2
<1>8. ASSUME NEW r \in Readers, EndExport(r) PROVE Rest'
  BY <1>8 DEF EndExport, Asleep, Marked
<1>9. ASSUME NEW v \in Versions, StartRollout(v) PROVE Rest'
  BY <1>9 DEF StartRollout, NoRun, Marked, RolloutSteps, Outcomes
<1>10. CASE Build
  BY <1>10 DEF Build, RolloutGoes, RolloutSteps, Outcomes
<1>11. CASE Patch
  <2>1. CASE cluster' = Patched(rollout.version) /\ rollout' = Applied
    BY <1>11, <2>1 DEF Patch, Patched, Applied, Marked, RolloutSteps, Outcomes
  <2>2. CASE RolloutGoes("registry") /\ UNCHANGED cluster
    BY <1>11, <2>2 DEF Patch, RolloutGoes, RolloutSteps, Outcomes
  <2> QED
    BY <1>11, <2>1, <2>2 DEF Patch
<1>12. CASE PatchUnacknowledged
  BY <1>12 DEF PatchUnacknowledged, Patched, RolloutGoes, Marked, RolloutSteps, Outcomes
<1>13. CASE Await
  <2>1. UNCHANGED <<bundle, reader, cluster>>
    BY <1>13 DEF Await
  <2>2. CASE RolloutEnds("idle")
    BY <2>1, <2>2 DEF RolloutEnds, NoRun, Marked, RolloutSteps, Outcomes
  <2>3. CASE RolloutGoes(IF rollout.started THEN "undo" ELSE "registry")
    BY <1>13, <2>1, <2>3 DEF Await, RolloutGoes, RolloutSteps, Outcomes
  <2> QED
    BY <1>13, <2>2, <2>3 DEF Await
<1>14. CASE Undo
  <2>1. PICK done \in BOOLEAN, errors \in BOOLEAN :
          /\ cluster' = IF done THEN [now |-> cluster.before, before |-> cluster.now] ELSE cluster
          /\ rollout' = [rollout EXCEPT !.pc = "registry", !.errors = errors]
    BY <1>14 DEF Undo
  <2>2. cluster' \in [now: Marked, before: Marked]
    BY <2>1
  <2>3. /\ rollout' \in [pc: RolloutSteps \cup Outcomes, version: Marked, was: Marked,
                         calm: BOOLEAN, started: BOOLEAN, errors: BOOLEAN]
        /\ rollout'.version = rollout.version
    BY <2>1 DEF RolloutSteps, Outcomes
  <2> QED
    BY <1>14, <2>2, <2>3 DEF Undo, RolloutSteps
<1>15. CASE RestoreRegistry
  BY <1>15 DEF RestoreRegistry, RolloutGoes, Marked, RolloutSteps, Outcomes
<1>16. CASE RegistryRollback
  <2>1. UNCHANGED <<bundle, reader, cluster>>
    BY <1>16 DEF RegistryRollback
  <2>2. UNCHANGED rollout \/ \E outcome \in {"restored", "failed"} : RolloutEnds(outcome)
    BY <1>16 DEF RegistryRollback, Told
  <2>3. ASSUME NEW outcome \in {"restored", "failed"}, RolloutEnds(outcome) PROVE Rest'
    <3>1. rollout' = [pc |-> outcome, version |-> None, was |-> None, calm |-> FALSE, started |-> FALSE, errors |-> FALSE]
      BY <2>3 DEF RolloutEnds, NoRun
    <3> QED
      BY <2>1, <3>1 DEF Marked, RolloutSteps, Outcomes
  <2> QED
    BY <2>1, <2>2, <2>3
<1>17. CASE KillRollout
  BY <1>17 DEF KillRollout, NoRun, Marked, RolloutSteps, Outcomes
<1>18. CASE RegistryStep
  BY <1>18 DEF RegistryStep
<1>19. CASE UNCHANGED allVars
  BY <1>19 DEF allVars, release
<1> HIDE DEF Rest, ReadersKnow, RolloutKnows
<1> QED
  BY <1>4, <1>5, <1>6, <1>7, <1>8, <1>9, <1>10, <1>11, <1>12, <1>13, <1>14, <1>15, <1>16, <1>17, <1>18, <1>19
     DEF ReleaseNext, ReleaseAction

\* Every variable of releases, readers, cluster and rollout keeps its type.
THEOREM ReleaseTyped == ReleaseSpec => []ReleaseTypeOK
<1>1. ReleaseTypeInv => ReleaseTypeOK
  BY DEF ReleaseTypeInv
<1> QED
  BY <1>1, ReleaseTypeInit, ReleaseTypeNext, PTL DEF ReleaseSpec

-------------------------------------------------------------------------------
(***************************************************************************)
(* What is loaded was validated.  The second reading of the alias is a     *)
(* version the alias names, which is sound by SoundInv of the registry,    *)
(* and a sound version stays so.                                           *)
(***************************************************************************)
SoundModels ==
  /\ \A r \in Readers : reader[r].model \in Sound \cup {None}
  /\ \A v \in Versions : bundle[v] \in Sound \cup {Absent, Partial}

LoadedInv == SoundInv /\ ReleaseTypeInv /\ SoundModels

LEMMA LoadedInvInit == ReleaseInit => LoadedInv
<1> SUFFICES ASSUME ReleaseInit PROVE LoadedInv
  OBVIOUS
<1>1. SoundInv /\ ReleaseTypeInv
  BY SoundInvInit, ReleaseTypeInit DEF ReleaseInit
<1>2. SoundModels
  BY DEF ReleaseInit, SoundModels, Asleep
<1> QED
  BY <1>1, <1>2 DEF LoadedInv

LEMMA SoundInvMishap == SoundInv /\ Mishap => SoundInv' /\ Sound' = Sound
<1> SUFFICES ASSUME SoundInv, Mishap PROVE SoundInv' /\ Sound' = Sound
  OBVIOUS
<1>1. TypeInv'
  BY TypeInvMishap DEF SoundInv
<1>2. UNCHANGED <<alias, standing, validated, previousIn, previousAny>>
  BY DEF Mishap, registry
<1>3. Sound' = Sound
  BY <1>2 DEF Sound
<1>4. SoundAliases' /\ SoundTags'
  BY <1>2, <1>3 DEF SoundInv, SoundAliases, SoundTags
<1>5. SoundTasks'
  <2>1. CASE UNCHANGED session
    BY <1>3, <2>1 DEF SoundInv, SoundTasks, session, task
  <2>2. CASE Finish(Guard)
    BY <1>3, <2>2 DEF SoundInv, SoundTasks, TypeInv, TypeOK, Finish, Go
  <2> QED
    BY <2>1, <2>2 DEF Mishap
<1> QED
  BY <1>1, <1>3, <1>4, <1>5 DEF SoundInv

LEMMA LoadedInvNext == LoadedInv /\ [ReleaseNext]_allVars => LoadedInv'
<1> SUFFICES ASSUME LoadedInv, [ReleaseNext]_allVars PROVE LoadedInv'
  OBVIOUS
<1>1. [Next]_vars \/ Mishap
  BY RegistryMoves DEF LoadedInv
<1>2. SoundInv' /\ Sound \subseteq Sound'
  BY <1>1, SoundInvNext, SoundGrows, SoundInvMishap DEF LoadedInv, SoundInv
<1>3. ReleaseTypeInv'
  BY ReleaseTypeNext DEF LoadedInv
<1>4. SUFFICES SoundModels'
  BY <1>2, <1>3 DEF LoadedInv
<1>5. /\ SoundModels
      /\ DOMAIN reader = Readers /\ DOMAIN bundle = Versions
      /\ \A r \in Readers : DOMAIN reader[r] = {"pc", "exports", "from", "label", "model"}
  BY DEF LoadedInv, ReleaseTypeInv, ReleaseTypeOK
<1> USE <1>2, <1>5 DEF SoundModels
<1>6. ASSUME NEW r \in Readers, NEW s \in Stages, NEW exports \in BOOLEAN, Resolve(r, s, exports)
      PROVE SoundModels'
  BY <1>6 DEF Resolve, Asleep
<1>7. ASSUME NEW r \in Readers, LoadModel(r) PROVE SoundModels'
  <2>1. alias[reader[r].from] \in Sound
    BY <1>7 DEF LoadedInv, SoundInv, SoundAliases, ReleaseTypeInv, ReadersKnow, LoadModel, Named
  <2> QED
    BY <1>7, <2>1 DEF LoadModel, Named
<1>8. ASSUME NEW r \in Readers, GiveUp(r) PROVE SoundModels'
  BY <1>8 DEF GiveUp, Asleep
<1>9. ASSUME NEW r \in Readers, MakeDirectory(r) PROVE SoundModels'
  <2>1. CASE Vacant(reader[r].label)
    BY <1>9, <2>1 DEF MakeDirectory
  <2>2. CASE ~Vacant(reader[r].label)
    BY <1>9, <2>2 DEF MakeDirectory, Asleep
  <2> QED
    BY <2>1, <2>2
<1>10. ASSUME NEW r \in Readers, EndExport(r) PROVE SoundModels'
  <2>1. reader[r].model \in Sound
    BY <1>10, MarksAssumption DEF LoadedInv, ReleaseTypeInv, ReadersKnow, EndExport
  <2> QED
    BY <1>10, <2>1 DEF EndExport, Asleep
<1>11. CASE UNCHANGED <<bundle, reader>>
  BY <1>11
<1>12. CASE \/ \E v \in Versions : StartRollout(v)
            \/ Build \/ Patch \/ PatchUnacknowledged \/ Await \/ Undo
            \/ RestoreRegistry \/ RegistryRollback \/ KillRollout \/ RegistryStep
  BY <1>11, <1>12 DEF StartRollout, Build, Patch, PatchUnacknowledged, Await, Undo, RestoreRegistry, RegistryRollback,
                      KillRollout, RegistryStep
<1>13. CASE UNCHANGED allVars
  BY <1>11, <1>13 DEF allVars, release
<1> QED
  BY <1>6, <1>7, <1>8, <1>9, <1>10, <1>12, <1>13 DEF ReleaseNext, ReleaseAction

(* A model in a server or a release directory was validated, although the    *)
(* alias may have moved between its two readings.                            *)
THEOREM OnlyValidatedLoaded == ReleaseSpec => []LoadedValidated
<1>1. LoadedInv => LoadedValidated
  BY DirectoryAssumption DEF LoadedInv, SoundModels, Sound, LoadedValidated
<1> QED
  BY <1>1, LoadedInvInit, LoadedInvNext, PTL DEF ReleaseSpec

-------------------------------------------------------------------------------
(***************************************************************************)
(* Release directories are written once.  A directory in the making is     *)
(* marked by Partial, and no two exporters have made the same one.         *)
(***************************************************************************)
Writers == {r \in Readers : reader[r].pc = "writing"}

OneWriter ==
  \A r \in Writers :
    /\ bundle[reader[r].label] = Partial
    /\ \A q \in Writers : reader[q].label = reader[r].label => q = r

WriterInv == ReleaseTypeInv /\ OneWriter

LEMMA WriterInvInit == ReleaseInit => WriterInv
<1> SUFFICES ASSUME ReleaseInit PROVE WriterInv
  OBVIOUS
<1>1. Writers = {}
  BY DEF ReleaseInit, Writers, Asleep
<1> QED
  BY <1>1, ReleaseTypeInit DEF WriterInv, OneWriter

\* A step that neither writes a directory nor makes an exporter start leaves both as they are.
LEMMA OthersKeepDirectories ==
  ASSUME ReleaseTypeInv, [ReleaseNext]_allVars,
         \A r \in Readers : ~MakeDirectory(r) /\ ~EndExport(r)
  PROVE  /\ UNCHANGED bundle
         /\ \A r \in Readers : reader'[r].pc = "writing" <=> reader[r].pc = "writing"
         /\ \A r \in Readers : reader[r].pc = "writing" => reader'[r] = reader[r]
<1> DEFINE Kept == /\ UNCHANGED bundle
                   /\ \A r \in Readers : reader'[r].pc = "writing" <=> reader[r].pc = "writing"
                   /\ \A r \in Readers : reader[r].pc = "writing" => reader'[r] = reader[r]
<1>1. /\ DOMAIN reader = Readers
      /\ \A r \in Readers : DOMAIN reader[r] = {"pc", "exports", "from", "label", "model"}
  BY DEF ReleaseTypeInv, ReleaseTypeOK
<1>2. ASSUME NEW r \in Readers, NEW s \in Stages, NEW exports \in BOOLEAN, Resolve(r, s, exports) PROVE Kept
  BY <1>1, <1>2 DEF Resolve, Asleep
<1>3. ASSUME NEW r \in Readers, LoadModel(r) PROVE Kept
  BY <1>1, <1>3 DEF LoadModel
<1>4. ASSUME NEW r \in Readers, GiveUp(r) PROVE Kept
  BY <1>1, <1>4 DEF GiveUp, Asleep
<1>5. CASE UNCHANGED <<bundle, reader>>
  BY <1>5
<1>6. CASE \/ \E v \in Versions : StartRollout(v)
           \/ Build \/ Patch \/ PatchUnacknowledged \/ Await \/ Undo
           \/ RestoreRegistry \/ RegistryRollback \/ KillRollout \/ RegistryStep
  BY <1>5, <1>6 DEF StartRollout, Build, Patch, PatchUnacknowledged, Await, Undo, RestoreRegistry, RegistryRollback,
                    KillRollout, RegistryStep
<1>7. CASE UNCHANGED allVars
  BY <1>5, <1>7 DEF allVars, release
<1> QED
  BY <1>2, <1>3, <1>4, <1>6, <1>7 DEF ReleaseNext, ReleaseAction

LEMMA WriterInvNext == WriterInv /\ [ReleaseNext]_allVars => WriterInv'
<1> SUFFICES ASSUME WriterInv, [ReleaseNext]_allVars PROVE OneWriter'
  BY ReleaseTypeNext DEF WriterInv
<1>1. /\ OneWriter
      /\ reader \in [Readers -> [pc: {"idle", "resolved", "loaded", "writing"}, exports: BOOLEAN,
                                 from: Stages \cup {None}, label: Marked, model: Marked]]
      /\ bundle \in [Versions -> Versions \cup {Absent, Partial}]
      /\ \A r \in Readers : reader[r].exports => reader[r].label \in Versions
      /\ \A r \in Readers : reader[r].pc = "writing" => reader[r].exports
  BY DEF WriterInv, ReleaseTypeInv, ReleaseTypeOK, ReadersKnow
<1>2. ASSUME NEW r \in Readers, MakeDirectory(r) PROVE OneWriter'
  <2>1. CASE Vacant(reader[r].label)
    <3>1. /\ bundle' = [bundle EXCEPT ![reader[r].label] = Partial]
          /\ reader' = [reader EXCEPT ![r].pc = "writing"]
          /\ bundle[reader[r].label] = Absent /\ reader[r].label \in Versions
      BY <1>1, <1>2, <2>1 DEF MakeDirectory, Vacant
    <3>2. \A q \in Writers : reader[q].label # reader[r].label
      BY <1>1, <3>1, DirectoryAssumption DEF OneWriter, Writers
    <3>3. Writers' = Writers \cup {r}
      BY <1>1, <3>1 DEF Writers
    <3> QED
      BY <1>1, <3>1, <3>2, <3>3 DEF OneWriter, Writers
  <2>2. CASE ~Vacant(reader[r].label)
    BY <1>1, <1>2, <2>2 DEF MakeDirectory, OneWriter, Writers, Asleep
  <2> QED
    BY <2>1, <2>2
<1>3. ASSUME NEW r \in Readers, EndExport(r) PROVE OneWriter'
  <2>1. /\ \E content \in {reader[r].model, Absent, Partial} :
              bundle' = [bundle EXCEPT ![reader[r].label] = content]
        /\ reader' = [reader EXCEPT ![r] = Asleep] /\ r \in Writers
    BY <1>3 DEF EndExport, Writers
  <2>2. Writers' = Writers \ {r}
    BY <1>1, <2>1 DEF Writers, Asleep
  <2>3. \A q \in Writers' : reader'[q] = reader[q] /\ bundle'[reader[q].label] = bundle[reader[q].label]
    BY <1>1, <2>1, <2>2 DEF OneWriter, Writers
  <2> QED
    BY <1>1, <2>2, <2>3 DEF OneWriter
<1>4. CASE \A r \in Readers : ~MakeDirectory(r) /\ ~EndExport(r)
  <2>1. /\ UNCHANGED bundle /\ Writers' = Writers
        /\ \A r \in Writers : reader'[r] = reader[r]
    BY <1>4, OthersKeepDirectories DEF WriterInv, Writers
  <2> QED
    BY <1>1, <2>1 DEF OneWriter
<1> QED
  BY <1>2, <1>3, <1>4

(* A complete release directory is never changed, whatever exports run at the *)
(* same time, fail or are killed.                                             *)
THEOREM ReleasesStand == ReleaseSpec => ReleasesImmutable
<1>1. WriterInv /\ [ReleaseNext]_allVars =>
        [\A v \in Versions : bundle[v] \in Versions => bundle'[v] = bundle[v]]_allVars
  <2> SUFFICES ASSUME WriterInv, [ReleaseNext]_allVars, NEW v \in Versions, bundle[v] \in Versions
               PROVE bundle'[v] = bundle[v]
    OBVIOUS
  <2>1. bundle[v] \notin {Absent, Partial} /\ bundle \in [Versions -> Versions \cup {Absent, Partial}]
    BY DirectoryAssumption DEF WriterInv, ReleaseTypeInv, ReleaseTypeOK
  <2>2. ASSUME NEW r \in Readers, MakeDirectory(r) PROVE bundle'[v] = bundle[v]
    BY <2>1, <2>2 DEF MakeDirectory, Vacant
  <2>3. ASSUME NEW r \in Readers, EndExport(r) PROVE bundle'[v] = bundle[v]
    BY <2>1, <2>3 DEF EndExport, WriterInv, OneWriter, Writers
  <2>4. CASE \A r \in Readers : ~MakeDirectory(r) /\ ~EndExport(r)
    BY <2>4, OthersKeepDirectories DEF WriterInv
  <2> QED
    BY <2>2, <2>3, <2>4
<1> QED
  BY <1>1, WriterInvInit, WriterInvNext, PTL DEF ReleaseSpec, ReleasesImmutable

-------------------------------------------------------------------------------
(***************************************************************************)
(* What is exported was promoted.  An exporter asks for the tag of         *)
(* production, which only a promotion writes that has given the version    *)
(* the alias before; so its directory is named after a version that had    *)
(* the production alias.  The model is the one the alias names by then.    *)
(* Whatever an alias names, a tag records or an operator remembers to put  *)
(* back is a version that some promotion gave an alias: Given.  Neither    *)
(* held nor Given ever shrinks, whatever becomes of tags and aliases.      *)
(***************************************************************************)
TagsFollowAlias ==
  /\ \A v \in Versions : standing[v] = Production => v \in held[Production]
  /\ \A o \in Operators : pc[o] = "tagStanding" => version[o] \in held[stage[o]]

Given == held["staging"] \cup held[Production]

GivenAliases == \A s \in Stages : alias[s] \in Given \cup {None}

GivenTags ==
  \A v \in Versions :
    /\ previousAny[v] \in Given \cup {None, NoTag}
    /\ \A s \in Stages : previousIn[v][s] \in Given \cup {None, NoTag}

GivenTasks ==
  \A o \in Operators :
    /\ previous[o] \in Given \cup {None}
    /\ pc[o] \in RollingBack \ {"current"} => version[o] \in Given

GivenAll == GivenAliases /\ GivenTags /\ GivenTasks

PromotedExports ==
  /\ \A r \in Readers : reader[r].exports => reader[r].label \in held[Production]
  /\ \A r \in Readers : reader[r].model \in Given \cup {None}
  /\ BundlesWerePromoted

PromotedInv == ReleaseTypeInv /\ TagsFollowAlias /\ GivenAll /\ PromotedExports

LEMMA PromotedInvInit == ReleaseInit => PromotedInv
<1> SUFFICES ASSUME ReleaseInit PROVE PromotedInv
  OBVIOUS
<1>1. TagsFollowAlias
  BY StagesAssumption, ProductionAssumption DEF ReleaseInit, Init, TagsFollowAlias, Production
<1>2. GivenAll
  BY DEF ReleaseInit, Init, GivenAll, GivenAliases, GivenTags, GivenTasks, RollingBack
<1>3. PromotedExports
  BY DirectoryAssumption DEF ReleaseInit, PromotedExports, BundlesWerePromoted, Asleep
<1> QED
  BY <1>1, <1>2, <1>3, ReleaseTypeInit DEF PromotedInv

\* Promotions only add to held, and only MoveAlias does.
LEMMA HeldGrows ==
  ASSUME TypeInv, [Next]_vars \/ Mishap
  PROVE  \A s \in Stages : held[s] \subseteq held'[s]
<1> USE DEF TypeInv, TypeOK
<1>1. ASSUME NEW o \in Operators, MoveAlias(o) PROVE \A s \in Stages : held[s] \subseteq held'[s]
  BY <1>1 DEF MoveAlias
<1>2. CASE UNCHANGED held
  BY <1>2
<1>3. ASSUME NEW o \in Operators, Promotion(o), ~MoveAlias(o) PROVE UNCHANGED held
  BY <1>3 DEF Promotion, StartPromotion, TakeUp, CheckVersion, PeekAlias, TagStanding, TagAny, TagIn, TagRest,
              PromotionFails, RevertPromotion, history
<1>4. ASSUME NEW o \in Operators, Rollback(o) PROVE UNCHANGED held
  BY <1>4 DEF Rollback, StartRollback, TakeUp, ReadCurrent, LookUpPrevious, RestorePrevious, AuditRollback,
              RollbackFails, RevertRollback, history
<1>5. ASSUME NEW v \in Versions, Validate(v) PROVE UNCHANGED held
  BY <1>5 DEF Validate, history
<1>6. ASSUME NEW o \in Operators, Abort(o) PROVE UNCHANGED held
  BY <1>6 DEF Abort, history
<1>7. ASSUME Mishap \/ UNCHANGED vars PROVE UNCHANGED held
  BY <1>7 DEF Mishap, vars, history
<1> QED
  BY <1>1, <1>2, <1>3, <1>4, <1>5, <1>6, <1>7 DEF Next

LEMMA TagsFollowAliasNext ==
  TypeInv /\ TagsFollowAlias /\ ([Next]_vars \/ Mishap) => TagsFollowAlias'
<1> SUFFICES ASSUME TypeInv, TagsFollowAlias, [Next]_vars \/ Mishap PROVE TagsFollowAlias'
  OBVIOUS
<1>1. \A s \in Stages : held[s] \subseteq held'[s]
  BY HeldGrows
<1> USE <1>1, StagesAssumption, ProductionAssumption, GuardAssumption
    DEF TagsFollowAlias, Production, TypeInv, TypeOK, SessionsKnow, registry, history, task, session, Go, Finish
<1>2. ASSUME NEW v \in Versions, Validate(v) PROVE TagsFollowAlias'
  BY <1>2 DEF Validate
<1>3. ASSUME NEW o \in Operators, MoveAlias(o) PROVE TagsFollowAlias'
  BY <1>3 DEF MoveAlias
<1>4. ASSUME NEW o \in Operators, TagStanding(o) PROVE TagsFollowAlias'
  BY <1>4 DEF TagStanding
<1> DEFINE Kept == \A q \in Operators : pc'[q] = "tagStanding" =>
                     pc[q] = "tagStanding" /\ version'[q] = version[q] /\ stage'[q] = stage[q]
<1>5. ASSUME NEW o \in Operators, Promotion(o), ~MoveAlias(o), ~TagStanding(o) PROVE TagsFollowAlias'
  <2>1. UNCHANGED standing
    BY <1>5 DEF Promotion, StartPromotion, TakeUp, CheckVersion, PeekAlias, TagAny, TagIn, TagRest,
                PromotionFails, RevertPromotion
  <2>2. Kept
    <3>1. ASSUME NEW s \in Stages, NEW u \in Versions, StartPromotion(o, s, u) PROVE Kept
      BY <3>1 DEF StartPromotion, TakeUp
    <3>2. CASE CheckVersion(o)
      BY <3>2 DEF CheckVersion
    <3>3. CASE PeekAlias(o)
      BY <3>3 DEF PeekAlias
    <3>4. CASE TagAny(o) \/ TagIn(o) \/ PromotionFails(o)
      BY <3>4 DEF TagAny, TagIn, PromotionFails
    <3>5. CASE TagRest(o) \/ RevertPromotion(o)
      BY <3>5 DEF TagRest, RevertPromotion
    <3> QED
      BY <1>5, <3>1, <3>2, <3>3, <3>4, <3>5 DEF Promotion
  <2> QED
    BY <2>1, <2>2
<1>6. ASSUME NEW o \in Operators, Rollback(o) PROVE TagsFollowAlias'
  <2>1. UNCHANGED standing
    BY <1>6 DEF Rollback, StartRollback, TakeUp, ReadCurrent, LookUpPrevious, RestorePrevious, AuditRollback,
                RollbackFails, RevertRollback
  <2>2. Kept
    <3>1. ASSUME NEW s \in Stages, NEW u \in Marked, StartRollback(o, s, u) PROVE Kept
      BY <3>1 DEF StartRollback, TakeUp
    <3>2. CASE ReadCurrent(o)
      BY <3>2 DEF ReadCurrent
    <3>3. CASE LookUpPrevious(o)
      BY <3>3 DEF LookUpPrevious
    <3>4. CASE RestorePrevious(o) \/ RollbackFails(o)
      BY <3>4 DEF RestorePrevious, RollbackFails
    <3>5. CASE AuditRollback(o) \/ RevertRollback(o)
      BY <3>5 DEF AuditRollback, RevertRollback
    <3> QED
      BY <1>6, <3>1, <3>2, <3>3, <3>4, <3>5 DEF Rollback
  <2> QED
    BY <2>1, <2>2
<1>7. ASSUME NEW o \in Operators, Abort(o) PROVE TagsFollowAlias'
  BY <1>7 DEF Abort
<1>8. CASE Mishap
  <2>1. CASE UNCHANGED session
    BY <1>8, <2>1 DEF Mishap
  <2>2. CASE Finish(Guard)
    BY <1>8, <2>2 DEF Mishap
  <2> QED
    BY <1>8, <2>1, <2>2 DEF Mishap
<1>9. CASE UNCHANGED vars
  BY <1>9 DEF vars
<1> QED
  BY <1>2, <1>3, <1>4, <1>5, <1>6, <1>7, <1>8, <1>9 DEF Next

LEMMA GivenNext ==
  TypeInv /\ GivenAll /\ ([Next]_vars \/ Mishap) => GivenAll'
<1> SUFFICES ASSUME TypeInv, GivenAll, [Next]_vars \/ Mishap PROVE GivenAll'
  OBVIOUS
<1>1. Given \subseteq Given'
  BY HeldGrows, ProductionAssumption DEF Given, Production
<1> USE <1>1 DEF GivenAll, GivenAliases, GivenTags, GivenTasks, TypeInv, TypeOK, SessionsKnow, RollingBack,
                 registry, history, bounds, task, session, Go, Finish
<1>2. ASSUME NEW v \in Versions, Validate(v) PROVE GivenAll'
  BY <1>2 DEF Validate
<1>3. ASSUME NEW o \in Operators, NEW s \in Stages, NEW v \in Versions, StartPromotion(o, s, v) PROVE GivenAll'
  BY <1>3 DEF StartPromotion, TakeUp
<1>4. ASSUME NEW o \in Operators, CheckVersion(o) PROVE GivenAll'
  <2>1. CASE Finish(o)
    BY <1>4, <2>1 DEF CheckVersion
  <2>2. CASE Go(o, "peek") /\ UNCHANGED task
    BY <1>4, <2>2 DEF CheckVersion
  <2> QED
    BY <1>4, <2>1, <2>2 DEF CheckVersion
<1>5. ASSUME NEW o \in Operators, PeekAlias(o) PROVE GivenAll'
  <2>1. CASE Finish(o)
    BY <1>5, <2>1 DEF PeekAlias
  <2>2. CASE Go(o, "move") /\ previous' = [previous EXCEPT ![o] = alias[stage[o]]]
    BY <1>5, <2>2 DEF PeekAlias
  <2> QED
    BY <1>5, <2>1, <2>2 DEF PeekAlias
<1>6. ASSUME NEW o \in Operators, MoveAlias(o) PROVE GivenAll'
  <2>1. version[o] \in held'[stage[o]] /\ stage[o] \in {"staging", Production}
    BY <1>6, ProductionAssumption DEF MoveAlias, Production
  <2>2. version[o] \in Given'
    BY <2>1 DEF Given
  <2> QED
    BY <1>6, <2>2 DEF MoveAlias
<1>7. ASSUME NEW o \in Operators, TagStanding(o) \/ TagAny(o) \/ TagIn(o) \/ TagRest(o) PROVE GivenAll'
  <2>1. CASE TagStanding(o)
    BY <1>7, <2>1 DEF TagStanding
  <2>2. CASE TagAny(o)
    BY <1>7, <2>2 DEF TagAny
  <2>3. CASE TagIn(o)
    BY <1>7, <2>3 DEF TagIn
  <2>4. CASE TagRest(o)
    BY <1>7, <2>4 DEF TagRest
  <2> QED
    BY <1>7, <2>1, <2>2, <2>3, <2>4
<1>8. ASSUME NEW o \in Operators, PromotionFails(o) \/ RevertPromotion(o) PROVE GivenAll'
  <2>1. CASE PromotionFails(o)
    BY <2>1 DEF PromotionFails
  <2>2. CASE RevertPromotion(o)
    <3>1. GivenAliases'
      BY <2>2 DEF RevertPromotion, PutBack
    <3>2. GivenTags' /\ GivenTasks'
      BY <2>2 DEF RevertPromotion
    <3> QED
      BY <3>1, <3>2
  <2> QED
    BY <1>8, <2>1, <2>2
<1>9. ASSUME NEW o \in Operators, NEW s \in Stages, NEW v \in Marked, StartRollback(o, s, v) PROVE GivenAll'
  BY <1>9 DEF StartRollback, TakeUp
<1>10. ASSUME NEW o \in Operators, ReadCurrent(o) PROVE GivenAll'
  <2>1. CASE Finish(o)
    BY <1>10, <2>1 DEF ReadCurrent
  <2>2. CASE Go(o, "lookup") /\ version' = [version EXCEPT ![o] = alias[stage[o]]]
    BY <1>10, <2>2 DEF ReadCurrent
  <2> QED
    BY <1>10, <2>1, <2>2 DEF ReadCurrent
<1>11. ASSUME NEW o \in Operators, LookUpPrevious(o) PROVE GivenAll'
  <2>1. CASE Finish(o)
    BY <1>11, <2>1 DEF LookUpPrevious
  <2>2. CASE Go(o, "restore") /\ previous' = [previous EXCEPT ![o] = Recorded(version[o], stage[o])]
    BY <1>11, <2>2 DEF LookUpPrevious, NoPredecessor, Recorded
  <2> QED
    BY <1>11, <2>1, <2>2 DEF LookUpPrevious
<1>12. ASSUME NEW o \in Operators, RestorePrevious(o) \/ AuditRollback(o) PROVE GivenAll'
  <2>1. CASE RestorePrevious(o)
    BY <2>1 DEF RestorePrevious
  <2>2. CASE AuditRollback(o)
    BY <2>2 DEF AuditRollback
  <2> QED
    BY <1>12, <2>1, <2>2
<1>13. ASSUME NEW o \in Operators, RollbackFails(o) \/ RevertRollback(o) PROVE GivenAll'
  <2>1. CASE RollbackFails(o)
    BY <2>1 DEF RollbackFails
  <2>2. CASE RevertRollback(o)
    <3>1. GivenAliases'
      BY <2>2 DEF RevertRollback, PutBack
    <3>2. GivenTags' /\ GivenTasks'
      BY <2>2 DEF RevertRollback
    <3> QED
      BY <3>1, <3>2
  <2> QED
    BY <1>13, <2>1, <2>2
<1>14. ASSUME NEW o \in Operators, Abort(o) PROVE GivenAll'
  BY <1>14 DEF Abort
<1>15. CASE Mishap
  <2>1. CASE UNCHANGED session
    BY <1>15, <2>1 DEF Mishap
  <2>2. CASE Finish(Guard)
    BY <1>15, <2>2 DEF Mishap
  <2> QED
    BY <1>15, <2>1, <2>2 DEF Mishap
<1>16. CASE UNCHANGED vars
  BY <1>16 DEF vars
<1> QED
  BY <1>2, <1>3, <1>4, <1>5, <1>6, <1>7, <1>8, <1>9, <1>10, <1>11, <1>12, <1>13, <1>14, <1>15, <1>16
     DEF Next, Promotion, Rollback

LEMMA PromotedInvNext == PromotedInv /\ [ReleaseNext]_allVars => PromotedInv'
<1> SUFFICES ASSUME PromotedInv, [ReleaseNext]_allVars PROVE PromotedInv'
  OBVIOUS
<1>1. ReleaseTypeInv'
  BY ReleaseTypeNext DEF PromotedInv
<1>2. TypeInv /\ ([Next]_vars \/ Mishap)
  BY RegistryMoves DEF PromotedInv, ReleaseTypeInv
<1>3. TagsFollowAlias' /\ GivenAll'
  BY <1>2, TagsFollowAliasNext, GivenNext DEF PromotedInv
<1>4. held[Production] \subseteq held'[Production] /\ Given \subseteq Given'
  BY <1>2, HeldGrows, ProductionAssumption DEF Production, Given
<1>5. SUFFICES PromotedExports'
  BY <1>1, <1>3 DEF PromotedInv
<1>6. /\ PromotedExports /\ TagsFollowAlias
      /\ reader \in [Readers -> [pc: {"idle", "resolved", "loaded", "writing"}, exports: BOOLEAN,
                                 from: Stages \cup {None}, label: Marked, model: Marked]]
      /\ bundle \in [Versions -> Versions \cup {Absent, Partial}]
      /\ \A r \in Readers : reader[r].exports => reader[r].label \in Versions
      /\ \A r \in Readers : reader[r].pc = "writing" => reader[r].exports
  BY DEF PromotedInv, ReleaseTypeInv, ReleaseTypeOK, ReadersKnow
<1> USE <1>4, <1>6, DirectoryAssumption DEF PromotedExports, BundlesWerePromoted, Given
<1>7. ASSUME NEW r \in Readers, NEW s \in Stages, NEW exports \in BOOLEAN, Resolve(r, s, exports)
      PROVE PromotedExports'
  <2>1. exports => alias[s] \in held[Production]
    BY <1>2, <1>7 DEF Resolve, Acceptable, TagsFollowAlias, TypeInv, TypeOK
  <2> QED
    BY <1>7, <2>1 DEF Resolve, Asleep
<1>8. ASSUME NEW r \in Readers, LoadModel(r) PROVE PromotedExports'
  <2>1. alias[reader[r].from] \in Given
    BY <1>8 DEF PromotedInv, GivenAll, GivenAliases, ReleaseTypeInv, ReadersKnow, LoadModel, Named
  <2> QED
    BY <1>8, <2>1 DEF LoadModel, Named
<1>9. ASSUME NEW r \in Readers, GiveUp(r) PROVE PromotedExports'
  BY <1>9 DEF GiveUp, Asleep
<1>10. ASSUME NEW r \in Readers, MakeDirectory(r) PROVE PromotedExports'
  <2>1. CASE Vacant(reader[r].label)
    <3>1. /\ bundle' = [bundle EXCEPT ![reader[r].label] = Partial]
          /\ reader' = [reader EXCEPT ![r].pc = "writing"]
          /\ reader[r].exports
      BY <1>10, <2>1 DEF MakeDirectory
    <3> QED
      BY <3>1
  <2>2. CASE ~Vacant(reader[r].label)
    <3>1. reader' = [reader EXCEPT ![r] = Asleep] /\ UNCHANGED bundle
      BY <1>10, <2>2 DEF MakeDirectory
    <3> QED
      BY <3>1 DEF Asleep
  <2> QED
    BY <2>1, <2>2
<1>11. ASSUME NEW r \in Readers, EndExport(r) PROVE PromotedExports'
  <2>1. reader[r].model \in Given /\ reader[r].label \in held[Production]
    BY <1>11, MarksAssumption DEF PromotedInv, ReleaseTypeInv, ReadersKnow, EndExport
  <2> QED
    BY <1>11, <2>1 DEF EndExport, Asleep
<1>12. CASE UNCHANGED <<bundle, reader>>
  BY <1>12
<1>13. CASE \/ \E v \in Versions : StartRollout(v)
            \/ Build \/ Patch \/ PatchUnacknowledged \/ Await \/ Undo
            \/ RestoreRegistry \/ RegistryRollback \/ KillRollout \/ RegistryStep
  BY <1>12, <1>13 DEF StartRollout, Build, Patch, PatchUnacknowledged, Await, Undo, RestoreRegistry, RegistryRollback,
                      KillRollout, RegistryStep
<1>14. CASE UNCHANGED allVars
  BY <1>12, <1>14 DEF allVars, release
<1> QED
  BY <1>7, <1>8, <1>9, <1>10, <1>11, <1>13, <1>14 DEF ReleaseNext, ReleaseAction

(* Whatever alias export is given and however it moves, every directory is    *)
(* named after a version that had the production alias, and every model in    *)
(* one is of a version that had an alias.                                     *)
THEOREM OnlyPromotedExported == ReleaseSpec => []BundlesWerePromoted
<1>1. PromotedInv => BundlesWerePromoted
  BY DEF PromotedInv, PromotedExports
<1> QED
  BY <1>1, PromotedInvInit, PromotedInvNext, PTL DEF ReleaseSpec

-------------------------------------------------------------------------------
(***************************************************************************)
(* The registry's invariant AliasInv holds in a release too: a mishap of   *)
(* the rollout is the end of order.                                        *)
(***************************************************************************)
LEMMA AliasInvRelease == ReleaseTypeInv /\ AliasInv /\ [ReleaseNext]_allVars => AliasInv'
<1> SUFFICES ASSUME ReleaseTypeInv, AliasInv, [ReleaseNext]_allVars PROVE AliasInv'
  OBVIOUS
<1>1. CASE [Next]_vars
  BY <1>1, AliasInvNext
<1>2. CASE Mishap
  <2>1. TypeInv'
    BY RegistryTyped
  <2>2. \A s \in Stages : ~ Orderly(s)'
    BY <1>2 DEF Mishap, Orderly, AliasInv, TypeInv, TypeOK
  <2>3. IdleIsFree'
    <3>1. CASE UNCHANGED session
      BY <3>1 DEF session, task, AliasInv, IdleIsFree
    <3>2. CASE Finish(Guard)
      BY <3>2 DEF Finish, Go, AliasInv, IdleIsFree, TypeInv, TypeOK
    <3> QED
      BY <1>2, <3>1, <3>2 DEF Mishap
  <2> QED
    BY <2>1, <2>2, <2>3 DEF AliasInv
<1> QED
  BY <1>1, <1>2, RegistryMoves

\* While production stays orderly, a release step is one of the registry.
LEMMA OrderlyRelease ==
  ASSUME ReleaseTypeInv, [ReleaseNext]_allVars, Orderly(Production)'
  PROVE  [Next]_vars /\ Orderly(Production) /\ \A o \in Operators : ~ Abort(o)
<1>1. ~ Mishap
  BY DEF Mishap, Orderly, ReleaseTypeInv, TypeInv, TypeOK
<1>2. [Next]_vars /\ TypeInv /\ Production \in Stages
  BY <1>1, RegistryMoves, ProductionAssumption DEF ReleaseTypeInv, Production
<1> QED
  BY <1>2, OrderlyBefore

-------------------------------------------------------------------------------
(***************************************************************************)
(* The tag that export and rollout ask for.  A version is approved if it   *)
(* has the tag of production, or had the staging alias, whose promotion    *)
(* writes the same tag.  Approved versions stay so.  While production is   *)
(* orderly, whatever is recorded, remembered or named by an alias is       *)
(* approved, but for the version a promotion has given the production      *)
(* alias and not yet the tag, or is about to take it from again.           *)
(***************************************************************************)
Approved == {v \in Versions : standing[v] = Production} \cup held["staging"]

ApprovedTags ==
  /\ \A v \in Versions, s \in Stages : previousIn[v][s] \in Approved \cup {None, NoTag}
  /\ \A v \in Versions : previousAny[v] \in Approved \cup {None, NoTag}

ApprovedTasks ==
  \A o \in Operators :
    /\ previous[o] \in Approved \cup {None}
    /\ pc[o] \in {"lookup", "restore", "audit", "unrestore"} => version[o] \in Approved

Undecided(o) == stage[o] = Production /\ pc[o] \in {"tagStanding", "revert"}

ApprovedAliases ==
  /\ alias["staging"] \in Approved \cup {None}
  /\ alias[Production] \in Approved \cup {None} \/ \E o \in Operators : Undecided(o)

ApprovedAll == ApprovedTags /\ ApprovedTasks /\ ApprovedAliases

ApprovedInv ==
  /\ ReleaseTypeInv /\ AliasInv /\ TagsFollowAlias
  /\ Orderly(Production) => ApprovedAll

LEMMA ApprovedInvInit == ReleaseInit => ApprovedInv
<1> SUFFICES ASSUME ReleaseInit PROVE ApprovedInv
  OBVIOUS
<1>1. ReleaseTypeInv /\ AliasInv /\ TagsFollowAlias
  BY ReleaseTypeInit, AliasInvInit, PromotedInvInit DEF PromotedInv, ReleaseInit
<1>2. ApprovedAll
  BY ProductionAssumption
     DEF ReleaseInit, Init, ApprovedAll, ApprovedTags, ApprovedTasks, ApprovedAliases, Production
<1> QED
  BY <1>1, <1>2 DEF ApprovedInv

LEMMA ApprovedGrows ==
  ASSUME TypeInv, TagsFollowAlias, [Next]_vars
  PROVE  Approved \subseteq Approved'
<1>1. held["staging"] \subseteq held'["staging"]
  BY HeldGrows, ProductionAssumption
<1> USE <1>1, ProductionAssumption DEF Approved, Production, TypeInv, TypeOK
<1>2. ASSUME NEW v \in Versions, Validate(v) PROVE Approved \subseteq Approved'
  BY <1>2 DEF Validate
<1>3. ASSUME NEW o \in Operators, TagStanding(o) PROVE Approved \subseteq Approved'
  <2>1. version[o] \in Versions /\ stage[o] \in Stages
    BY <1>3 DEF TagStanding, SessionsKnow, Promoting
  <2>2. standing' = [standing EXCEPT ![version[o]] = stage[o]]
    BY <1>3 DEF TagStanding
  <2>3. stage[o] = "staging" => version[o] \in held["staging"]
    BY <1>3 DEF TagStanding, TagsFollowAlias
  <2> QED
    BY <2>1, <2>2, <2>3
<1>4. ASSUME UNCHANGED standing PROVE Approved \subseteq Approved'
  BY <1>4
<1>5. ASSUME NEW o \in Operators, Promotion(o), ~TagStanding(o) PROVE UNCHANGED standing
  BY <1>5 DEF Promotion, StartPromotion, TakeUp, CheckVersion, PeekAlias, MoveAlias, TagAny, TagIn, TagRest,
              PromotionFails, RevertPromotion, registry
<1>6. ASSUME NEW o \in Operators, Rollback(o) PROVE UNCHANGED standing
  BY <1>6 DEF Rollback, StartRollback, TakeUp, ReadCurrent, LookUpPrevious, RestorePrevious, AuditRollback,
              RollbackFails, RevertRollback, registry
<1>7. ASSUME NEW o \in Operators, Abort(o) PROVE UNCHANGED standing
  BY <1>7 DEF Abort, registry
<1>8. ASSUME UNCHANGED vars PROVE UNCHANGED standing
  BY <1>8 DEF vars, registry
<1> QED
  BY <1>2, <1>3, <1>4, <1>5, <1>6, <1>7, <1>8 DEF Next

LEMMA ApprovedNext ==
  ASSUME AliasInv, TagsFollowAlias, ApprovedAll, [Next]_vars, Orderly(Production), 
         \A o \in Operators : ~ Abort(o)
  PROVE  ApprovedAll'
<1>1. TypeInv /\ Production \in Stages /\ "staging" \in Stages /\ Stages = {"staging", Production}
      /\ Production # "staging"
  BY ProductionAssumption DEF AliasInv, Production
<1>2. Approved \subseteq Approved'
  BY <1>1, ApprovedGrows
<1>3. Tidy(Production)
  BY <1>1 DEF AliasInv
<1>4. ASSUME NEW o \in Operators, stage[o] \in Stages, ~ Undecided(o)
      PROVE  alias[stage[o]] \in Approved \cup {None}
  BY <1>1, <1>3, <1>4 DEF ApprovedAll, ApprovedAliases, Tidy, Alone, Undecided
<1> USE <1>1, <1>2, MarksAssumption, StagesAssumption
    DEF ApprovedAll, ApprovedTags, ApprovedTasks, ApprovedAliases, Undecided, TypeInv, TypeOK, SessionsKnow, Marked,
        Go, Finish, registry, task, session, history
<1>5. ASSUME NEW v \in Versions, Validate(v) PROVE ApprovedAll'
  BY <1>5 DEF Validate
<1>6. ASSUME NEW o \in Operators, NEW s \in Stages, NEW v \in Versions, StartPromotion(o, s, v) PROVE ApprovedAll'
  BY <1>6 DEF StartPromotion, TakeUp
<1>7. ASSUME NEW o \in Operators, CheckVersion(o) PROVE ApprovedAll'
  BY <1>7 DEF CheckVersion
<1>8. ASSUME NEW o \in Operators, PeekAlias(o) PROVE ApprovedAll'
  <2>1. CASE Finish(o)
    BY <1>8, <2>1 DEF PeekAlias
  <2>2. CASE Go(o, "move") /\ previous' = [previous EXCEPT ![o] = alias[stage[o]]] /\ UNCHANGED version
    <3>1. alias[stage[o]] \in Approved \cup {None}
      BY <1>4, <1>8 DEF PeekAlias, Promoting
    <3> QED
      BY <1>8, <2>2, <3>1 DEF PeekAlias
  <2> QED
    BY <1>8, <2>1, <2>2 DEF PeekAlias
<1>9. ASSUME NEW o \in Operators, MoveAlias(o) PROVE ApprovedAll'
  BY <1>9 DEF MoveAlias, Approved
<1>10. ASSUME NEW o \in Operators, TagStanding(o) PROVE ApprovedAll'
  <2>1. /\ pc[o] = "tagStanding" /\ version[o] \in Versions /\ stage[o] \in Stages
        /\ standing' = [standing EXCEPT ![version[o]] = stage[o]]
        /\ pc' = [pc EXCEPT ![o] = "tagAny"]
        /\ UNCHANGED <<task, alias, previousIn, previousAny>>
    BY <1>10 DEF TagStanding, Promoting
  <2>2. ApprovedTags' /\ ApprovedTasks' /\ alias'["staging"] \in Approved' \cup {None}
    BY <2>1
  <2>3. CASE stage[o] = Production
    <3>1. alias[Production] = version[o]
      BY <1>3, <2>1, <2>3 DEF Tidy, Knows, Tagging
    <3>2. alias'[Production] \in Approved'
      BY <2>1, <2>3, <3>1 DEF Approved
    <3> QED
      BY <2>2, <3>2
  <2>4. CASE stage[o] # Production
    BY <2>1, <2>2, <2>4
  <2> QED
    BY <2>3, <2>4
<1>11. ASSUME NEW o \in Operators, TagAny(o) \/ TagIn(o) PROVE ApprovedAll'
  BY <1>11 DEF TagAny, TagIn
<1>12. ASSUME NEW o \in Operators, TagRest(o) PROVE ApprovedAll'
  BY <1>12 DEF TagRest
<1>13. ASSUME NEW o \in Operators, PromotionFails(o) PROVE ApprovedAll'
  BY <1>13 DEF PromotionFails
<1>14. ASSUME NEW o \in Operators, RevertPromotion(o) PROVE ApprovedAll'
  BY <1>14 DEF RevertPromotion, PutBack
<1>15. ASSUME NEW o \in Operators, NEW s \in Stages, NEW v \in Marked, StartRollback(o, s, v) PROVE ApprovedAll'
  BY <1>15 DEF StartRollback, TakeUp
<1>16. ASSUME NEW o \in Operators, ReadCurrent(o) PROVE ApprovedAll'
  <2>1. CASE Finish(o)
    BY <1>16, <2>1 DEF ReadCurrent
  <2>2. CASE /\ Go(o, "lookup") /\ UNCHANGED <<stage, previous>> /\ alias[stage[o]] # None
             /\ version' = [version EXCEPT ![o] = alias[stage[o]]]
    <3>1. alias[stage[o]] \in Approved
      BY <1>4, <1>16, <2>2 DEF ReadCurrent, RollingBack
    <3> QED
      BY <1>16, <2>2, <3>1 DEF ReadCurrent
  <2> QED
    BY <1>16, <2>1, <2>2 DEF ReadCurrent
<1>17. ASSUME NEW o \in Operators, LookUpPrevious(o) PROVE ApprovedAll'
  <2>1. CASE Finish(o)
    BY <1>17, <2>1 DEF LookUpPrevious
  <2>2. CASE /\ Go(o, "restore") /\ UNCHANGED <<stage, version>>
             /\ previous' = [previous EXCEPT ![o] = Recorded(version[o], stage[o])]
             /\ ~ NoPredecessor(Recorded(version[o], stage[o]))
    <3>1. version[o] \in Versions /\ stage[o] \in Stages /\ version[o] \in Approved /\ pc[o] = "lookup"
      BY <1>17 DEF LookUpPrevious, RollingBack
    <3>2. Recorded(version[o], stage[o]) \in Approved
      BY <2>2, <3>1 DEF Recorded, NoPredecessor
    <3> HIDE DEF Recorded
    <3> QED
      BY <1>17, <2>2, <3>1, <3>2 DEF LookUpPrevious
  <2> QED
    BY <1>17, <2>1, <2>2 DEF LookUpPrevious
<1>18. ASSUME NEW o \in Operators, RestorePrevious(o) PROVE ApprovedAll'
  BY <1>18 DEF RestorePrevious
<1>19. ASSUME NEW o \in Operators, AuditRollback(o) PROVE ApprovedAll'
  BY <1>19 DEF AuditRollback
<1>20. ASSUME NEW o \in Operators, RollbackFails(o) PROVE ApprovedAll'
  BY <1>20 DEF RollbackFails
<1>21. ASSUME NEW o \in Operators, RevertRollback(o) PROVE ApprovedAll'
  BY <1>21 DEF RevertRollback, PutBack
<1>22. CASE UNCHANGED vars
  BY <1>22 DEF vars
<1> QED
  BY <1>5, <1>6, <1>7, <1>8, <1>9, <1>10, <1>11, <1>12, <1>13, <1>14, <1>15, <1>16, <1>17, <1>18, <1>19, <1>20,
     <1>21, <1>22 DEF Next, Promotion, Rollback

LEMMA ApprovedInvNext == ApprovedInv /\ [ReleaseNext]_allVars => ApprovedInv'
<1> SUFFICES ASSUME ApprovedInv, [ReleaseNext]_allVars PROVE ApprovedInv'
  OBVIOUS
<1>1. ReleaseTypeInv' /\ AliasInv' /\ TagsFollowAlias'
  BY ReleaseTypeNext, AliasInvRelease, RegistryMoves, TagsFollowAliasNext DEF ApprovedInv, ReleaseTypeInv
<1>2. ASSUME Orderly(Production)' PROVE ApprovedAll'
  BY <1>2, OrderlyRelease, ApprovedNext DEF ApprovedInv
<1> QED
  BY <1>1, <1>2 DEF ApprovedInv

(* While nobody works on production, its version carries the approval tag,    *)
(* unless it had the staging alias too, whose promotion takes the tag over.   *)
THEOREM ApprovalFound == ReleaseSpec => []ApprovalShared
<1>1. ApprovedInv => ApprovalShared
  <2> SUFFICES ASSUME ApprovedInv, Orderly(Production), ~ Working(Production),
                      alias[Production] \notin held["staging"] \cup {None}
               PROVE  standing[alias[Production]] = Production
    BY DEF ApprovalShared
  <2>1. alias[Production] \in Approved \cup {None}
    BY DEF ApprovedInv, ApprovedAll, ApprovedAliases, Undecided, Working
  <2> QED
    BY <2>1 DEF Approved
<1> QED
  BY <1>1, ApprovedInvInit, ApprovedInvNext, PTL DEF ReleaseSpec

-------------------------------------------------------------------------------
(***************************************************************************)
(* The way back of a rollout.  The first part is about the registry: while *)
(* production is orderly, the version it has, and every version it can     *)
(* come back to, has a predecessor recorded, even after failed calls; and  *)
(* no version is ever recorded as its own predecessor.                     *)
(***************************************************************************)
WholeTags ==
  /\ settled[Production] \in Tagged(Production) \cup {None}
  /\ \A v \in Versions : previousIn[v][Production] \in Tagged(Production) \cup {None, NoTag}
  /\ \A o \in Operators : stage[o] = Production =>
       /\ pc[o] = "tagRest" => version[o] \in Tagged(Production)
       /\ pc[o] \in {"restore", "audit"} => previous[o] \in Tagged(Production)

OtherThanItself ==
  /\ \A v \in Versions, s \in Stages : previousIn[v][s] # v
  /\ \A v \in Versions : previousAny[v] # v
  /\ \A o \in Operators : pc[o] \in {"move", "restore", "audit"} \cup Tagging => previous[o] # version[o]

LEMMA OtherThanItselfNext ==
  TypeInv /\ OtherThanItself /\ ([Next]_vars \/ Mishap) => OtherThanItself'
<1> SUFFICES ASSUME TypeInv, OtherThanItself, [Next]_vars \/ Mishap PROVE OtherThanItself'
  OBVIOUS
<1> USE MarksAssumption, GuardAssumption
    DEF OtherThanItself, TypeInv, TypeOK, SessionsKnow, Tagging, Go, Finish, registry, task, session
<1>1. ASSUME NEW v \in Versions, Validate(v) PROVE OtherThanItself'
  BY <1>1 DEF Validate
<1>2. ASSUME NEW o \in Operators, NEW s \in Stages, NEW v \in Versions, StartPromotion(o, s, v)
      PROVE  OtherThanItself'
  BY <1>2 DEF StartPromotion, TakeUp
<1>3. ASSUME NEW o \in Operators, CheckVersion(o) PROVE OtherThanItself'
  BY <1>3 DEF CheckVersion
<1>4. ASSUME NEW o \in Operators, PeekAlias(o) PROVE OtherThanItself'
  <2>1. CASE Finish(o)
    BY <1>4, <2>1 DEF PeekAlias
  <2>2. CASE alias[stage[o]] # version[o]
    BY <1>4, <2>2 DEF PeekAlias
  <2> QED
    BY <1>4, <2>1, <2>2 DEF PeekAlias
<1>5. ASSUME NEW o \in Operators, MoveAlias(o) \/ TagStanding(o) \/ PromotionFails(o) PROVE OtherThanItself'
  BY <1>5 DEF MoveAlias, TagStanding, PromotionFails
<1>6. ASSUME NEW o \in Operators, TagAny(o) PROVE OtherThanItself'
  BY <1>6 DEF TagAny
<1>7. ASSUME NEW o \in Operators, TagIn(o) PROVE OtherThanItself'
  BY <1>7 DEF TagIn
<1>8. ASSUME NEW o \in Operators, TagRest(o) PROVE OtherThanItself'
  BY <1>8 DEF TagRest
<1>9. ASSUME NEW o \in Operators, RevertPromotion(o) PROVE OtherThanItself'
  BY <1>9 DEF RevertPromotion
<1>10. ASSUME NEW o \in Operators, NEW s \in Stages, NEW v \in Marked, StartRollback(o, s, v)
       PROVE  OtherThanItself'
  BY <1>10 DEF StartRollback, TakeUp
<1>11. ASSUME NEW o \in Operators, ReadCurrent(o) PROVE OtherThanItself'
  BY <1>11 DEF ReadCurrent
<1>12. ASSUME NEW o \in Operators, LookUpPrevious(o) PROVE OtherThanItself'
  <2>1. CASE Finish(o)
    BY <1>12, <2>1 DEF LookUpPrevious
  <2>2. CASE /\ Go(o, "restore") /\ UNCHANGED version
             /\ previous' = [previous EXCEPT ![o] = Recorded(version[o], stage[o])]
    <3>1. Recorded(version[o], stage[o]) # version[o]
      BY <1>12 DEF Recorded, LookUpPrevious, RollingBack
    <3> HIDE DEF Recorded
    <3> QED
      BY <1>12, <2>2, <3>1 DEF LookUpPrevious
  <2> QED
    BY <1>12, <2>1, <2>2 DEF LookUpPrevious
<1>13. ASSUME NEW o \in Operators, RestorePrevious(o) \/ RollbackFails(o) PROVE OtherThanItself'
  BY <1>13 DEF RestorePrevious, RollbackFails
<1>14. ASSUME NEW o \in Operators, AuditRollback(o) PROVE OtherThanItself'
  BY <1>14 DEF AuditRollback
<1>15. ASSUME NEW o \in Operators, RevertRollback(o) PROVE OtherThanItself'
  BY <1>15 DEF RevertRollback
<1>16. ASSUME NEW o \in Operators, Abort(o) PROVE OtherThanItself'
  BY <1>16 DEF Abort
<1>17. CASE Mishap
  BY <1>17 DEF Mishap
<1>18. CASE UNCHANGED vars
  BY <1>18 DEF vars
<1> QED
  BY <1>1, <1>2, <1>3, <1>4, <1>5, <1>6, <1>7, <1>8, <1>9, <1>10, <1>11, <1>12, <1>13, <1>14, <1>15, <1>16, <1>17,
     <1>18 DEF Next, Promotion, Rollback

\* A tag of production is overwritten, never taken away.
LEMMA TaggedGrows ==
  ASSUME TypeInv, [Next]_vars
  PROVE  Tagged(Production) \subseteq Tagged(Production)'
<1> USE MarksAssumption DEF Tagged, TypeInv, TypeOK, Marked
<1>1. ASSUME NEW o \in Operators, TagIn(o) PROVE Tagged(Production) \subseteq Tagged(Production)'
  BY <1>1 DEF TagIn
<1>2. ASSUME UNCHANGED previousIn PROVE Tagged(Production) \subseteq Tagged(Production)'
  BY <1>2
<1>3. ASSUME NEW o \in Operators, Promotion(o), ~ TagIn(o) PROVE UNCHANGED previousIn
  BY <1>3 DEF Promotion, StartPromotion, TakeUp, CheckVersion, PeekAlias, MoveAlias, TagStanding, TagAny, TagRest,
              PromotionFails, RevertPromotion, registry
<1>4. ASSUME NEW o \in Operators, Rollback(o) PROVE UNCHANGED previousIn
  BY <1>4 DEF Rollback, StartRollback, TakeUp, ReadCurrent, LookUpPrevious, RestorePrevious, AuditRollback,
              RollbackFails, RevertRollback, registry
<1>5. ASSUME NEW v \in Versions, Validate(v) PROVE UNCHANGED previousIn
  BY <1>5 DEF Validate
<1>6. ASSUME NEW o \in Operators, Abort(o) PROVE UNCHANGED previousIn
  BY <1>6 DEF Abort, registry
<1>7. ASSUME UNCHANGED vars PROVE UNCHANGED previousIn
  BY <1>7 DEF vars, registry
<1> QED
  BY <1>1, <1>2, <1>3, <1>4, <1>5, <1>6, <1>7 DEF Next

LEMMA WholeTagsNext ==
  ASSUME AliasInv, WholeTags, [Next]_vars, Orderly(Production), \A o \in Operators : ~ Abort(o)
  PROVE  WholeTags'
<1>1. TypeInv /\ Production \in Stages
  BY ProductionAssumption DEF AliasInv, Production
<1>2. Tagged(Production) \subseteq Tagged(Production)'
  BY <1>1, TaggedGrows
<1>3. Tidy(Production)
  BY <1>1 DEF AliasInv
<1> USE <1>1, <1>2, MarksAssumption, StagesAssumption
    DEF WholeTags, TypeInv, TypeOK, SessionsKnow, Marked, Go, Finish, registry, task, session, history
<1>4. ASSUME NEW v \in Versions, Validate(v) PROVE WholeTags'
  BY <1>4 DEF Validate
<1>5. ASSUME NEW o \in Operators, NEW s \in Stages, NEW v \in Versions, StartPromotion(o, s, v) PROVE WholeTags'
  BY <1>5 DEF StartPromotion, TakeUp
<1>6. ASSUME NEW o \in Operators, CheckVersion(o) PROVE WholeTags'
  BY <1>6 DEF CheckVersion
<1>7. ASSUME NEW o \in Operators, PeekAlias(o) PROVE WholeTags'
  <2>1. CASE Finish(o)
    BY <1>7, <2>1 DEF PeekAlias
  <2>2. CASE Go(o, "move") /\ UNCHANGED <<stage, version>> /\ previous' = [previous EXCEPT ![o] = alias[stage[o]]]
    BY <1>7, <2>2 DEF PeekAlias
  <2> QED
    BY <1>7, <2>1, <2>2 DEF PeekAlias
<1>8. ASSUME NEW o \in Operators, MoveAlias(o) \/ TagStanding(o) \/ TagAny(o) \/ PromotionFails(o) PROVE WholeTags'
  BY <1>8 DEF MoveAlias, TagStanding, TagAny, PromotionFails
<1>9. ASSUME NEW o \in Operators, TagIn(o) PROVE WholeTags'
  <2>1. /\ pc[o] = "tagIn" /\ version[o] \in Versions /\ stage[o] \in Stages /\ previous[o] \in Marked
        /\ previousIn' = [previousIn EXCEPT ![version[o]][stage[o]] = previous[o]]
        /\ pc' = [pc EXCEPT ![o] = "tagRest"]
        /\ UNCHANGED <<task, settled>>
    BY <1>9 DEF TagIn, Promoting
  <2>2. CASE stage[o] = Production
    <3>1. previous[o] = settled[Production]
      BY <1>3, <2>1, <2>2 DEF Tidy, Knows, Tagging
    <3>2. version[o] \in Tagged(Production)'
      BY <2>1, <2>2 DEF Tagged
    <3>3. \A v \in Versions : previousIn'[v][Production] \in Tagged(Production)' \cup {None, NoTag}
      BY <2>1, <2>2, <3>1
    <3> QED
      BY <2>1, <3>2, <3>3
  <2>3. CASE stage[o] # Production
    BY <2>1, <2>3
  <2> QED
    BY <2>2, <2>3
<1>10. ASSUME NEW o \in Operators, TagRest(o) PROVE WholeTags'
  BY <1>10 DEF TagRest
<1>11. ASSUME NEW o \in Operators, RevertPromotion(o) PROVE WholeTags'
  BY <1>11 DEF RevertPromotion
<1>12. ASSUME NEW o \in Operators, NEW s \in Stages, NEW v \in Marked, StartRollback(o, s, v) PROVE WholeTags'
  BY <1>12 DEF StartRollback, TakeUp
<1>13. ASSUME NEW o \in Operators, ReadCurrent(o) PROVE WholeTags'
  <2>1. CASE Finish(o)
    BY <1>13, <2>1 DEF ReadCurrent
  <2>2. CASE Go(o, "lookup") /\ UNCHANGED <<stage, previous>>
             /\ version' = [version EXCEPT ![o] = alias[stage[o]]]
    BY <1>13, <2>2 DEF ReadCurrent
  <2> QED
    BY <1>13, <2>1, <2>2 DEF ReadCurrent
<1>14. ASSUME NEW o \in Operators, LookUpPrevious(o) PROVE WholeTags'
  <2>1. CASE Finish(o)
    BY <1>14, <2>1 DEF LookUpPrevious
  <2>2. CASE /\ Go(o, "restore") /\ UNCHANGED <<stage, version>>
             /\ previous' = [previous EXCEPT ![o] = Recorded(version[o], stage[o])]
             /\ ~ NoPredecessor(Recorded(version[o], stage[o]))
    <3>1. stage[o] = Production => Recorded(version[o], stage[o]) \in Tagged(Production)
      <4>1. stage[o] = Production => version[o] \in Tagged(Production)
        BY <1>3, <1>14 DEF LookUpPrevious, Tidy, Knows, RollingBack
      <4> QED
        BY <2>2, <4>1 DEF Recorded, NoPredecessor, Tagged
    <3> HIDE DEF Recorded
    <3> QED
      BY <1>14, <2>2, <3>1 DEF LookUpPrevious
  <2> QED
    BY <1>14, <2>1, <2>2 DEF LookUpPrevious
<1>15. ASSUME NEW o \in Operators, RestorePrevious(o) \/ RollbackFails(o) PROVE WholeTags'
  BY <1>15 DEF RestorePrevious, RollbackFails
<1>16. ASSUME NEW o \in Operators, AuditRollback(o) PROVE WholeTags'
  BY <1>16 DEF AuditRollback
<1>17. ASSUME NEW o \in Operators, RevertRollback(o) PROVE WholeTags'
  BY <1>17 DEF RevertRollback
<1>18. CASE UNCHANGED vars
  BY <1>18 DEF vars
<1> QED
  BY <1>4, <1>5, <1>6, <1>7, <1>8, <1>9, <1>10, <1>11, <1>12, <1>13, <1>14, <1>15, <1>16, <1>17, <1>18
     DEF Next, Promotion, Rollback

-------------------------------------------------------------------------------
(***************************************************************************)
(* The second part is about the rollout: what the guard works on in the    *)
(* registry, where the deployment is, and that the predecessor the rollout *)
(* saw is still recorded.                                                  *)
(***************************************************************************)
GuardKnows ==
  /\ pc[Guard] = "idle" <=> rollout.pc # "restoring"
  /\ pc[Guard] # "idle" =>
       /\ stage[Guard] = Production /\ expected[Guard] = rollout.version /\ pc[Guard] \in RollingBack
       /\ pc[Guard] # "current" => version[Guard] = rollout.version

PredecessorKept ==
  rollout.pc \in RolloutSteps /\ rollout.calm /\ Orderly(Production) =>
    settled[Production] \in Versions /\ previousIn[rollout.version][Production] \in Versions

ClusterKnows ==
  LET apart == rollout.was # rollout.version IN
  /\ rollout.pc \in {"build", "patch"} => cluster.now = rollout.was /\ ~ rollout.errors
  /\ rollout.pc \in {"await", "undo"} => (apart => cluster.before = rollout.was)
  /\ rollout.pc = "await" => rollout.started
  /\ rollout.pc \in {"registry", "restoring"} =>
       (apart /\ mishaps = 0 /\ ~ rollout.errors => cluster.now = rollout.was)

RecoveryInv ==
  /\ ReleaseTypeInv /\ AliasInv /\ OtherThanItself /\ GuardKnows /\ PredecessorKept /\ ClusterKnows
  /\ Orderly(Production) => WholeTags

LEMMA RecoveryInvInit == ReleaseInit => RecoveryInv
<1> SUFFICES ASSUME ReleaseInit PROVE RecoveryInv
  OBVIOUS
<1>1. ReleaseTypeInv /\ AliasInv
  BY ReleaseTypeInit, AliasInvInit DEF ReleaseInit
<1>2. OtherThanItself /\ WholeTags
  BY ProductionAssumption, MarksAssumption DEF ReleaseInit, Init, OtherThanItself, WholeTags, Production, Tagging
<1>3. GuardKnows /\ PredecessorKept /\ ClusterKnows
  BY GuardAssumption
     DEF ReleaseInit, Init, NoRun, RolloutSteps, GuardKnows, PredecessorKept, ClusterKnows
<1> QED
  BY <1>1, <1>2, <1>3 DEF RecoveryInv

\* Whatever the registry does, a predecessor recorded for a version of production stays one.
LEMMA PredecessorStays ==
  ASSUME AliasInv, WholeTags, [Next]_vars, Orderly(Production), \A o \in Operators : ~ Abort(o),
         settled[Production] \in Versions, NEW v \in Versions, previousIn[v][Production] \in Versions
  PROVE  settled'[Production] \in Versions /\ previousIn'[v][Production] \in Versions
<1> DEFINE Stays == settled'[Production] \in Versions /\ previousIn'[v][Production] \in Versions
<1>1. TypeInv /\ Production \in Stages /\ Tidy(Production)
  BY ProductionAssumption DEF AliasInv, Production
<1> USE <1>1, MarksAssumption DEF TypeInv, TypeOK, SessionsKnow, registry, task, session, history
<1>2. ASSUME NEW o \in Operators, TagIn(o) PROVE Stays
  <2>1. stage[o] = Production => previous[o] = settled[Production]
    BY <1>2 DEF TagIn, Tidy, Knows, Tagging
  <2> QED
    BY <1>2, <2>1 DEF TagIn
<1>3. ASSUME NEW o \in Operators, TagRest(o) PROVE Stays
  BY <1>3 DEF TagRest
<1>4. ASSUME NEW o \in Operators, AuditRollback(o) PROVE Stays
  <2>1. stage[o] = Production => previous[o] \in Versions
    BY <1>4 DEF AuditRollback, WholeTags, Tagged
  <2> QED
    BY <1>4, <2>1 DEF AuditRollback
<1>5. ASSUME UNCHANGED <<settled, previousIn>> PROVE Stays
  BY <1>5
<1>6. ASSUME NEW o \in Operators, Promotion(o), ~ TagIn(o), ~ TagRest(o) PROVE Stays
  BY <1>6 DEF Promotion, StartPromotion, TakeUp, CheckVersion, PeekAlias, MoveAlias, TagStanding, TagAny,
              PromotionFails, RevertPromotion
<1>7. ASSUME NEW o \in Operators, Rollback(o), ~ AuditRollback(o) PROVE Stays
  BY <1>7 DEF Rollback, StartRollback, TakeUp, ReadCurrent, LookUpPrevious, RestorePrevious, RollbackFails,
              RevertRollback
<1>8. ASSUME NEW q \in Versions, Validate(q) PROVE Stays
  BY <1>8 DEF Validate
<1>9. CASE UNCHANGED vars
  BY <1>9 DEF vars
<1> QED
  BY <1>2, <1>3, <1>4, <1>6, <1>7, <1>8, <1>9 DEF Next

\* The other operators leave the guard's session alone.
LEMMA GuardUndisturbed ==
  ASSUME TypeInv, RegistryStep
  PROVE  /\ pc'[Guard] = pc[Guard] /\ stage'[Guard] = stage[Guard] /\ expected'[Guard] = expected[Guard]
         /\ version'[Guard] = version[Guard] /\ previous'[Guard] = previous[Guard]
<1> DEFINE Same == /\ pc'[Guard] = pc[Guard] /\ stage'[Guard] = stage[Guard] /\ expected'[Guard] = expected[Guard]
                   /\ version'[Guard] = version[Guard] /\ previous'[Guard] = previous[Guard]
<1> SUFFICES Same
  OBVIOUS
<1> USE GuardAssumption DEF TypeInv, TypeOK, Go, Finish, registry, task, session, history
<1>1. ASSUME NEW v \in Versions, Validate(v) PROVE Same
  BY <1>1 DEF Validate
<1>2. ASSUME NEW o \in Operators \ {Guard}, Promotion(o) PROVE Same
  <2>1. ASSUME NEW s \in Stages, NEW v \in Versions, StartPromotion(o, s, v) PROVE Same
    BY <2>1 DEF StartPromotion, TakeUp
  <2>2. CASE CheckVersion(o) \/ PeekAlias(o)
    BY <2>2 DEF CheckVersion, PeekAlias
  <2>3. CASE MoveAlias(o) \/ TagStanding(o) \/ TagAny(o) \/ TagIn(o) \/ PromotionFails(o)
    BY <2>3 DEF MoveAlias, TagStanding, TagAny, TagIn, PromotionFails
  <2>4. CASE TagRest(o) \/ RevertPromotion(o)
    BY <2>4 DEF TagRest, RevertPromotion
  <2> QED
    BY <1>2, <2>1, <2>2, <2>3, <2>4 DEF Promotion
<1>3. ASSUME NEW o \in Operators \ {Guard}, Rollback(o) PROVE Same
  <2>1. ASSUME NEW s \in Stages, NEW v \in Marked, StartRollback(o, s, v) PROVE Same
    BY <2>1 DEF StartRollback, TakeUp
  <2>2. CASE ReadCurrent(o) \/ LookUpPrevious(o)
    BY <2>2 DEF ReadCurrent, LookUpPrevious
  <2>3. CASE RestorePrevious(o) \/ RollbackFails(o)
    BY <2>3 DEF RestorePrevious, RollbackFails
  <2>4. CASE AuditRollback(o) \/ RevertRollback(o)
    BY <2>4 DEF AuditRollback, RevertRollback
  <2> QED
    BY <1>3, <2>1, <2>2, <2>3, <2>4 DEF Rollback
<1>4. ASSUME NEW o \in Operators \ {Guard}, Abort(o) PROVE Same
  BY <1>4 DEF Abort
<1> HIDE DEF Same
<1> QED
  BY <1>1, <1>2, <1>3, <1>4 DEF RegistryStep

\* A registry rollback of the guard goes on, or ends and the rollout with it.
LEMMA GuardKnowsNext ==
  ReleaseTypeInv /\ AliasInv /\ GuardKnows /\ [ReleaseNext]_allVars => GuardKnows'
<1> SUFFICES ASSUME ReleaseTypeInv, AliasInv, GuardKnows, [ReleaseNext]_allVars PROVE GuardKnows'
  OBVIOUS
<1>1. /\ TypeInv /\ Guard \in Operators /\ pc \in [Operators -> Promoting \cup RollingBack \cup {"idle"}]
      /\ stage \in [Operators -> Stages \cup {None}] /\ version \in [Operators -> Marked]
      /\ previous \in [Operators -> Marked] /\ expected \in [Operators -> Marked]
      /\ rollout \in [pc: RolloutSteps \cup Outcomes, version: Marked, was: Marked,
                      calm: BOOLEAN, started: BOOLEAN, errors: BOOLEAN]
      /\ rollout.pc \in RolloutSteps => rollout.version \in Versions
  BY GuardAssumption DEF ReleaseTypeInv, ReleaseTypeOK, RolloutKnows, TypeInv, TypeOK
<1> USE <1>1, MarksAssumption
<1>2. CASE RegistryStep
  <2>1. /\ pc'[Guard] = pc[Guard] /\ stage'[Guard] = stage[Guard] /\ expected'[Guard] = expected[Guard]
        /\ version'[Guard] = version[Guard] /\ UNCHANGED rollout
    BY <1>2, GuardUndisturbed DEF RegistryStep
  <2> QED
    BY <2>1 DEF GuardKnows
<1>3. CASE RestoreRegistry
  <2>1. /\ pc' = [pc EXCEPT ![Guard] = "current"] /\ stage' = [stage EXCEPT ![Guard] = Production]
        /\ expected' = [expected EXCEPT ![Guard] = rollout.version]
        /\ rollout' = [rollout EXCEPT !.pc = "restoring"]
    BY <1>3 DEF RestoreRegistry, StartRollback, TakeUp, Go, RolloutGoes
  <2> QED
    BY <2>1 DEF GuardKnows, RollingBack
<1>4. CASE RegistryRollback
  <2>1. rollout.pc = "restoring" /\ rollout.version \in Versions
    BY <1>4 DEF RegistryRollback, RolloutSteps
  <2>2. ASSUME Finish(Guard), \E outcome \in {"restored", "failed"} : RolloutEnds(outcome) PROVE GuardKnows'
    BY <2>2 DEF GuardKnows, Finish, Go, RolloutEnds, NoRun
  <2>3. ASSUME UNCHANGED rollout, UNCHANGED <<stage, expected>>, NEW place \in RollingBack, Go(Guard, place),
               version'[Guard] = rollout.version
        PROVE  GuardKnows'
    BY <2>1, <2>3 DEF GuardKnows, Go, RollingBack
  <2>4. CASE AuditRollback(Guard) /\ RolloutEnds(Told)
    BY <2>2, <2>4 DEF AuditRollback, Told
  <2> DEFINE Ends == IF pc'[Guard] = "idle" THEN RolloutEnds("failed") ELSE UNCHANGED rollout
  <2>5. CASE ReadCurrent(Guard) /\ Ends
    <3>1. CASE Finish(Guard)
      BY <2>2, <2>5, <3>1 DEF Finish, Go
    <3>2. CASE /\ Go(Guard, "lookup") /\ version' = [version EXCEPT ![Guard] = alias[stage[Guard]]]
               /\ expected[Guard] \in {None, alias[stage[Guard]]} /\ UNCHANGED <<stage, expected>>
      BY <2>1, <2>3, <2>5, <3>2 DEF GuardKnows, Go, RollingBack
    <3> QED
      BY <2>5, <3>1, <3>2 DEF ReadCurrent
  <2>6. CASE LookUpPrevious(Guard) /\ Ends
    <3>1. CASE Finish(Guard)
      BY <2>2, <2>6, <3>1 DEF Finish, Go
    <3>2. CASE Go(Guard, "restore") /\ UNCHANGED <<stage, version, expected>>
      BY <2>1, <2>3, <2>6, <3>2 DEF LookUpPrevious, GuardKnows, Go, RollingBack
    <3> QED
      BY <2>6, <3>1, <3>2 DEF LookUpPrevious
  <2>7. CASE RestorePrevious(Guard) /\ Ends
    BY <2>1, <2>3, <2>7 DEF RestorePrevious, task, GuardKnows, Go, RollingBack
  <2>8. CASE RollbackFails(Guard) /\ Ends
    BY <2>1, <2>3, <2>8 DEF RollbackFails, task, GuardKnows, Go, RollingBack
  <2>9. CASE RevertRollback(Guard) /\ Ends
    BY <2>2, <2>9 DEF RevertRollback, Finish, Go
  <2> QED
    BY <1>4, <2>4, <2>5, <2>6, <2>7, <2>8, <2>9 DEF RegistryRollback
<1>5. CASE KillRollout
  BY <1>5 DEF KillRollout, Finish, Go, NoRun, GuardKnows
<1>6. ASSUME UNCHANGED session, UNCHANGED rollout PROVE GuardKnows'
  BY <1>6 DEF session, task, GuardKnows
<1>7. ASSUME UNCHANGED session, rollout.pc # "restoring", rollout'.pc # "restoring" PROVE GuardKnows'
  BY <1>7 DEF session, task, GuardKnows
<1>8. ASSUME NEW v \in Versions, StartRollout(v) PROVE GuardKnows'
  BY <1>7, <1>8 DEF StartRollout, vars, NoRun, Outcomes
<1>9. CASE Build \/ Patch \/ PatchUnacknowledged \/ Await \/ Undo
  <2>1. UNCHANGED session /\ rollout.pc # "restoring"
    BY <1>9 DEF Build, Patch, PatchUnacknowledged, Await, Undo, vars
  <2>2. \/ \E place \in {"patch", "undo", "registry"} : RolloutGoes(place)
        \/ rollout' = Applied \/ RolloutEnds("idle")
        \/ \E errors \in BOOLEAN : rollout' = [rollout EXCEPT !.pc = "registry", !.errors = errors]
    BY <1>9 DEF Build, Patch, PatchUnacknowledged, Await, Undo
  <2>3. rollout'.pc # "restoring"
    <3>1. ASSUME NEW place \in {"patch", "undo", "registry"}, RolloutGoes(place) PROVE rollout'.pc # "restoring"
      BY <3>1 DEF RolloutGoes
    <3>2. CASE rollout' = Applied \/ RolloutEnds("idle")
      BY <3>2 DEF Applied, RolloutEnds, NoRun
    <3>3. CASE \E errors \in BOOLEAN : rollout' = [rollout EXCEPT !.pc = "registry", !.errors = errors]
      BY <3>3
    <3> QED
      BY <2>2, <3>1, <3>2, <3>3
  <2> QED
    BY <1>7, <2>1, <2>3
<1>10. CASE \/ \E r \in Readers, s \in Stages, exports \in BOOLEAN : Resolve(r, s, exports)
            \/ \E r \in Readers : LoadModel(r) \/ GiveUp(r) \/ MakeDirectory(r) \/ EndExport(r)
            \/ UNCHANGED allVars
  BY <1>6, <1>10 DEF Resolve, LoadModel, GiveUp, MakeDirectory, EndExport, allVars, vars, release
<1> QED
  BY <1>2, <1>3, <1>4, <1>5, <1>8, <1>9, <1>10 DEF ReleaseNext, ReleaseAction

\* What the other steps of a rollout do to it and to the cluster.
LEMMA ClusterKnowsNext ==
  ReleaseTypeInv /\ ClusterKnows /\ [ReleaseNext]_allVars => ClusterKnows'
<1> SUFFICES ASSUME ReleaseTypeInv, ClusterKnows, [ReleaseNext]_allVars PROVE ClusterKnows'
  OBVIOUS
<1>1. /\ cluster \in [now: Marked, before: Marked]
      /\ rollout \in [pc: RolloutSteps \cup Outcomes, version: Marked, was: Marked,
                      calm: BOOLEAN, started: BOOLEAN, errors: BOOLEAN]
      /\ mishaps \in Nat
  BY BoundsAssumption DEF ReleaseTypeInv, ReleaseTypeOK, TypeInv, TypeOK
<1>2. mishaps' = 0 => mishaps = 0
  <2>1. ASSUME mishaps' = mishaps + 1 PROVE mishaps' # 0
    BY <1>1, <2>1
  <2>2. TypeInv /\ ([Next]_vars \/ Mishap)
    BY RegistryMoves DEF ReleaseTypeInv
  <2>3. ASSUME NEW o \in Operators, Promotion(o) PROVE UNCHANGED mishaps
    BY <2>3 DEF Promotion, StartPromotion, TakeUp, CheckVersion, PeekAlias, MoveAlias, TagStanding, TagAny, TagIn,
                TagRest, PromotionFails, RevertPromotion, bounds
  <2>4. ASSUME NEW o \in Operators, Rollback(o) PROVE UNCHANGED mishaps
    BY <2>4 DEF Rollback, StartRollback, TakeUp, ReadCurrent, LookUpPrevious, RestorePrevious, AuditRollback,
                RollbackFails, RevertRollback, bounds
  <2>5. ASSUME NEW v \in Versions, Validate(v) PROVE UNCHANGED mishaps
    BY <2>5 DEF Validate, bounds
  <2>6. ASSUME UNCHANGED vars PROVE UNCHANGED mishaps
    BY <2>6 DEF vars, bounds
  <2> QED
    BY <2>1, <2>2, <2>3, <2>4, <2>5, <2>6 DEF Next, Abort, Mishap
<1> USE <1>1, <1>2 DEF ClusterKnows
<1>3. ASSUME UNCHANGED <<cluster, rollout>> PROVE ClusterKnows'
  BY <1>3
<1>4. ASSUME NEW v \in Versions, StartRollout(v) PROVE ClusterKnows'
  BY <1>4 DEF StartRollout, NoRun
<1>5. CASE Build
  BY <1>5 DEF Build, RolloutGoes
<1>6. CASE Patch
  <2>1. CASE cluster' = Patched(rollout.version) /\ rollout' = Applied
    BY <1>6, <2>1 DEF Patch, Patched, Applied
  <2>2. CASE RolloutGoes("registry") /\ UNCHANGED cluster
    BY <1>6, <2>2 DEF Patch, RolloutGoes
  <2> QED
    BY <1>6, <2>1, <2>2 DEF Patch
<1>7. CASE PatchUnacknowledged
  BY <1>7 DEF PatchUnacknowledged, RolloutGoes
<1>8. CASE Await
  BY <1>8 DEF Await, RolloutEnds, RolloutGoes, NoRun
<1>9. CASE Undo
  <2>1. PICK done \in BOOLEAN, errors \in BOOLEAN :
          /\ done \/ errors
          /\ cluster' = IF done THEN [now |-> cluster.before, before |-> cluster.now] ELSE cluster
          /\ rollout' = [rollout EXCEPT !.pc = "registry", !.errors = errors]
    BY <1>9 DEF Undo
  <2>2. rollout'.pc = "registry" /\ rollout'.errors = errors /\ rollout'.was = rollout.was
        /\ rollout'.version = rollout.version
    BY <2>1
  <2>3. errors \/ cluster'.now = cluster.before
    BY <2>1
  <2>4. rollout.pc = "undo"
    BY <1>9 DEF Undo
  <2> QED
    BY <2>2, <2>3, <2>4
<1>10. CASE RestoreRegistry
  BY <1>10 DEF RestoreRegistry, RolloutGoes
<1>11. CASE RegistryRollback
  <2>1. UNCHANGED cluster
    BY <1>11 DEF RegistryRollback
  <2>2. ASSUME NEW outcome \in {"restored", "failed"}, RolloutEnds(outcome) PROVE ClusterKnows'
    BY <2>2 DEF RolloutEnds, NoRun
  <2>3. UNCHANGED rollout \/ \E outcome \in {"restored", "failed"} : RolloutEnds(outcome)
    BY <1>11 DEF RegistryRollback, Told
  <2> QED
    BY <1>3, <2>1, <2>2, <2>3
<1>12. CASE KillRollout
  BY <1>12 DEF KillRollout, NoRun
<1>13. CASE \/ \E r \in Readers, s \in Stages, exports \in BOOLEAN : Resolve(r, s, exports)
            \/ \E r \in Readers : LoadModel(r) \/ GiveUp(r) \/ MakeDirectory(r) \/ EndExport(r)
            \/ RegistryStep \/ UNCHANGED allVars
  BY <1>3, <1>13 DEF Resolve, LoadModel, GiveUp, MakeDirectory, EndExport, RegistryStep, allVars, release
<1> HIDE DEF ClusterKnows
<1> QED
  BY <1>4, <1>5, <1>6, <1>7, <1>8, <1>9, <1>10, <1>11, <1>12, <1>13 DEF ReleaseNext, ReleaseAction

LEMMA PredecessorKeptNext ==
  RecoveryInv /\ [ReleaseNext]_allVars => PredecessorKept'
<1> SUFFICES ASSUME RecoveryInv, [ReleaseNext]_allVars, Orderly(Production)',
                    rollout'.pc \in RolloutSteps, rollout'.calm
             PROVE  settled'[Production] \in Versions /\ previousIn'[rollout'.version][Production] \in Versions
  BY DEF PredecessorKept
<1>1. /\ [Next]_vars /\ Orderly(Production) /\ \A o \in Operators : ~ Abort(o)
      /\ ReleaseTypeInv /\ AliasInv /\ WholeTags
  BY OrderlyRelease DEF RecoveryInv
<1>2. /\ rollout \in [pc: RolloutSteps \cup Outcomes, version: Marked, was: Marked,
                      calm: BOOLEAN, started: BOOLEAN, errors: BOOLEAN]
      /\ rollout.pc \in RolloutSteps => rollout.version \in Versions
  BY <1>1 DEF ReleaseTypeInv, ReleaseTypeOK, RolloutKnows
<1>3. ASSUME rollout.pc \in RolloutSteps, rollout'.version = rollout.version, rollout'.calm = rollout.calm
      PROVE  settled'[Production] \in Versions /\ previousIn'[rollout'.version][Production] \in Versions
  <2>1. settled[Production] \in Versions /\ previousIn[rollout.version][Production] \in Versions
    BY <1>1, <1>3 DEF RecoveryInv, PredecessorKept
  <2> QED
    BY <1>1, <1>2, <1>3, <2>1, PredecessorStays
<1>4. ASSUME NEW v \in Versions, StartRollout(v)
      PROVE  settled'[Production] \in Versions /\ previousIn'[rollout'.version][Production] \in Versions
  <2>1. alias[Production] = v /\ Recoverable(v) /\ ~ Working(Production) /\ rollout'.version = v
        /\ UNCHANGED <<settled, previousIn>>
    BY <1>4 DEF StartRollout, NoRun, vars, registry, history
  <2>2. settled[Production] = v
    BY <1>1, <2>1, ProductionAssumption DEF AliasInv, Tidy, Production
  <2>3. previousIn[v][Production] # NoTag
    BY <1>1, <2>2, MarksAssumption DEF WholeTags, Tagged
  <2>4. previousIn[v][Production] \in Versions
    BY <1>1, <2>1, <2>3, ProductionAssumption DEF Recoverable, Recorded, Production, AliasInv, TypeInv, TypeOK, Marked
  <2> QED
    BY <2>1, <2>2, <2>4
<1>5. ASSUME RolloutEnds("idle") \/ RolloutEnds("restored") \/ RolloutEnds("failed") \/ rollout' = NoRun PROVE FALSE
  BY <1>5 DEF RolloutEnds, NoRun, RolloutSteps
<1>6. ASSUME NEW place \in RolloutSteps, RolloutGoes(place)
      PROVE  rollout'.version = rollout.version /\ rollout'.calm = rollout.calm
  BY <1>2, <1>6 DEF RolloutGoes
<1>7. CASE \/ Build \/ Patch \/ PatchUnacknowledged \/ Await \/ Undo \/ RestoreRegistry
  <2>1. rollout.pc \in RolloutSteps
    BY <1>7 DEF Build, Patch, PatchUnacknowledged, Await, Undo, RestoreRegistry, RolloutSteps
  <2>2. \/ \E place \in RolloutSteps : RolloutGoes(place)
        \/ rollout' = Applied \/ RolloutEnds("idle")
        \/ \E errors \in BOOLEAN : rollout' = [rollout EXCEPT !.pc = "registry", !.errors = errors]
    BY <1>7 DEF Build, Patch, PatchUnacknowledged, Await, Undo, RestoreRegistry, RolloutSteps
  <2>3. rollout'.version = rollout.version /\ rollout'.calm = rollout.calm
    BY <1>2, <1>5, <1>6, <2>2 DEF Applied
  <2> QED
    BY <1>3, <2>1, <2>3
<1>8. CASE RegistryRollback
  BY <1>3, <1>5, <1>8 DEF RegistryRollback, Told, RolloutSteps
<1>9. CASE KillRollout
  BY <1>5, <1>9 DEF KillRollout
<1>10. CASE UNCHANGED rollout
  BY <1>3, <1>10
<1>11. CASE \/ \E r \in Readers, s \in Stages, exports \in BOOLEAN : Resolve(r, s, exports)
            \/ \E r \in Readers : LoadModel(r) \/ GiveUp(r) \/ MakeDirectory(r) \/ EndExport(r)
            \/ RegistryStep \/ UNCHANGED allVars
  BY <1>10, <1>11 DEF Resolve, LoadModel, GiveUp, MakeDirectory, EndExport, RegistryStep, allVars, release
<1> QED
  BY <1>4, <1>7, <1>8, <1>9, <1>11 DEF ReleaseNext, ReleaseAction

LEMMA RecoveryInvNext == RecoveryInv /\ [ReleaseNext]_allVars => RecoveryInv'
<1> SUFFICES ASSUME RecoveryInv, [ReleaseNext]_allVars PROVE RecoveryInv'
  OBVIOUS
<1>1. /\ ReleaseTypeInv' /\ AliasInv' /\ GuardKnows' /\ ClusterKnows' /\ PredecessorKept'
  BY ReleaseTypeNext, AliasInvRelease, GuardKnowsNext, ClusterKnowsNext, PredecessorKeptNext DEF RecoveryInv
<1>2. OtherThanItself'
  BY RegistryMoves, OtherThanItselfNext DEF RecoveryInv, ReleaseTypeInv
<1>3. ASSUME Orderly(Production)' PROVE WholeTags'
  BY <1>3, OrderlyRelease, WholeTagsNext DEF RecoveryInv
<1> QED
  BY <1>1, <1>2, <1>3 DEF RecoveryInv

(* A rollback the guard began finds its predecessor, if nobody worked on      *)
(* production when the rollout looked for one.                                *)
THEOREM WayBackStaysOpen == ReleaseSpec => RollbackStaysPossible
<1>1. RecoveryInv /\ [ReleaseNext]_allVars =>
        [pc[Guard] = "lookup" /\ rollout'.pc = "failed" /\ rollout.calm => ~ Orderly(Production)]_allVars
  <2> SUFFICES ASSUME RecoveryInv, [ReleaseNext]_allVars, pc[Guard] = "lookup", rollout'.pc = "failed",
                      rollout.calm, Orderly(Production)
               PROVE  FALSE
    OBVIOUS
  <2>1. rollout.pc = "restoring" /\ stage[Guard] = Production /\ version[Guard] = rollout.version
    BY DEF RecoveryInv, GuardKnows
  <2>2. previousIn[rollout.version][Production] \in Versions
    BY <2>1 DEF RecoveryInv, PredecessorKept, RolloutSteps
  <2>3. ~ NoPredecessor(Recorded(version[Guard], stage[Guard]))
    BY <2>1, <2>2, MarksAssumption DEF NoPredecessor, Recorded
  <2>4. rollout'.pc # rollout.pc
    BY <2>1
  <2>5. CASE RegistryRollback
    <3>1. LookUpPrevious(Guard) /\ (pc'[Guard] = "idle")
      BY <2>4, <2>5 DEF RegistryRollback, AuditRollback, ReadCurrent, RestorePrevious, RollbackFails, RevertRollback
    <3>2. pc' = [pc EXCEPT ![Guard] = "restore"]
      BY <2>3, <3>1 DEF LookUpPrevious, Go
    <3> QED
      BY <3>1, <3>2, GuardAssumption DEF RecoveryInv, ReleaseTypeInv, TypeInv, TypeOK
  <2>6. CASE KillRollout
    BY <2>6 DEF KillRollout, NoRun
  <2>7. CASE \/ \E v \in Versions : StartRollout(v)
             \/ Build \/ Patch \/ PatchUnacknowledged \/ Await \/ Undo \/ RestoreRegistry
    BY <2>1, <2>7 DEF StartRollout, Build, Patch, PatchUnacknowledged, Await, Undo, RestoreRegistry, Outcomes
  <2>8. CASE \/ \E r \in Readers, s \in Stages, exports \in BOOLEAN : Resolve(r, s, exports)
             \/ \E r \in Readers : LoadModel(r) \/ GiveUp(r) \/ MakeDirectory(r) \/ EndExport(r)
             \/ RegistryStep \/ UNCHANGED allVars
    BY <2>4, <2>8 DEF Resolve, LoadModel, GiveUp, MakeDirectory, EndExport, RegistryStep, allVars, release
  <2> QED
    BY <2>5, <2>6, <2>7, <2>8 DEF ReleaseNext, ReleaseAction
<1> QED
  BY <1>1, RecoveryInvInit, RecoveryInvNext, PTL DEF ReleaseSpec, RollbackStaysPossible

(* A rollout that reports the registry and the deployment restored, or the    *)
(* deployment unchanged, leaves the two in agreement, if the version it       *)
(* replaced was the recorded predecessor.                                     *)
THEOREM RecoveryIsTogether == ReleaseSpec => RestoredTogether
<1>1. RecoveryInv /\ [ReleaseNext]_allVars =>
        [rollout.pc = "restoring" /\ rollout'.pc = "restored"
           /\ Orderly(Production) /\ previous[Guard] = rollout.was
           => cluster'.now = alias'[Production]]_allVars
  <2> SUFFICES ASSUME RecoveryInv, [ReleaseNext]_allVars, rollout.pc = "restoring", rollout'.pc = "restored",
                      Orderly(Production), previous[Guard] = rollout.was
               PROVE  cluster'.now = alias'[Production]
    OBVIOUS
  <2>1. AuditRollback(Guard) /\ RolloutEnds(Told) /\ UNCHANGED cluster
    <3>1. ~ UNCHANGED rollout
      OBVIOUS
    <3>2. ~ RolloutEnds("failed")
      BY DEF RolloutEnds, NoRun
    <3>3. CASE RegistryRollback
      BY <3>1, <3>2, <3>3 DEF RegistryRollback
    <3>4. CASE KillRollout
      BY <3>4 DEF KillRollout, NoRun
    <3>5. CASE \/ \E v \in Versions : StartRollout(v)
               \/ Build \/ Patch \/ PatchUnacknowledged \/ Await \/ Undo \/ RestoreRegistry
      BY <3>5 DEF StartRollout, Build, Patch, PatchUnacknowledged, Await, Undo, RestoreRegistry, Outcomes
    <3>6. CASE \/ \E r \in Readers, s \in Stages, exports \in BOOLEAN : Resolve(r, s, exports)
               \/ \E r \in Readers : LoadModel(r) \/ GiveUp(r) \/ MakeDirectory(r) \/ EndExport(r)
               \/ RegistryStep \/ UNCHANGED allVars
      BY <3>1, <3>6 DEF Resolve, LoadModel, GiveUp, MakeDirectory, EndExport, RegistryStep, allVars, release
    <3> QED
      BY <3>3, <3>4, <3>5, <3>6 DEF ReleaseNext, ReleaseAction
  <2>2. ~ rollout.errors
    BY <2>1 DEF RolloutEnds, Told, NoRun
  <2>3. pc[Guard] = "audit" /\ stage[Guard] = Production /\ version[Guard] = rollout.version
    BY <2>1 DEF AuditRollback, RecoveryInv, GuardKnows
  <2>4. alias[Production] = previous[Guard]
    BY <2>3, GuardAssumption, ProductionAssumption DEF RecoveryInv, AliasInv, Tidy, Knows, Production
  <2>5. rollout.was # rollout.version
    BY <2>3, GuardAssumption DEF RecoveryInv, OtherThanItself
  <2>6. cluster.now = rollout.was
    BY <2>2, <2>5 DEF RecoveryInv, ClusterKnows, Orderly
  <2>7. UNCHANGED alias
    BY <2>1 DEF AuditRollback, registry
  <2> QED
    BY <2>1, <2>4, <2>6, <2>7
<1> QED
  BY <1>1, RecoveryInvInit, RecoveryInvNext, PTL DEF ReleaseSpec, RestoredTogether

================================================================================
