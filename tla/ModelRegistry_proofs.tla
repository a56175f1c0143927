------------------------- MODULE ModelRegistry_proofs -------------------------
(***************************************************************************)
(* Theorems about ModelRegistry, for every number of operators and         *)
(* versions, every assignment of duties and every bound.                   *)
(***************************************************************************)
EXTENDS ModelRegistry, TLAPS

\* An operation under way has its stage, and beyond its first read a version.
SessionsKnow ==
  \A o \in Operators :
    /\ pc[o] # "idle" => stage[o] \in Stages
    /\ pc[o] \notin {"idle", "current"} => version[o] \in Versions

TypeInv == TypeOK /\ SessionsKnow

LEMMA TypeInvInit == Init => TypeInv
BY BoundsAssumption DEF Init, TypeInv, TypeOK, SessionsKnow, Marked, Promoting, RollingBack

LEMMA TypeInvNext == TypeInv /\ [Next]_vars => TypeInv'
<1> SUFFICES ASSUME TypeInv, [Next]_vars PROVE TypeInv'
  OBVIOUS
<1> USE MarksAssumption, BoundsAssumption, DutiesAssumption, StagesAssumption
    DEF TypeInv, TypeOK, SessionsKnow, Marked, Promoting, RollingBack,
        registry, history, bounds, task, session, Go, Finish
<1>1. ASSUME NEW v \in Versions, Validate(v) PROVE TypeInv'
  <2>1. CASE validated' = validated \cup {v} /\ UNCHANGED standing
    BY <1>1, <2>1 DEF Validate
  <2>2. CASE standing' = [standing EXCEPT ![v] = "rejected"] /\ UNCHANGED validated
    BY <1>1, <2>2 DEF Validate
  <2> QED
    BY <1>1, <2>1, <2>2 DEF Validate
<1>2. ASSUME NEW o \in Operators, NEW s \in Stages, NEW v \in Versions, StartPromotion(o, s, v)
       PROVE TypeInv'
  BY <1>2 DEF StartPromotion, TakeUp, Working
<1>3. ASSUME NEW o \in Operators, CheckVersion(o) PROVE TypeInv'
  <2>1. CASE Finish(o)
    BY <1>3, <2>1 DEF CheckVersion
  <2>2. CASE Go(o, "peek") /\ UNCHANGED task
    BY <1>3, <2>2 DEF CheckVersion
  <2> QED
    BY <1>3, <2>1, <2>2 DEF CheckVersion
<1>4. ASSUME NEW o \in Operators, PeekAlias(o) PROVE TypeInv'
  <2>1. CASE Finish(o)
    BY <1>4, <2>1 DEF PeekAlias
  <2>2. CASE Go(o, "move") /\ previous' = [previous EXCEPT ![o] = alias[stage[o]]]
    BY <1>4, <2>2 DEF PeekAlias
  <2> QED
    BY <1>4, <2>1, <2>2 DEF PeekAlias
<1>5. ASSUME NEW o \in Operators, MoveAlias(o) PROVE TypeInv'
  BY <1>5 DEF MoveAlias
<1>6. ASSUME NEW o \in Operators, TagStanding(o) PROVE TypeInv'
  BY <1>6 DEF TagStanding
<1>7. ASSUME NEW o \in Operators, TagAny(o) PROVE TypeInv'
  BY <1>7 DEF TagAny
<1>8. ASSUME NEW o \in Operators, TagIn(o) PROVE TypeInv'
  BY <1>8 DEF TagIn
<1>9. ASSUME NEW o \in Operators, TagRest(o) PROVE TypeInv'
  BY <1>9 DEF TagRest
<1>10. ASSUME NEW o \in Operators, PromotionFails(o) PROVE TypeInv'
  BY <1>10 DEF PromotionFails
<1>11. ASSUME NEW o \in Operators, RevertPromotion(o) PROVE TypeInv'
  BY <1>11 DEF RevertPromotion, PutBack
<1>12. ASSUME NEW o \in Operators, NEW s \in Stages, NEW v \in Marked, StartRollback(o, s, v)
        PROVE TypeInv'
  BY <1>12 DEF StartRollback, TakeUp, Working
<1>13. ASSUME NEW o \in Operators, ReadCurrent(o) PROVE TypeInv'
  <2>1. CASE Finish(o)
    BY <1>13, <2>1 DEF ReadCurrent
  <2>2. CASE Go(o, "lookup") /\ version' = [version EXCEPT ![o] = alias[stage[o]]]
    BY <1>13, <2>2 DEF ReadCurrent
  <2> QED
    BY <1>13, <2>1, <2>2 DEF ReadCurrent
<1>14. ASSUME NEW o \in Operators, LookUpPrevious(o) PROVE TypeInv'
  <2>1. CASE Finish(o)
    BY <1>14, <2>1 DEF LookUpPrevious, NoPredecessor, Recorded
  <2>2. CASE Go(o, "restore") /\ previous' = [previous EXCEPT ![o] = Recorded(version[o], stage[o])]
    BY <1>14, <2>2 DEF LookUpPrevious, NoPredecessor, Recorded
  <2> QED
    BY <1>14, <2>1, <2>2 DEF LookUpPrevious
<1>15. ASSUME NEW o \in Operators, RestorePrevious(o) PROVE TypeInv'
  BY <1>15 DEF RestorePrevious
<1>16. ASSUME NEW o \in Operators, AuditRollback(o) PROVE TypeInv'
  BY <1>16 DEF AuditRollback
<1>17. ASSUME NEW o \in Operators, RollbackFails(o) PROVE TypeInv'
  BY <1>17 DEF RollbackFails
<1>18. ASSUME NEW o \in Operators, RevertRollback(o) PROVE TypeInv'
  BY <1>18 DEF RevertRollback, PutBack
<1>19. ASSUME NEW o \in Operators, Abort(o) PROVE TypeInv'
  BY <1>19 DEF Abort
<1>20. CASE UNCHANGED vars
  BY <1>20 DEF vars
<1> QED
  BY <1>1, <1>2, <1>3, <1>4, <1>5, <1>6, <1>7, <1>8, <1>9, <1>10, <1>11, <1>12, <1>13, <1>14, <1>15, <1>16, <1>17, <1>18, <1>19, <1>20
     DEF Next, Promotion, Rollback

\* Every variable keeps its type.
THEOREM TypeCorrect == Spec => []TypeOK
<1>1. TypeInv => TypeOK
  BY DEF TypeInv
<1> QED
  BY <1>1, TypeInvInit, TypeInvNext, PTL DEF Spec

-------------------------------------------------------------------------------
(***************************************************************************)
(* Versions fit to serve.  An alias is never given to any other, because   *)
(* everything an alias can be given comes from a version that passed the   *)
(* checks: the version of a session past them, the version an alias named, *)
(* and the tags, which only ever record what an alias named.               *)
(***************************************************************************)
Sound == {v \in Versions : v \in validated /\ standing[v] # "rejected"}

SoundAliases == \A s \in Stages : alias[s] \in Sound \cup {None}

SoundTags ==
  \A v \in Versions :
    /\ previousAny[v] \in Sound \cup {None, NoTag}
    /\ \A s \in Stages : previousIn[v][s] \in Sound \cup {None, NoTag}

SoundTasks ==
  \A o \in Operators :
    /\ previous[o] \in Sound \cup {None}
    /\ pc[o] \notin {"idle", "check", "current"} => version[o] \in Sound

SoundInv == TypeInv /\ SoundAliases /\ SoundTags /\ SoundTasks

LEMMA SoundInvInit == Init => SoundInv
BY TypeInvInit DEF Init, SoundInv, SoundAliases, SoundTags, SoundTasks

\* What is fit to serve stays so: a version is rejected before it is validated,
\* and a promotion only marks it with its stage.
LEMMA SoundGrows == TypeInv /\ [Next]_vars => Sound \subseteq Sound'
<1> SUFFICES ASSUME TypeInv, [Next]_vars PROVE Sound \subseteq Sound'
  OBVIOUS
<1> USE DEF Sound
<1>1. ASSUME NEW v \in Versions, Validate(v) PROVE Sound \subseteq Sound'
  BY <1>1 DEF Validate, TypeInv, TypeOK
<1>2. ASSUME NEW o \in Operators, TagStanding(o) PROVE Sound \subseteq Sound'
  BY <1>2, StagesAssumption DEF TagStanding, TypeInv, TypeOK, SessionsKnow
<1>3. ASSUME UNCHANGED <<validated, standing>> PROVE Sound \subseteq Sound'
  BY <1>3
<1>4. ASSUME NEW o \in Operators, Promotion(o), ~TagStanding(o) PROVE UNCHANGED <<validated, standing>>
  BY <1>4 DEF Promotion, StartPromotion, TakeUp, CheckVersion, PeekAlias, MoveAlias, TagAny, TagIn, TagRest,
              PromotionFails, RevertPromotion, registry
<1>5. ASSUME NEW o \in Operators, Rollback(o) PROVE UNCHANGED <<validated, standing>>
  BY <1>5 DEF Rollback, StartRollback, TakeUp, ReadCurrent, LookUpPrevious, RestorePrevious, AuditRollback,
              RollbackFails, RevertRollback, registry
<1>6. ASSUME NEW o \in Operators, Abort(o) PROVE UNCHANGED <<validated, standing>>
  BY <1>6 DEF Abort, registry
<1>7. UNCHANGED vars => UNCHANGED <<validated, standing>>
  BY DEF vars, registry
<1> QED
  BY <1>1, <1>2, <1>3, <1>4, <1>5, <1>6, <1>7 DEF Next

LEMMA SoundInvNext == SoundInv /\ [Next]_vars => SoundInv'
<1> SUFFICES ASSUME SoundInv, [Next]_vars PROVE SoundInv'
  OBVIOUS
<1>1. TypeInv'
  BY TypeInvNext DEF SoundInv
<1>2. Sound \subseteq Sound'
  BY SoundGrows DEF SoundInv
<1> DEFINE Rest == SoundAliases /\ SoundTags /\ SoundTasks
<1> USE <1>2 DEF SoundInv, SoundAliases, SoundTags, SoundTasks, TypeInv, TypeOK, SessionsKnow,
                 registry, history, bounds, task, session, Go, Finish
<1>3. ASSUME NEW v \in Versions, Validate(v) PROVE Rest'
  BY <1>3 DEF Validate
<1>4. ASSUME NEW o \in Operators, NEW s \in Stages, NEW v \in Versions, StartPromotion(o, s, v) PROVE Rest'
  BY <1>4 DEF StartPromotion, TakeUp, Working
<1>5. ASSUME NEW o \in Operators, CheckVersion(o) PROVE Rest'
  <2>1. CASE Finish(o)
    BY <1>5, <2>1 DEF CheckVersion
  <2>2. CASE Go(o, "peek") /\ UNCHANGED task
    BY <1>5, <2>2 DEF CheckVersion, Promotable, Sound
  <2> QED
    BY <1>5, <2>1, <2>2 DEF CheckVersion
<1>6. ASSUME NEW o \in Operators, PeekAlias(o) PROVE Rest'
  <2>1. CASE Finish(o)
    BY <1>6, <2>1 DEF PeekAlias
  <2>2. CASE Go(o, "move") /\ previous' = [previous EXCEPT ![o] = alias[stage[o]]]
    BY <1>6, <2>2 DEF PeekAlias
  <2> QED
    BY <1>6, <2>1, <2>2 DEF PeekAlias
<1>7. ASSUME NEW o \in Operators, MoveAlias(o) PROVE Rest'
  BY <1>7 DEF MoveAlias
<1>8. ASSUME NEW o \in Operators, TagStanding(o) PROVE Rest'
  BY <1>8 DEF TagStanding
<1>9. ASSUME NEW o \in Operators, TagAny(o) PROVE Rest'
  BY <1>9 DEF TagAny
<1>10. ASSUME NEW o \in Operators, TagIn(o) PROVE Rest'
  BY <1>10 DEF TagIn
<1>11. ASSUME NEW o \in Operators, TagRest(o) PROVE Rest'
  BY <1>11 DEF TagRest
<1>12. ASSUME NEW o \in Operators, PromotionFails(o) PROVE Rest'
  BY <1>12 DEF PromotionFails
<1>13. ASSUME NEW o \in Operators, RevertPromotion(o) PROVE Rest'
  BY <1>13 DEF RevertPromotion, PutBack
<1>14. ASSUME NEW o \in Operators, NEW s \in Stages, NEW v \in Marked, StartRollback(o, s, v) PROVE Rest'
  BY <1>14 DEF StartRollback, TakeUp, Working
<1>15. ASSUME NEW o \in Operators, ReadCurrent(o) PROVE Rest'
  <2>1. CASE Finish(o)
    BY <1>15, <2>1 DEF ReadCurrent
  <2>2. CASE Go(o, "lookup") /\ version' = [version EXCEPT ![o] = alias[stage[o]]]
    BY <1>15, <2>2 DEF ReadCurrent
  <2> QED
    BY <1>15, <2>1, <2>2 DEF ReadCurrent
<1>16. ASSUME NEW o \in Operators, LookUpPrevious(o) PROVE Rest'
  <2>1. CASE Finish(o)
    BY <1>16, <2>1 DEF LookUpPrevious
  <2>2. CASE Go(o, "restore") /\ previous' = [previous EXCEPT ![o] = Recorded(version[o], stage[o])]
    BY <1>16, <2>2 DEF LookUpPrevious, NoPredecessor, Recorded
  <2> QED
    BY <1>16, <2>1, <2>2 DEF LookUpPrevious
<1>17. ASSUME NEW o \in Operators, RestorePrevious(o) PROVE Rest'
  BY <1>17 DEF RestorePrevious
<1>18. ASSUME NEW o \in Operators, AuditRollback(o) PROVE Rest'
  BY <1>18 DEF AuditRollback
<1>19. ASSUME NEW o \in Operators, RollbackFails(o) PROVE Rest'
  BY <1>19 DEF RollbackFails
<1>20. ASSUME NEW o \in Operators, RevertRollback(o) PROVE Rest'
  BY <1>20 DEF RevertRollback, PutBack
<1>21. ASSUME NEW o \in Operators, Abort(o) PROVE Rest'
  BY <1>21 DEF Abort
<1>22. CASE UNCHANGED vars
  BY <1>22 DEF vars
<1> QED
  BY <1>1, <1>3, <1>4, <1>5, <1>6, <1>7, <1>8, <1>9, <1>10, <1>11, <1>12, <1>13, <1>14, <1>15, <1>16, <1>17, <1>18, <1>19, <1>20, <1>21, <1>22
     DEF Next, Promotion, Rollback

(* No alias ever names a version that was rejected or not validated.  *)
THEOREM OnlyValidatedServe == Spec => []AliasesValidated
<1>1. SoundInv => AliasesValidated
  BY DEF SoundInv, SoundAliases, Sound, AliasesValidated
<1> QED
  BY <1>1, SoundInvInit, SoundInvNext, PTL DEF Spec

-------------------------------------------------------------------------------
(***************************************************************************)
(* Where an alias is while an operator works on it alone, with nobody      *)
(* killed: every step of an operation knows where the last successful one  *)
(* left the alias, and a failing one goes back there.                      *)
(***************************************************************************)
Tagging == {"tagStanding", "tagAny", "tagIn", "tagRest"}

\* What the operator o knows of the alias it works on.
Knows(o) ==
  LET s == stage[o] IN
  /\ pc[o] \in {"check", "peek", "current", "move", "lookup", "restore"} => alias[s] = settled[s]
  /\ pc[o] \in {"move", "revert"} \cup Tagging => previous[o] = settled[s]
  /\ pc[o] \in Tagging => alias[s] = version[o]
  /\ pc[o] \in {"lookup", "restore", "audit", "unrestore"} => version[o] = settled[s]
  /\ pc[o] = "audit" => alias[s] = previous[o]

Alone(s) == \A o, p \in Operators : stage[o] = s /\ stage[p] = s => o = p

Tidy(s) ==
  /\ Alone(s)
  /\ ~Working(s) => alias[s] = settled[s]
  /\ \A o \in Operators : stage[o] = s => Knows(o)

IdleIsFree == \A o \in Operators : pc[o] = "idle" <=> stage[o] = None

AliasInv == TypeInv /\ IdleIsFree /\ \A s \in Stages : Orderly(s) => Tidy(s)

LEMMA AliasInvInit == Init => AliasInv
BY TypeInvInit, StagesAssumption DEF Init, AliasInv, IdleIsFree, Tidy, Alone, Working

LEMMA IdleIsFreeNext == TypeInv /\ IdleIsFree /\ [Next]_vars => IdleIsFree'
<1> SUFFICES ASSUME TypeInv, IdleIsFree, [Next]_vars PROVE IdleIsFree'
  OBVIOUS
<1> USE StagesAssumption DEF TypeInv, TypeOK, IdleIsFree, Go, Finish, task, session, SessionsKnow
<1>1. ASSUME NEW v \in Versions, Validate(v) PROVE IdleIsFree'
  BY <1>1 DEF Validate
<1>2. ASSUME NEW o \in Operators, Promotion(o) PROVE IdleIsFree'
  <2>1. ASSUME NEW s \in Stages, NEW v \in Versions, StartPromotion(o, s, v) PROVE IdleIsFree'
    BY <2>1 DEF StartPromotion, TakeUp
  <2>2. CASE CheckVersion(o) \/ PeekAlias(o)
    BY <2>2 DEF CheckVersion, PeekAlias
  <2>3. CASE MoveAlias(o) \/ TagStanding(o) \/ TagAny(o) \/ TagIn(o) \/ PromotionFails(o)
    BY <2>3 DEF MoveAlias, TagStanding, TagAny, TagIn, PromotionFails
  <2>4. CASE TagRest(o) \/ RevertPromotion(o)
    BY <2>4 DEF TagRest, RevertPromotion
  <2> QED
    BY <1>2, <2>1, <2>2, <2>3, <2>4 DEF Promotion
<1>3. ASSUME NEW o \in Operators, Rollback(o) PROVE IdleIsFree'
  <2>1. ASSUME NEW s \in Stages, NEW v \in Marked, StartRollback(o, s, v) PROVE IdleIsFree'
    BY <2>1 DEF StartRollback, TakeUp
  <2>2. CASE ReadCurrent(o) \/ LookUpPrevious(o)
    BY <2>2 DEF ReadCurrent, LookUpPrevious
  <2>3. CASE RestorePrevious(o) \/ RollbackFails(o)
    BY <2>3 DEF RestorePrevious, RollbackFails
  <2>4. CASE AuditRollback(o) \/ RevertRollback(o)
    BY <2>4 DEF AuditRollback, RevertRollback
  <2> QED
    BY <1>3, <2>1, <2>2, <2>3, <2>4 DEF Rollback
<1>4. ASSUME NEW o \in Operators, Abort(o) PROVE IdleIsFree'
  BY <1>4 DEF Abort
<1>5. CASE UNCHANGED vars
  BY <1>5 DEF vars
<1> QED
  BY <1>1, <1>2, <1>3, <1>4, <1>5 DEF Next

\* What was not orderly never becomes so.
LEMMA OrderlyBefore ==
  ASSUME TypeInv, [Next]_vars, NEW s \in Stages, Orderly(s)'
  PROVE  Orderly(s) /\ \A o \in Operators : ~Abort(o)
<1> USE DEF TypeInv, TypeOK, Orderly
<1>1. ASSUME NEW o \in Operators, Abort(o) PROVE FALSE
  BY <1>1 DEF Abort
<1>2. \A o \in Operators : ~Abort(o)
  BY <1>1
<1>3. ASSUME NEW v \in Versions, Validate(v) PROVE Orderly(s)
  BY <1>3 DEF Validate, history, bounds
<1>4. ASSUME NEW o \in Operators, Promotion(o) PROVE Orderly(s)
  BY <1>4 DEF Promotion, StartPromotion, TakeUp, CheckVersion, PeekAlias, MoveAlias, TagStanding, TagAny, TagIn,
              TagRest, PromotionFails, RevertPromotion, history, bounds
<1>5. ASSUME NEW o \in Operators, Rollback(o) PROVE Orderly(s)
  BY <1>5 DEF Rollback, StartRollback, TakeUp, ReadCurrent, LookUpPrevious, RestorePrevious, AuditRollback,
              RollbackFails, RevertRollback, history, bounds
<1>6. ASSUME UNCHANGED vars PROVE Orderly(s)
  BY <1>6 DEF vars, history, bounds
<1> HIDE DEF TypeInv, TypeOK, Orderly
<1> QED
  BY <1>2, <1>3, <1>4, <1>5, <1>6 DEF Next

LEMMA AliasInvNext == AliasInv /\ [Next]_vars => AliasInv'
<1> SUFFICES ASSUME AliasInv, [Next]_vars, NEW s \in Stages, Orderly(s)' PROVE Tidy(s)'
  BY TypeInvNext, IdleIsFreeNext DEF AliasInv
<1>1. Tidy(s) /\ Orderly(s) /\ \A o \in Operators : ~Abort(o)
  BY OrderlyBefore DEF AliasInv
<1>2. TypeInv /\ IdleIsFree
  BY DEF AliasInv
<1> USE <1>1, <1>2, StagesAssumption, MarksAssumption
    DEF TypeInv, TypeOK, SessionsKnow, IdleIsFree, Tidy, Alone, Knows, Working, Tagging,
        Go, Finish, registry, task, session, history
<1>3. ASSUME NEW v \in Versions, Validate(v) PROVE Tidy(s)'
  BY <1>3 DEF Validate
<1>4. ASSUME NEW o \in Operators, NEW q \in Stages, TakeUp(o, q),
             pc' = [pc EXCEPT ![o] = "check"] \/ pc' = [pc EXCEPT ![o] = "current"],
             \A p \in Operators \ {o} : version'[p] = version[p] /\ previous'[p] = previous[p]
      PROVE  Tidy(s)'
  <2>1. q = s => ~Working(s)
    BY <1>4 DEF TakeUp, Orderly
  <2>2. UNCHANGED <<alias, settled>> /\ stage' = [stage EXCEPT ![o] = q] /\ stage[o] = None
    BY <1>4 DEF TakeUp
  <2>3. CASE q = s
    BY <1>4, <2>1, <2>2, <2>3
  <2>4. CASE q # s
    BY <1>4, <2>2, <2>4
  <2> QED
    BY <2>3, <2>4
<1>5. ASSUME NEW o \in Operators, CheckVersion(o) PROVE Tidy(s)'
  <2>1. CASE Finish(o)
    BY <1>5, <2>1 DEF CheckVersion
  <2>2. CASE Go(o, "peek") /\ UNCHANGED task
    BY <1>5, <2>2 DEF CheckVersion
  <2> QED
    BY <1>5, <2>1, <2>2 DEF CheckVersion
<1>6. ASSUME NEW o \in Operators, PeekAlias(o) PROVE Tidy(s)'
  <2>1. CASE Finish(o)
    BY <1>6, <2>1 DEF PeekAlias
  <2>2. CASE Go(o, "move") /\ previous' = [previous EXCEPT ![o] = alias[stage[o]]]
    BY <1>6, <2>2 DEF PeekAlias
  <2> QED
    BY <1>6, <2>1, <2>2 DEF PeekAlias
<1>7. ASSUME NEW o \in Operators, MoveAlias(o) PROVE Tidy(s)'
  BY <1>7 DEF MoveAlias
<1>8. ASSUME NEW o \in Operators, TagStanding(o) \/ TagAny(o) \/ TagIn(o) PROVE Tidy(s)'
  BY <1>8 DEF TagStanding, TagAny, TagIn
<1>9. ASSUME NEW o \in Operators, TagRest(o) PROVE Tidy(s)'
  BY <1>9 DEF TagRest
<1>10. ASSUME NEW o \in Operators, PromotionFails(o) PROVE Tidy(s)'
  BY <1>10 DEF PromotionFails
<1>11. ASSUME NEW o \in Operators, RevertPromotion(o) PROVE Tidy(s)'
  BY <1>11 DEF RevertPromotion, PutBack
<1>12. ASSUME NEW o \in Operators, ReadCurrent(o) PROVE Tidy(s)'
  <2>1. CASE Finish(o)
    BY <1>12, <2>1 DEF ReadCurrent
  <2>2. CASE Go(o, "lookup") /\ version' = [version EXCEPT ![o] = alias[stage[o]]]
    BY <1>12, <2>2 DEF ReadCurrent
  <2> QED
    BY <1>12, <2>1, <2>2 DEF ReadCurrent
<1>13. ASSUME NEW o \in Operators, LookUpPrevious(o) PROVE Tidy(s)'
  <2>1. CASE Finish(o)
    BY <1>13, <2>1 DEF LookUpPrevious
  <2>2. CASE Go(o, "restore") /\ previous' = [previous EXCEPT ![o] = Recorded(version[o], stage[o])]
    BY <1>13, <2>2 DEF LookUpPrevious
  <2> QED
    BY <1>13, <2>1, <2>2 DEF LookUpPrevious
<1>14. ASSUME NEW o \in Operators, RestorePrevious(o) PROVE Tidy(s)'
  BY <1>14 DEF RestorePrevious
<1>15. ASSUME NEW o \in Operators, AuditRollback(o) PROVE Tidy(s)'
  BY <1>15 DEF AuditRollback
<1>16. ASSUME NEW o \in Operators, RollbackFails(o) PROVE Tidy(s)'
  BY <1>16 DEF RollbackFails
<1>17. ASSUME NEW o \in Operators, RevertRollback(o) PROVE Tidy(s)'
  BY <1>17 DEF RevertRollback, PutBack
<1>18. ASSUME NEW o \in Operators, NEW q \in Stages, NEW v \in Versions, StartPromotion(o, q, v) PROVE Tidy(s)'
  BY <1>4, <1>18 DEF StartPromotion
<1>19. ASSUME NEW o \in Operators, NEW q \in Stages, NEW v \in Marked, StartRollback(o, q, v) PROVE Tidy(s)'
  BY <1>4, <1>19 DEF StartRollback
<1>20. CASE UNCHANGED vars
  BY <1>20 DEF vars
<1> QED
  BY <1>3, <1>5, <1>6, <1>7, <1>8, <1>9, <1>10, <1>11, <1>12, <1>13, <1>14, <1>15, <1>16, <1>17, <1>18, <1>19, <1>20
     DEF Next, Promotion, Rollback

(* While nobody works on an alias it is where the last successful promotion   *)
(* or rollback left it, if nobody was killed or raced.                        *)
THEOREM FailuresLeaveNoTrace == Spec => []AliasFollowsSuccess
<1>1. AliasInv => AliasFollowsSuccess
  BY DEF AliasInv, Tidy, AliasFollowsSuccess
<1> QED
  BY <1>1, AliasInvInit, AliasInvNext, PTL DEF Spec

-------------------------------------------------------------------------------
(***************************************************************************)
(* The tags a rollback reads tell of the last promotion, as long as no     *)
(* call failed.  A version that has an alias has the tag of that stage,    *)
(* so that the tag without a stage is never taken for it; and whatever a   *)
(* tag names had the alias, and so has the tag itself.                     *)
(***************************************************************************)
Tagged(s) == {v \in Versions : previousIn[v][s] # NoTag}

Audited(s) ==
  /\ settled[s] \in Tagged(s) \cup {None}
  /\ \A v \in Versions : previousIn[v][s] \in Tagged(s) \cup {None, NoTag}
  /\ \A v \in Versions :
       \/ previousIn[v][s] = replaced[s][v]
       \/ \E o \in Operators : stage[o] = s /\ version[o] = v /\ pc[o] = "tagRest"
  /\ \A o \in Operators : stage[o] = s =>
       /\ pc[o] = "tagRest" => previousIn[version[o]][s] = previous[o]
       /\ pc[o] \in {"restore", "audit"} => previous[o] = previousIn[version[o]][s] /\ previous[o] # None

AuditInv == AliasInv /\ (failures = 0 => \A s \in Stages : Orderly(s) => Audited(s))

LEMMA AuditInvInit == Init => AuditInv
BY AliasInvInit, StagesAssumption DEF Init, AuditInv, Audited

\* A call that failed is never forgotten.
LEMMA NoFailureBefore ==
  ASSUME TypeInv, [Next]_vars, failures' = 0
  PROVE  failures = 0 /\ \A o \in Operators : ~PromotionFails(o) /\ ~RollbackFails(o)
<1> USE DEF TypeInv, TypeOK
<1>1. \A o \in Operators : ~PromotionFails(o) /\ ~RollbackFails(o)
  BY DEF PromotionFails, RollbackFails
<1>2. ASSUME NEW v \in Versions, Validate(v) PROVE failures = 0
  BY <1>2 DEF Validate, bounds
<1>3. ASSUME NEW o \in Operators, Promotion(o), ~PromotionFails(o) PROVE failures = 0
  BY <1>3 DEF Promotion, StartPromotion, TakeUp, CheckVersion, PeekAlias, MoveAlias, TagStanding, TagAny, TagIn,
              TagRest, RevertPromotion, bounds
<1>4. ASSUME NEW o \in Operators, Rollback(o), ~RollbackFails(o) PROVE failures = 0
  BY <1>4 DEF Rollback, StartRollback, TakeUp, ReadCurrent, LookUpPrevious, RestorePrevious, AuditRollback,
              RevertRollback, bounds
<1>5. ASSUME NEW o \in Operators, Abort(o) PROVE failures = 0
  BY <1>5 DEF Abort
<1>6. ASSUME UNCHANGED vars PROVE failures = 0
  BY <1>6 DEF vars, bounds
<1> HIDE DEF TypeInv, TypeOK
<1> QED
  BY <1>1, <1>2, <1>3, <1>4, <1>5, <1>6 DEF Next

\* A step outside the part that reads or writes the stage's tag.
LEMMA AuditedFrame ==
  ASSUME NEW s \in Stages, NEW o \in Operators, Audited(s),
         UNCHANGED <<previousIn, settled, replaced>>,
         pc[o] # "tagRest", pc'[o] \notin {"tagRest", "restore", "audit"},
         \A p \in Operators \ {o} : /\ pc'[p] = pc[p] /\ stage'[p] = stage[p]
                                    /\ version'[p] = version[p] /\ previous'[p] = previous[p]
  PROVE  Audited(s)'
<1>1. Tagged(s)' = Tagged(s)
  BY DEF Tagged
<1> QED
  BY <1>1 DEF Audited

LEMMA AuditInvNext == AuditInv /\ [Next]_vars => AuditInv'
<1> SUFFICES ASSUME AuditInv, [Next]_vars, failures' = 0, NEW s \in Stages, Orderly(s)' PROVE Audited(s)'
  BY AliasInvNext DEF AuditInv
<1>1. TypeInv /\ IdleIsFree
  BY DEF AuditInv, AliasInv
<1>2. Tidy(s) /\ Orderly(s) /\ \A o \in Operators : ~Abort(o)
  BY <1>1, OrderlyBefore DEF AuditInv, AliasInv
<1>3. Audited(s) /\ \A o \in Operators : ~PromotionFails(o) /\ ~RollbackFails(o)
  BY <1>1, <1>2, NoFailureBefore DEF AuditInv
<1> USE <1>1, <1>2, <1>3, MarksAssumption, StagesAssumption
    DEF TypeInv, TypeOK, SessionsKnow, IdleIsFree, Marked, Go, Finish, registry, task, session, history
<1>4. ASSUME NEW v \in Versions, Validate(v) PROVE Audited(s)'
  BY <1>4 DEF Validate, Audited, Tagged
<1>5. ASSUME NEW o \in Operators, NEW q \in Stages, NEW v \in Versions, StartPromotion(o, q, v) PROVE Audited(s)'
  BY <1>5, AuditedFrame DEF StartPromotion, TakeUp
<1>6. ASSUME NEW o \in Operators, CheckVersion(o) PROVE Audited(s)'
  <2>1. UNCHANGED <<previousIn, settled, replaced>> /\ pc[o] = "check"
    BY <1>6 DEF CheckVersion
  <2>2. CASE Finish(o)
    BY <2>1, <2>2, AuditedFrame
  <2>3. CASE Go(o, "peek") /\ UNCHANGED task
    BY <2>1, <2>3, AuditedFrame
  <2> QED
    BY <1>6, <2>2, <2>3 DEF CheckVersion
<1>7. ASSUME NEW o \in Operators, PeekAlias(o) PROVE Audited(s)'
  <2>1. UNCHANGED <<previousIn, settled, replaced>> /\ pc[o] = "peek"
    BY <1>7 DEF PeekAlias
  <2>2. CASE Finish(o)
    BY <2>1, <2>2, AuditedFrame
  <2>3. CASE Go(o, "move") /\ previous' = [previous EXCEPT ![o] = alias[stage[o]]] /\ UNCHANGED <<stage, version>>
    BY <2>1, <2>3, AuditedFrame
  <2> QED
    BY <1>7, <2>2, <2>3 DEF PeekAlias
<1>8. ASSUME NEW o \in Operators, MoveAlias(o) PROVE Audited(s)'
  BY <1>8, AuditedFrame DEF MoveAlias
<1>9. ASSUME NEW o \in Operators, TagStanding(o) \/ TagAny(o) PROVE Audited(s)'
  <2>1. CASE TagStanding(o)
    BY <2>1, AuditedFrame DEF TagStanding
  <2>2. CASE TagAny(o)
    BY <2>2, AuditedFrame DEF TagAny
  <2> QED
    BY <1>9, <2>1, <2>2
<1> USE DEF Audited, Tagged, Tidy, Alone
<1>10. ASSUME NEW o \in Operators, TagIn(o) PROVE Audited(s)'
  <2>1. CASE stage[o] # s
    BY <1>10, <2>1 DEF TagIn
  <2>2. CASE stage[o] = s
    <3>1. /\ previousIn' = [previousIn EXCEPT ![version[o]][s] = previous[o]]
          /\ pc' = [pc EXCEPT ![o] = "tagRest"]
          /\ UNCHANGED <<stage, version, previous, settled, replaced>>
      BY <1>10, <2>2 DEF TagIn
    <3>2. version[o] \in Versions /\ previous[o] = settled[s] /\ previous[o] \in Marked
      BY <1>10, <2>2 DEF TagIn, Knows, Tagging
    <3>3. \A v \in Versions : previousIn'[v][s] = IF v = version[o] THEN settled[s] ELSE previousIn[v][s]
      BY <3>1, <3>2
    <3>4. Tagged(s)' = Tagged(s) \cup {version[o]}
      BY <3>2, <3>3
    <3> QED
      BY <2>2, <3>1, <3>2, <3>3, <3>4
  <2> QED
    BY <2>1, <2>2
<1>11. ASSUME NEW o \in Operators, TagRest(o) PROVE Audited(s)'
  <2>1. CASE stage[o] # s
    BY <1>11, <2>1 DEF TagRest
  <2>2. CASE stage[o] = s
    BY <1>11, <2>2 DEF TagRest
  <2> QED
    BY <2>1, <2>2
<1> HIDE DEF Audited, Tagged, Tidy, Alone
<1>12. ASSUME NEW o \in Operators, RevertPromotion(o) PROVE Audited(s)'
  BY <1>12, AuditedFrame DEF RevertPromotion, PutBack
<1>13. ASSUME NEW o \in Operators, NEW q \in Stages, NEW v \in Marked, StartRollback(o, q, v) PROVE Audited(s)'
  BY <1>13, AuditedFrame DEF StartRollback, TakeUp
<1>14. ASSUME NEW o \in Operators, ReadCurrent(o) PROVE Audited(s)'
  <2>1. UNCHANGED <<previousIn, settled, replaced>> /\ pc[o] = "current"
    BY <1>14 DEF ReadCurrent
  <2>2. CASE Finish(o)
    BY <2>1, <2>2, AuditedFrame
  <2>3. CASE Go(o, "lookup") /\ version' = [version EXCEPT ![o] = alias[stage[o]]] /\ UNCHANGED <<stage, previous>>
    BY <2>1, <2>3, AuditedFrame
  <2> QED
    BY <1>14, <2>2, <2>3 DEF ReadCurrent
<1>15. ASSUME NEW o \in Operators, LookUpPrevious(o) PROVE Audited(s)'
  <2>1. CASE Finish(o)
    BY <1>15, <2>1, AuditedFrame DEF LookUpPrevious
  <2>2. CASE Go(o, "restore") /\ previous' = [previous EXCEPT ![o] = Recorded(version[o], stage[o])]
                              /\ Recorded(version[o], stage[o]) \notin {None, NoTag}
    <3>1. /\ UNCHANGED <<stage, version, previousIn, settled, replaced>> /\ pc[o] = "lookup"
          /\ pc' = [pc EXCEPT ![o] = "restore"] /\ version[o] \in Versions
      BY <1>15, <2>2 DEF LookUpPrevious
    <3>2. stage[o] = s => previous'[o] = previousIn[version[o]][s] /\ previous'[o] # None
      BY <2>2, <3>1 DEF Knows, Recorded, Audited, Tagged, Tidy
    <3> QED
      BY <2>2, <3>1, <3>2 DEF Audited, Tagged
  <2> QED
    BY <1>15, <2>1, <2>2 DEF LookUpPrevious, NoPredecessor
<1>16. ASSUME NEW o \in Operators, RestorePrevious(o) PROVE Audited(s)'
  BY <1>16 DEF RestorePrevious, Audited, Tagged
<1>17. ASSUME NEW o \in Operators, AuditRollback(o) PROVE Audited(s)'
  BY <1>17 DEF AuditRollback, Audited, Tagged
<1>18. ASSUME NEW o \in Operators, RevertRollback(o) PROVE Audited(s)'
  BY <1>18, AuditedFrame DEF RevertRollback, PutBack
<1>19. CASE UNCHANGED vars
  BY <1>19 DEF vars, Audited, Tagged
<1> HIDE DEF TypeInv, TypeOK, SessionsKnow, IdleIsFree
<1> QED
  BY <1>4, <1>5, <1>6, <1>7, <1>8, <1>9, <1>10, <1>11, <1>12, <1>13, <1>14, <1>15, <1>16, <1>17, <1>18, <1>19
     DEF Next, Promotion, Rollback

(* A rollback restores the version that the last successful promotion of the  *)
(* current one replaced, if no call failed, and nobody was killed or raced.   *)
THEOREM RollbacksRestore == Spec => RestoresReplacedUnlessFailed
<1>1. AuditInv /\ [Next]_vars =>
        [\A o \in Operators :
           Restores(o) /\ Orderly(stage[o]) /\ failures = 0 => previous[o] = replaced[stage[o]][version[o]]]_vars
  <2> SUFFICES ASSUME AuditInv, NEW o \in Operators, Restores(o), Orderly(stage[o]), failures = 0
               PROVE  previous[o] = replaced[stage[o]][version[o]]
    OBVIOUS
  <2>1. stage[o] \in Stages /\ version[o] \in Versions
    BY DEF AuditInv, AliasInv, TypeInv, SessionsKnow, Restores
  <2>2. Audited(stage[o]) /\ Alone(stage[o])
    BY <2>1 DEF AuditInv, AliasInv, Tidy
  <2> QED
    BY <2>1, <2>2 DEF Audited, Alone, Restores
<1> QED
  BY <1>1, AuditInvInit, AuditInvNext, PTL DEF Spec, RestoresReplacedUnlessFailed

===============================================================================
