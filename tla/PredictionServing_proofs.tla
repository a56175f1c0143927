----------------------- MODULE PredictionServing_proofs -----------------------
(***************************************************************************)
(* Theorems about PredictionServing, for every number of requests, ids and *)
(* payloads and all settings.                                              *)
(***************************************************************************)
EXTENDS PredictionServing, FiniteSetTheorems, WellFoundedInduction, TLAPS

\* A waiting handler holds somebody's future.
WaitersJoined == \A r \in Requests : pc[r] = "waiting" => joined[r] \in Requests

TypeInv == TypeOK /\ WaitersJoined

\* Purging and evicting only remove entries.
LEMMA RoomWithinLive ==
  ASSUME NEW kept \in TablesWithRoom
  PROVE  kept \subseteq Live /\ Live \subseteq entries
BY DEF TablesWithRoom, Live

LEMMA TypeInvInit == Init => TypeInv
BY RequestsAssumption, SettingsAssumption
   DEF Init, TypeInv, TypeOK, WaitersJoined, Phases, Places, Statuses

LEMMA TypeInvNext == TypeInv /\ [Next]_vars => TypeInv'
<1> SUFFICES ASSUME TypeInv, [Next]_vars PROVE TypeInv'
  OBVIOUS
<1> USE RequestsAssumption, SettingsAssumption, ClockAssumption
    DEF TypeInv, TypeOK, WaitersJoined, Phases, Places, Statuses,
        handlers, table, slots, process
<1>1. ASSUME NEW r \in Requests, RefuseUnready(r) PROVE TypeInv'
  BY <1>1 DEF RefuseUnready, Answer
<1>2. ASSUME NEW r \in Requests, RefuseConflict(r) PROVE TypeInv'
  BY <1>2 DEF RefuseConflict, Answer, Live
<1>3. ASSUME NEW r \in Requests, Join(r) PROVE TypeInv'
  BY <1>3 DEF Join, Suspend, Live, EntriesOf
<1>4. ASSUME NEW r \in Requests, RefuseFull(r) PROVE TypeInv'
  BY <1>4, RoomWithinLive DEF RefuseFull, Answer
<1>5. ASSUME NEW r \in Requests, AdmitUnpreparable(r) PROVE TypeInv'
  BY <1>5, RoomWithinLive DEF AdmitUnpreparable, Answer
<1>6. ASSUME NEW r \in Requests, AdmitScoring(r) PROVE TypeInv'
  BY <1>6, RoomWithinLive DEF AdmitScoring, AddEntry, Suspend, SlotFree
<1>7. ASSUME NEW r \in Requests, AdmitQueued(r) PROVE TypeInv'
  BY <1>7, RoomWithinLive DEF AdmitQueued, AddEntry, Suspend
<1>8. ASSUME NEW r \in Requests, GrantSlot(r) PROVE TypeInv'
  BY <1>8 DEF GrantSlot, Suspend
<1>9. ASSUME NEW r \in Requests, GiveUpQueueing(r) PROVE TypeInv'
  BY <1>9 DEF GiveUpQueueing, Answer, FailEntry
<1>10. ASSUME NEW r \in Requests, OwnerScores(r) PROVE TypeInv'
  BY <1>10 DEF OwnerScores, Answer, CompleteEntry, ReleaseSlot
<1>11. ASSUME NEW r \in Requests, OwnerFails(r) PROVE TypeInv'
  BY <1>11 DEF OwnerFails, Answer, FailEntry, ReleaseSlot
<1>12. ASSUME NEW r \in Requests, OwnerTimesOut(r) PROVE TypeInv'
  BY <1>12 DEF OwnerTimesOut, Answer, FailEntry, DeferRelease
<1>13. ASSUME NEW r \in Requests, Replay(r) PROVE TypeInv'
  BY <1>13 DEF Replay, Answer
<1>14. ASSUME NEW r \in Requests, JoinedCancelled(r) PROVE TypeInv'
  BY <1>14 DEF JoinedCancelled, Answer
<1>15. ASSUME NEW r \in Requests, JoinedTimesOut(r) PROVE TypeInv'
  BY <1>15 DEF JoinedTimesOut, Answer
<1>16. ASSUME NEW r \in Requests, ThreadEnds(r) PROVE TypeInv'
  BY <1>16 DEF ThreadEnds
<1>17. ASSUME NEW r \in Requests, ReleaseOrphan(r) PROVE TypeInv'
  BY <1>17 DEF ReleaseOrphan, ReleaseSlot
<1>18. CASE BeginShutdown
  BY <1>18 DEF BeginShutdown
<1>19. CASE CloseStore \/ CloseExecutor
  BY <1>19 DEF CloseStore, CloseExecutor
<1>20. CASE FinishShutdown
  BY <1>20 DEF FinishShutdown
<1>21. CASE Tick
  BY <1>21 DEF Tick
<1>22. CASE UNCHANGED vars
  BY <1>22 DEF vars
<1>23. QED
  BY <1>1, <1>2, <1>3, <1>4, <1>5, <1>6, <1>7, <1>8, <1>9, <1>10, <1>11, <1>12, <1>13,
     <1>14, <1>15, <1>16, <1>17, <1>18, <1>19, <1>20, <1>21, <1>22
     DEF Next, Handler, Quiet

\* Every variable keeps its type.
THEOREM TypeCorrect == Spec => []TypeOK
<1>1. TypeInv => TypeOK
  BY DEF TypeInv
<1>2. QED
  BY <1>1, TypeInvInit, TypeInvNext, PTL DEF Spec

-------------------------------------------------------------------------------
\* A timed-out prediction's handler has answered, and a running thread holds a slot.
SlotInv ==
  /\ SlotsConserved
  /\ \A r \in orphaned : pc[r] = "answered"
  /\ \A r \in Requests : thread[r] = "running" => r \in SlotHolders

LEMMA HoldersFinite ==
  ASSUME TypeOK
  PROVE  SlotHolders \in SUBSET Requests /\ IsFiniteSet(SlotHolders)
         /\ Cardinality(SlotHolders) \in Nat
BY RequestsAssumption, FS_Subset, FS_CardinalityType DEF SlotHolders

\* Steps that neither take nor release a slot.
LEMMA SlotsUntouched ==
  ASSUME TypeInv, SlotInv, permits' = permits, orphaned' = orphaned,
         \A r \in Requests : pc'[r] = "scoring" <=> pc[r] = "scoring",
         \A r \in Requests : pc[r] = "answered" => pc'[r] = "answered",
         \A r \in Requests : thread'[r] = "running" => thread[r] = "running"
  PROVE  SlotInv'
<1>1. SlotHolders' = SlotHolders
  BY DEF SlotHolders, TypeInv, TypeOK
<1>2. QED
  BY <1>1 DEF SlotInv, SlotsConserved, TypeInv, TypeOK

\* Steps by which r takes a slot.
LEMMA SlotTaken ==
  ASSUME TypeInv, SlotInv, NEW r \in Requests, pc[r] \in {"new", "queued"},
         permits > 0, permits' = permits - 1, orphaned' = orphaned,
         pc' = [pc EXCEPT ![r] = "scoring"], thread' = [thread EXCEPT ![r] = "running"]
  PROVE  SlotInv'
<1>1. r \notin SlotHolders
  BY DEF SlotHolders, SlotInv, TypeInv, TypeOK
<1>2. SlotHolders' = SlotHolders \cup {r}
  BY DEF SlotHolders, TypeInv, TypeOK
<1>3. Cardinality(SlotHolders') = Cardinality(SlotHolders) + 1
  BY <1>1, <1>2, HoldersFinite, FS_AddElement DEF TypeInv
<1>4. SlotsConserved'
  BY <1>3, HoldersFinite, SettingsAssumption DEF SlotInv, SlotsConserved, TypeInv, TypeOK
<1>5. QED
  BY <1>2, <1>4 DEF SlotInv, TypeInv, TypeOK

\* Steps by which r gives its slot back.
LEMMA SlotReleased ==
  ASSUME TypeInv, SlotInv, NEW r \in Requests, r \in SlotHolders, ReleaseSlot(r),
         pc' = [pc EXCEPT ![r] = "answered"], orphaned' = orphaned \ {r}
  PROVE  SlotInv'
<1>1. SlotHolders' = SlotHolders \ {r}
  BY DEF SlotHolders, TypeInv, TypeOK
<1>2. Cardinality(SlotHolders') = Cardinality(SlotHolders) - 1
  BY <1>1, HoldersFinite, FS_RemoveElement DEF TypeInv
<1>3. SlotsConserved'
  BY <1>2, HoldersFinite, SettingsAssumption
     DEF SlotInv, SlotsConserved, TypeInv, TypeOK, ReleaseSlot
<1>4. QED
  BY <1>1, <1>3 DEF SlotInv, TypeInv, TypeOK, ReleaseSlot

LEMMA SlotInvInit == Init => SlotInv
<1> SUFFICES ASSUME Init PROVE SlotInv
  OBVIOUS
<1>1. SlotHolders = {}
  BY DEF Init, SlotHolders
<1>2. QED
  BY <1>1, FS_EmptySet, SettingsAssumption DEF Init, SlotInv, SlotsConserved

LEMMA SlotInvNext == TypeInv /\ SlotInv /\ [Next]_vars => SlotInv'
<1> SUFFICES ASSUME TypeInv, SlotInv, [Next]_vars PROVE SlotInv'
  OBVIOUS
<1> USE DEF handlers, table, slots, process
<1>1. ASSUME NEW r \in Requests,
             \/ RefuseUnready(r) \/ RefuseConflict(r) \/ Join(r)
             \/ RefuseFull(r) \/ AdmitUnpreparable(r) \/ AdmitQueued(r)
      PROVE  SlotInv'
  <2>1. pc[r] = "new"
    BY <1>1 DEF RefuseUnready, RefuseConflict, Join, RefuseFull, AdmitUnpreparable,
                AdmitQueued, AddEntry, FindsRoom, Arrives
  <2>2. /\ slots' = slots
        /\ \E place \in {"answered", "waiting", "queued"} : pc' = [pc EXCEPT ![r] = place]
    BY <1>1 DEF RefuseUnready, RefuseConflict, Join, RefuseFull, AdmitUnpreparable,
                AdmitQueued, Answer, Suspend
  <2>3. QED
    BY <2>1, <2>2, SlotsUntouched DEF TypeInv, TypeOK
<1>2. ASSUME NEW r \in Requests,
             \/ GiveUpQueueing(r) \/ Replay(r) \/ JoinedCancelled(r) \/ JoinedTimesOut(r)
      PROVE  SlotInv'
  <2>1. /\ pc[r] \in {"queued", "waiting"}
        /\ slots' = slots
        /\ pc' = [pc EXCEPT ![r] = "answered"]
    BY <1>2 DEF GiveUpQueueing, Replay, JoinedCancelled, JoinedTimesOut, Answer
  <2>2. QED
    BY <2>1, SlotsUntouched DEF TypeInv, TypeOK
<1>3. ASSUME NEW r \in Requests, AdmitScoring(r) PROVE SlotInv'
  <2>1. pc[r] = "new" /\ permits > 0
    BY <1>3 DEF AdmitScoring, AddEntry, FindsRoom, Arrives, SlotFree
  <2>2. QED
    BY <1>3, <2>1, SlotTaken DEF AdmitScoring, Suspend
<1>4. ASSUME NEW r \in Requests, GrantSlot(r) PROVE SlotInv'
  BY <1>4, SlotTaken DEF GrantSlot, NextInLine, Suspend
<1>5. ASSUME NEW r \in Requests, OwnerScores(r) \/ OwnerFails(r) PROVE SlotInv'
  <2>1. pc[r] = "scoring" /\ ReleaseSlot(r) /\ orphaned' = orphaned
        /\ pc' = [pc EXCEPT ![r] = "answered"]
    BY <1>5 DEF OwnerScores, OwnerFails, Answer
  <2>2. r \in SlotHolders /\ orphaned' = orphaned \ {r}
    BY <2>1 DEF SlotHolders, SlotInv
  <2>3. QED
    BY <2>1, <2>2, SlotReleased
<1>6. ASSUME NEW r \in Requests, ReleaseOrphan(r) PROVE SlotInv'
  <2>1. /\ r \in SlotHolders /\ ReleaseSlot(r) /\ orphaned' = orphaned \ {r}
        /\ pc' = [pc EXCEPT ![r] = "answered"]
    BY <1>6 DEF ReleaseOrphan, SlotHolders, SlotInv, TypeInv, TypeOK
  <2>2. QED
    BY <2>1, SlotReleased
<1>7. ASSUME NEW r \in Requests, OwnerTimesOut(r) PROVE SlotInv'
  <2>1. /\ pc[r] = "scoring" /\ pc' = [pc EXCEPT ![r] = "answered"]
        /\ orphaned' = orphaned \cup {r} /\ permits' = permits /\ thread' = thread
    BY <1>7 DEF OwnerTimesOut, Answer, DeferRelease
  <2>2. SlotHolders' = SlotHolders
    BY <2>1 DEF SlotHolders, TypeInv, TypeOK
  <2>3. QED
    BY <2>1, <2>2 DEF SlotInv, SlotsConserved, TypeInv, TypeOK
<1>8. ASSUME NEW r \in Requests, ThreadEnds(r) PROVE SlotInv'
  <2>1. /\ permits' = permits /\ orphaned' = orphaned /\ pc' = pc
        /\ \A q \in Requests : thread'[q] = "running" => thread[q] = "running"
    BY <1>8 DEF ThreadEnds, TypeInv, TypeOK
  <2>2. QED
    BY <2>1, SlotsUntouched
<1>9. CASE BeginShutdown \/ CloseStore \/ CloseExecutor \/ FinishShutdown \/ Tick \/ UNCHANGED vars
  <2>1. slots' = slots /\ pc' = pc
    BY <1>9 DEF BeginShutdown, CloseStore, CloseExecutor, FinishShutdown, Tick, vars
  <2>2. QED
    BY <2>1, SlotsUntouched
<1>10. QED
  BY <1>1, <1>2, <1>3, <1>4, <1>5, <1>6, <1>7, <1>8, <1>9 DEF Next, Handler, Quiet

\* Slots are conserved: none is released twice and none is lost.
THEOREM SlotAccounting == Spec => []SlotsConserved
<1>1. SlotInv => SlotsConserved
  BY DEF SlotInv
<1>2. QED
  BY <1>1, TypeInvInit, TypeInvNext, SlotInvInit, SlotInvNext, PTL DEF Spec

\* The model never runs in more threads than there are slots.
THEOREM ThreadLimit == Spec => []ThreadsBounded
<1>1. TypeInv /\ SlotInv => ThreadsBounded
  <2> SUFFICES ASSUME TypeInv, SlotInv PROVE ThreadsBounded
    OBVIOUS
  <2> DEFINE Running == {r \in Requests : thread[r] = "running"}
  <2>1. Running \in SUBSET SlotHolders
    BY DEF SlotInv
  <2>2. IsFiniteSet(Running) /\ Cardinality(Running) <= Cardinality(SlotHolders)
    BY <2>1, HoldersFinite, FS_Subset DEF TypeInv
  <2>3. Cardinality(Running) \in Nat
    BY <2>2, FS_CardinalityType
  <2>4. QED
    BY <2>2, <2>3, HoldersFinite, SettingsAssumption
       DEF SlotInv, SlotsConserved, ThreadsBounded, TypeInv, TypeOK
<1>2. QED
  BY <1>1, TypeInvInit, TypeInvNext, SlotInvInit, SlotInvNext, PTL DEF Spec

-------------------------------------------------------------------------------
(***************************************************************************)
(* Ownership.  When an entry outlives the slowest prediction, a handler at *)
(* work always finds its own entry under its id, so completing and failing *)
(* by id reach no other request.                                           *)
(***************************************************************************)

\* A request that has not arrived has left no trace.
FreshRequests ==
  \A r \in Requests :
    pc[r] = "new" => r \notin entries /\ future[r] = "pending" /\ answer[r] = "none"

\* Timers are served in time, and an owner's timer leaves its entry room to live.
OwnersInTime ==
  /\ \A r \in Requests : pc[r] \in Suspended => now <= deadline[r] + Lag
  /\ \A r \in Requests :
       pc[r] = "queued" => deadline[r] + Ttl <= expiresAt[r] + QueueTimeout
  /\ \A r \in Requests :
       pc[r] = "scoring" =>
         deadline[r] + Ttl <= expiresAt[r] + QueueTimeout + Lag + PredictionTimeout

OwnersHaveEntries ==
  \A r \in Requests : pc[r] \in Owning => r \in entries /\ future[r] = "pending"

OneEntryPerId == \A e, f \in entries : ask[e].id = ask[f].id => e = f

WaitersMatch ==
  \A r \in Requests :
    pc[r] = "waiting" =>
      joined[r] \in Requests /\ pc[joined[r]] # "new" /\ ask[joined[r]] = ask[r]

\* A settled result is its creator's own, delivered to its own caller.
ResultsSettled ==
  \A e \in Requests :
    future[e] = "done" =>
      resolvedBy[e] = e /\ answer[e] = "scored" /\ telemetry[e] # "none"

AnswersFinal == \A r \in Requests : answer[r] # "none" <=> pc[r] = "answered"

\* Nobody is suspended once the executor is being closed.
DrainedBeforeClosing ==
  phase \in {"flushing", "closing", "stopped"} => \A r \in Requests : pc[r] \notin Suspended

OwnershipInv ==
  /\ FreshRequests
  /\ DrainedBeforeClosing
  /\ OwnersInTime
  /\ OwnersHaveEntries
  /\ OneEntryPerId
  /\ WaitersMatch
  /\ ResultsSettled
  /\ AnswersFinal
  /\ NoAbandonedEntry
  /\ NoStrandedWaiter
  /\ ReplayFaithful

LEMMA OwnershipInit == Init => OwnershipInv
BY RequestsAssumption, SettingsAssumption, ClockAssumption
   DEF Init, OwnershipInv, FreshRequests, DrainedBeforeClosing, OwnersInTime, OwnersHaveEntries, OneEntryPerId,
       WaitersMatch, ResultsSettled, AnswersFinal, NoAbandonedEntry, NoStrandedWaiter,
       ReplayFaithful, Owning, Suspended

\* An owner's entry has not expired.
LEMMA OwnersLive ==
  ASSUME TtlCoversPrediction, TypeInv, OwnershipInv, NEW r \in Requests, pc[r] \in Owning
  PROVE  r \in Live
<1>1. expiresAt[r] > now
  BY SettingsAssumption, ClockAssumption
     DEF TtlCoversPrediction, TypeInv, TypeOK, OwnershipInv, OwnersInTime, Owning, Suspended
<1>2. QED
  BY <1>1 DEF Live, OwnershipInv, OwnersHaveEntries

\* Making room touches no owner's entry.
LEMMA RoomKeepsOwners ==
  ASSUME TtlCoversPrediction, TypeInv, OwnershipInv, NEW kept \in TablesWithRoom,
         NEW r \in Requests, pc[r] \in Owning
  PROVE  r \in kept
<1>1. r \in Live /\ future[r] = "pending"
  BY OwnersLive DEF OwnershipInv, OwnersHaveEntries
<1>2. QED
  BY <1>1 DEF TablesWithRoom, Evictable

\* An owner's id leads to its own entry.
LEMMA OwnersFindThemselves ==
  ASSUME TypeInv, OwnershipInv, NEW r \in Requests, pc[r] \in Owning
  PROVE  EntriesOf(r) = {r} /\ future[r] = "pending"
BY DEF EntriesOf, OwnershipInv, OwnersHaveEntries, OneEntryPerId, TypeInv, TypeOK

\* Steps in which r leaves its handler with an error: the table may lose settled
\* or expired entries and, if r owned one, r's own.
LEMMA OwnershipAfterError ==
  ASSUME TypeInv, OwnershipInv, NEW r \in Requests, pc[r] # "answered",
         pc' = [pc EXCEPT ![r] = "answered"],
         NEW status \in {"conflict", "busy", "timeout", "unavailable"},
         answer' = [answer EXCEPT ![r] = status],
         deadline' = [deadline EXCEPT ![r] = 0],
         joined' = [joined EXCEPT ![r] = Nobody],
         UNCHANGED <<now, process, ask, servedBy, telemetry, resolvedBy>>,
         entries' \subseteq entries,
         \A q \in Requests \ {r} : pc[q] \in Owning => q \in entries',
         \A q \in Requests \ {r} : future'[q] = future[q] /\ expiresAt'[q] = expiresAt[q],
         \/ future'[r] # "pending" /\ r \notin entries'
         \/ pc[r] \notin Owning /\ future'[r] = future[r],
         future'[r] = "done" => future[r] = "done"
  PROVE  OwnershipInv'
<1> USE DEF OwnershipInv, TypeInv, TypeOK, process
<1>1. \A q \in Requests \ {r} : /\ pc'[q] = pc[q] /\ answer'[q] = answer[q]
                                /\ deadline'[q] = deadline[q] /\ joined'[q] = joined[q]
  OBVIOUS
<1>2. pc'[r] = "answered" /\ answer'[r] = status
  OBVIOUS
<1>3. FreshRequests'
  BY <1>1, <1>2 DEF FreshRequests
<1>4. DrainedBeforeClosing'
  BY <1>1, <1>2 DEF DrainedBeforeClosing, Suspended
<1>5. OwnersInTime'
  BY <1>1, <1>2 DEF OwnersInTime, Suspended
<1>6. OwnersHaveEntries'
  BY <1>1, <1>2 DEF OwnersHaveEntries, Owning
<1>7. OneEntryPerId'
  BY DEF OneEntryPerId
<1>8. WaitersMatch'
  BY <1>1, <1>2 DEF WaitersMatch
<1>9. ResultsSettled'
  BY <1>1, <1>2 DEF ResultsSettled, AnswersFinal
<1>10. AnswersFinal'
  BY <1>1, <1>2 DEF AnswersFinal
<1>11. NoAbandonedEntry'
  BY <1>1, <1>2 DEF NoAbandonedEntry, Owning
<1>12. NoStrandedWaiter'
  BY <1>1, <1>2 DEF NoStrandedWaiter, WaitersMatch, FreshRequests, Owning
<1>13. ReplayFaithful'
  BY <1>1, <1>2 DEF ReplayFaithful, AnswersFinal
<1>14. QED
  BY <1>3, <1>4, <1>5, <1>6, <1>7, <1>8, <1>9, <1>10, <1>11, <1>12, <1>13

\* Steps that settle nothing and answer nobody but a request r that waits.
LEMMA OwnershipAfterReplay ==
  ASSUME TypeInv, OwnershipInv, NEW r \in Requests, Replay(r)
  PROVE  OwnershipInv'
<1> USE DEF OwnershipInv, TypeInv, TypeOK, process, table, Replay, Answer
<1>1. FreshRequests'
  BY DEF FreshRequests
<1>2. DrainedBeforeClosing'
  BY DEF DrainedBeforeClosing, Suspended
<1>3. OwnersInTime'
  BY DEF OwnersInTime, Suspended
<1>4. OwnersHaveEntries'
  BY DEF OwnersHaveEntries, Owning
<1>5. OneEntryPerId'
  BY DEF OneEntryPerId
<1>6. WaitersMatch'
  BY DEF WaitersMatch
<1>7. ResultsSettled'
  BY DEF ResultsSettled, AnswersFinal
<1>8. AnswersFinal'
  BY DEF AnswersFinal
<1>9. NoAbandonedEntry'
  BY DEF NoAbandonedEntry, Owning
<1>10. NoStrandedWaiter'
  BY DEF NoStrandedWaiter, Owning
<1>11. ReplayFaithful'
  BY DEF ReplayFaithful, ResultsSettled, WaitersMatch, AnswersFinal
<1>12. QED
  BY <1>1, <1>2, <1>3, <1>4, <1>5, <1>6, <1>7, <1>8, <1>9, <1>10, <1>11

\* r's prediction succeeds: its own entry and nobody else's is settled.
LEMMA OwnershipAfterScore ==
  ASSUME TypeInv, OwnershipInv, NEW r \in Requests, OwnerScores(r)
  PROVE  OwnershipInv'
<1>a. EntriesOf(r) = {r} /\ pc[r] = "scoring" /\ future[r] = "pending"
  BY OwnersFindThemselves DEF OwnerScores, Owning
<1>b. /\ future' = [future EXCEPT ![r] = "done"]
      /\ resolvedBy' = [resolvedBy EXCEPT ![r] = r]
  BY <1>a DEF OwnerScores, CompleteEntry, TypeInv, TypeOK
<1>c. /\ pc' = [pc EXCEPT ![r] = "answered"] /\ answer' = [answer EXCEPT ![r] = "scored"]
      /\ deadline' = [deadline EXCEPT ![r] = 0] /\ joined' = [joined EXCEPT ![r] = Nobody]
      /\ servedBy' = [servedBy EXCEPT ![r] = r]
      /\ \E t \in {"queued", "dropped"} : telemetry' = [telemetry EXCEPT ![r] = t]
      /\ UNCHANGED <<now, process, ask, entries, expiresAt>>
  BY DEF OwnerScores, Answer, CompleteEntry
<1> USE DEF OwnershipInv, TypeInv, TypeOK, process
<1>1. FreshRequests'
  BY <1>a, <1>b, <1>c DEF FreshRequests
<1>2. DrainedBeforeClosing'
  BY <1>a, <1>b, <1>c DEF DrainedBeforeClosing, Suspended
<1>3. OwnersInTime'
  BY <1>a, <1>b, <1>c DEF OwnersInTime, Suspended
<1>4. OwnersHaveEntries'
  BY <1>a, <1>b, <1>c DEF OwnersHaveEntries, Owning
<1>5. OneEntryPerId'
  BY <1>a, <1>b, <1>c DEF OneEntryPerId
<1>6. WaitersMatch'
  BY <1>a, <1>b, <1>c DEF WaitersMatch, FreshRequests
<1>7. ResultsSettled'
  BY <1>a, <1>b, <1>c DEF ResultsSettled, AnswersFinal, Owning
<1>8. AnswersFinal'
  BY <1>a, <1>b, <1>c DEF AnswersFinal
<1>9. NoAbandonedEntry'
  BY <1>a, <1>b, <1>c DEF NoAbandonedEntry, Owning
<1>10. NoStrandedWaiter'
  BY <1>a, <1>b, <1>c DEF NoStrandedWaiter, Owning, WaitersMatch, FreshRequests, ResultsSettled
<1>11. ReplayFaithful'
  BY <1>a, <1>b, <1>c DEF ReplayFaithful, AnswersFinal, ResultsSettled
<1>12. QED
  BY <1>1, <1>2, <1>3, <1>4, <1>5, <1>6, <1>7, <1>8, <1>9, <1>10, <1>11

\* r joins the result of another request with its id and payload.
LEMMA OwnershipAfterJoin ==
  ASSUME TtlCoversPrediction, TypeInv, OwnershipInv, NEW r \in Requests, Join(r)
  PROVE  OwnershipInv'
<1>a. PICK e \in EntriesOf(r) \cap Live :
        SamePayload(e, r) /\ joined' = [joined EXCEPT ![r] = e]
  BY DEF Join
<1>b. e \in entries /\ ask[e] = ask[r]
  BY <1>a DEF EntriesOf, SamePayload, TypeInv, TypeOK, Asks
<1>c. /\ pc[r] = "new" /\ phase = "serving" /\ pc' = [pc EXCEPT ![r] = "waiting"]
      /\ deadline' = [deadline EXCEPT ![r] = now + PredictionTimeout]
      /\ entries' = Live /\ Live \subseteq entries
      /\ UNCHANGED <<now, process, ask, answer, servedBy, telemetry, expiresAt, future, resolvedBy>>
  BY DEF Join, Arrives, Suspend, Live
<1>d. \A q \in Requests : pc[q] \in Owning => q \in Live
  BY OwnersLive
<1> USE SettingsAssumption, ClockAssumption DEF OwnershipInv, TypeInv, TypeOK, process
<1>1. FreshRequests'
  BY <1>a, <1>b, <1>c, <1>d DEF FreshRequests
<1>2. DrainedBeforeClosing'
  BY <1>a, <1>b, <1>c, <1>d DEF DrainedBeforeClosing, Suspended
<1>3. OwnersInTime'
  BY <1>a, <1>b, <1>c, <1>d DEF OwnersInTime, Suspended
<1>4. OwnersHaveEntries'
  BY <1>a, <1>b, <1>c, <1>d DEF OwnersHaveEntries, Owning
<1>5. OneEntryPerId'
  BY <1>a, <1>b, <1>c, <1>d DEF OneEntryPerId
<1>6. WaitersMatch'
  BY <1>a, <1>b, <1>c, <1>d DEF WaitersMatch, FreshRequests
<1>7. ResultsSettled'
  BY <1>a, <1>b, <1>c, <1>d DEF ResultsSettled, AnswersFinal, Owning
<1>8. AnswersFinal'
  BY <1>a, <1>b, <1>c, <1>d DEF AnswersFinal
<1>9. NoAbandonedEntry'
  BY <1>a, <1>b, <1>c, <1>d DEF NoAbandonedEntry, Owning
<1>10. NoStrandedWaiter'
  BY <1>a, <1>b, <1>c, <1>d DEF NoStrandedWaiter, NoAbandonedEntry, Owning
<1>11. ReplayFaithful'
  BY <1>a, <1>b, <1>c, <1>d DEF ReplayFaithful, AnswersFinal, ResultsSettled
<1>12. QED
  BY <1>1, <1>2, <1>3, <1>4, <1>5, <1>6, <1>7, <1>8, <1>9, <1>10, <1>11

\* r becomes an owner and is suspended with one of the owner's timers.
LEMMA OwnershipAfterAdmission ==
  ASSUME TtlCoversPrediction, TypeInv, OwnershipInv, NEW r \in Requests,
         AdmitScoring(r) \/ AdmitQueued(r)
  PROVE  OwnershipInv'
<1>a. PICK kept \in TablesWithRoom : FindsRoom(r, kept) /\ entries' = kept \cup {r}
  BY DEF AdmitScoring, AdmitQueued, AddEntry
<1>b. kept \subseteq Live /\ Live \subseteq entries
  BY RoomWithinLive
<1>c. /\ pc[r] = "new" /\ phase = "serving" /\ EntriesOf(r) \cap Live = {}
      /\ expiresAt' = [expiresAt EXCEPT ![r] = now + Ttl]
      /\ \/ /\ pc' = [pc EXCEPT ![r] = "scoring"]
            /\ deadline' = [deadline EXCEPT ![r] = now + PredictionTimeout]
         \/ /\ pc' = [pc EXCEPT ![r] = "queued"]
            /\ deadline' = [deadline EXCEPT ![r] = now + QueueTimeout]
      /\ UNCHANGED <<now, process, ask, answer, servedBy, joined, telemetry, future, resolvedBy>>
  BY <1>a DEF AdmitScoring, AdmitQueued, AddEntry, FindsRoom, Arrives, Suspend
<1>d. \A q \in Requests : pc[q] \in Owning => q \in kept
  BY RoomKeepsOwners
<1>e. /\ \A e \in kept : e \in entries /\ ask[e].id # ask[r].id
      /\ ask' = ask /\ entries' = kept \cup {r}
  BY <1>a, <1>b, <1>c DEF EntriesOf
<1>f. /\ \A q \in Requests \ {r} : pc'[q] \in Owning => pc[q] \in Owning
      /\ pc[r] = "new" /\ future' = future
  BY <1>c DEF TypeInv, TypeOK
<1> USE SettingsAssumption, ClockAssumption DEF OwnershipInv, TypeInv, TypeOK, process
<1>1. FreshRequests'
  BY <1>a, <1>b, <1>c, <1>d DEF FreshRequests
<1>2. DrainedBeforeClosing'
  BY <1>a, <1>b, <1>c, <1>d DEF DrainedBeforeClosing, Suspended
<1>3. OwnersInTime'
  BY <1>a, <1>b, <1>c, <1>d DEF OwnersInTime, Suspended
<1>4. OwnersHaveEntries'
  BY <1>d, <1>e, <1>f DEF OwnersHaveEntries, FreshRequests
<1>5. OneEntryPerId'
  BY <1>e DEF OneEntryPerId
<1>6. WaitersMatch'
  BY <1>a, <1>b, <1>c, <1>d DEF WaitersMatch, FreshRequests
<1>7. ResultsSettled'
  BY <1>a, <1>b, <1>c, <1>d DEF ResultsSettled, AnswersFinal, Owning
<1>8. AnswersFinal'
  BY <1>a, <1>b, <1>c, <1>d DEF AnswersFinal
<1>9. NoAbandonedEntry'
  BY <1>a, <1>b, <1>c, <1>d DEF NoAbandonedEntry, Owning
<1>10. NoStrandedWaiter'
  BY <1>a, <1>b, <1>c, <1>d DEF NoStrandedWaiter, Owning, WaitersMatch, FreshRequests, ResultsSettled
<1>11. ReplayFaithful'
  BY <1>a, <1>b, <1>c, <1>d DEF ReplayFaithful, AnswersFinal, ResultsSettled
<1>12. QED
  BY <1>1, <1>2, <1>3, <1>4, <1>5, <1>6, <1>7, <1>8, <1>9, <1>10, <1>11

\* r leaves the queue for a slot within the loop's lag.
LEMMA OwnershipAfterGrant ==
  ASSUME TypeInv, OwnershipInv, NEW r \in Requests, GrantSlot(r)
  PROVE  OwnershipInv'
<1>c. /\ pc[r] = "queued" /\ pc' = [pc EXCEPT ![r] = "scoring"]
      /\ deadline' = [deadline EXCEPT ![r] = now + PredictionTimeout]
      /\ UNCHANGED <<now, process, ask, answer, servedBy, joined, telemetry, table>>
  BY DEF GrantSlot, NextInLine, Suspend
<1> USE SettingsAssumption, ClockAssumption DEF OwnershipInv, TypeInv, TypeOK, process, table
<1>1. FreshRequests'
  BY <1>c DEF FreshRequests
<1>2. DrainedBeforeClosing'
  BY <1>c DEF DrainedBeforeClosing, Suspended
<1>3. OwnersInTime'
  BY <1>c DEF OwnersInTime, Suspended
<1>4. OwnersHaveEntries'
  BY <1>c DEF OwnersHaveEntries, Owning
<1>5. OneEntryPerId'
  BY <1>c DEF OneEntryPerId
<1>6. WaitersMatch'
  BY <1>c DEF WaitersMatch, FreshRequests
<1>7. ResultsSettled'
  BY <1>c DEF ResultsSettled, AnswersFinal, Owning
<1>8. AnswersFinal'
  BY <1>c DEF AnswersFinal
<1>9. NoAbandonedEntry'
  BY <1>c DEF NoAbandonedEntry, Owning
<1>10. NoStrandedWaiter'
  BY <1>c DEF NoStrandedWaiter, Owning, WaitersMatch, FreshRequests, ResultsSettled
<1>11. ReplayFaithful'
  BY <1>c DEF ReplayFaithful, AnswersFinal, ResultsSettled
<1>12. QED
  BY <1>1, <1>2, <1>3, <1>4, <1>5, <1>6, <1>7, <1>8, <1>9, <1>10, <1>11

\* Steps of the process and its threads.
LEMMA OwnershipAfterProcessStep ==
  ASSUME TypeInv, OwnershipInv,
         UNCHANGED <<handlers, expiresAt, future, resolvedBy>>,
         \/ UNCHANGED <<now, process, entries>>
         \/ BeginShutdown
         \/ CloseStore
         \/ CloseExecutor
         \/ FinishShutdown
         \/ Tick
  PROVE  OwnershipInv'
<1> USE ClockAssumption
    DEF OwnershipInv, TypeInv, TypeOK, process, handlers, table,
        BeginShutdown, CloseStore, CloseExecutor, FinishShutdown, Tick
<1>1. FreshRequests'
  BY DEF FreshRequests
<1>2. DrainedBeforeClosing'
  BY DEF DrainedBeforeClosing, Suspended
<1>3. OwnersInTime'
  BY DEF OwnersInTime, Suspended
<1>4. OwnersHaveEntries'
  BY DEF OwnersHaveEntries, Owning, DrainedBeforeClosing, Suspended
<1>5. OneEntryPerId'
  BY DEF OneEntryPerId
<1>6. WaitersMatch'
  BY DEF WaitersMatch, FreshRequests
<1>7. ResultsSettled'
  BY DEF ResultsSettled, AnswersFinal, Owning
<1>8. AnswersFinal'
  BY DEF AnswersFinal
<1>9. NoAbandonedEntry'
  BY DEF NoAbandonedEntry, Owning
<1>10. NoStrandedWaiter'
  BY DEF NoStrandedWaiter, Owning, WaitersMatch, FreshRequests, ResultsSettled
<1>11. ReplayFaithful'
  BY DEF ReplayFaithful, AnswersFinal, ResultsSettled
<1>12. QED
  BY <1>1, <1>2, <1>3, <1>4, <1>5, <1>6, <1>7, <1>8, <1>9, <1>10, <1>11

LEMMA OwnershipNext ==
  ASSUME TtlCoversPrediction, TypeInv, OwnershipInv, [Next]_vars
  PROVE  OwnershipInv'
<1>1. ASSUME NEW r \in Requests, RefuseUnready(r) \/ RefuseConflict(r) \/ RefuseFull(r)
      PROVE  OwnershipInv'
  <2>1. /\ entries' \subseteq entries
        /\ \A q \in Requests : pc[q] \in Owning => q \in entries'
    BY <1>1, OwnersLive, RoomKeepsOwners, RoomWithinLive
       DEF RefuseUnready, RefuseConflict, RefuseFull, table, Live
  <2>2. pc[r] = "new"
    BY <1>1 DEF RefuseUnready, RefuseConflict, RefuseFull, FindsRoom, Arrives
  <2>3. QED
    BY <1>1, <2>1, <2>2, OwnershipAfterError
       DEF RefuseUnready, RefuseConflict, RefuseFull, Answer, table, process, Owning
<1>2. ASSUME NEW r \in Requests, AdmitUnpreparable(r)
      PROVE  OwnershipInv'
  <2>1. /\ entries' \subseteq entries
        /\ \A q \in Requests : pc[q] \in Owning => q \in entries'
    BY <1>2, RoomKeepsOwners, RoomWithinLive DEF AdmitUnpreparable
  <2>2. pc[r] = "new" /\ r \notin entries
    BY <1>2 DEF AdmitUnpreparable, FindsRoom, Arrives, OwnershipInv, FreshRequests
  <2>3. /\ pc' = [pc EXCEPT ![r] = "answered"] /\ answer' = [answer EXCEPT ![r] = "unavailable"]
        /\ deadline' = [deadline EXCEPT ![r] = 0] /\ joined' = [joined EXCEPT ![r] = Nobody]
        /\ UNCHANGED <<now, process, ask, servedBy, telemetry, resolvedBy>>
    BY <1>2 DEF AdmitUnpreparable, Answer
  <2>4. /\ \A q \in Requests \ {r} : future'[q] = future[q] /\ expiresAt'[q] = expiresAt[q]
        /\ future'[r] = "cancelled" /\ r \notin entries'
    BY <1>2, <2>1, <2>2 DEF AdmitUnpreparable, TypeInv, TypeOK
  <2>5. /\ \/ future'[r] # "pending" /\ r \notin entries'
           \/ pc[r] \notin Owning /\ future'[r] = future[r]
        /\ future'[r] = "done" => future[r] = "done"
        /\ \A q \in Requests \ {r} : pc[q] \in Owning => q \in entries'
        /\ pc[r] # "answered"
    BY <2>1, <2>2, <2>4
  <2>6. QED
    BY <2>1, <2>3, <2>4, <2>5, OwnershipAfterError
<1>3. ASSUME NEW r \in Requests, GiveUpQueueing(r) \/ OwnerFails(r) \/ OwnerTimesOut(r)
      PROVE  OwnershipInv'
  <2>1. EntriesOf(r) = {r} /\ pc[r] \in Owning /\ future[r] = "pending"
    BY <1>3, OwnersFindThemselves DEF GiveUpQueueing, OwnerFails, OwnerTimesOut, Owning
  <2>2. /\ entries' = entries \ {r} /\ future' = [future EXCEPT ![r] = "cancelled"]
        /\ UNCHANGED <<expiresAt, resolvedBy>>
    BY <1>3, <2>1
       DEF GiveUpQueueing, OwnerFails, OwnerTimesOut, FailEntry, TypeInv, TypeOK
  <2>3. \A q \in Requests \ {r} : pc[q] \in Owning => q \in entries'
    BY <2>2 DEF OwnershipInv, OwnersHaveEntries
  <2>4. future'[r] = "cancelled" /\ r \notin entries' /\ pc[r] # "answered"
    BY <2>1, <2>2 DEF TypeInv, TypeOK, Owning
  <2>5. /\ pc' = [pc EXCEPT ![r] = "answered"]
        /\ deadline' = [deadline EXCEPT ![r] = 0] /\ joined' = [joined EXCEPT ![r] = Nobody]
        /\ UNCHANGED <<now, process, ask, servedBy, telemetry, resolvedBy>>
    BY <1>3, <2>2 DEF GiveUpQueueing, OwnerFails, OwnerTimesOut, Answer
  <2>6. \E status \in {"conflict", "busy", "timeout", "unavailable"} :
          answer' = [answer EXCEPT ![r] = status]
    BY <1>3 DEF GiveUpQueueing, OwnerFails, OwnerTimesOut, Answer
  <2>7. /\ entries' \subseteq entries
        /\ \A q \in Requests \ {r} : future'[q] = future[q] /\ expiresAt'[q] = expiresAt[q]
    BY <2>2 DEF TypeInv, TypeOK
  <2>8. /\ \/ future'[r] # "pending" /\ r \notin entries'
           \/ pc[r] \notin Owning /\ future'[r] = future[r]
        /\ future'[r] = "done" => future[r] = "done"
    BY <2>4
  <2>9. QED
    BY <2>3, <2>4, <2>5, <2>6, <2>7, <2>8, OwnershipAfterError
<1>4. ASSUME NEW r \in Requests, JoinedCancelled(r) \/ JoinedTimesOut(r)
      PROVE  OwnershipInv'
  <2>1. pc[r] = "waiting" /\ UNCHANGED table
    BY <1>4 DEF JoinedCancelled, JoinedTimesOut
  <2>2. QED
    BY <1>4, <2>1, OwnershipAfterError
       DEF JoinedCancelled, JoinedTimesOut, Answer, table, process, Owning,
           OwnershipInv, OwnersHaveEntries
<1>5. ASSUME NEW r \in Requests, ThreadEnds(r) \/ ReleaseOrphan(r)
      PROVE  OwnershipInv'
  BY <1>5, OwnershipAfterProcessStep DEF ThreadEnds, ReleaseOrphan, table
<1>6. CASE UNCHANGED vars
  BY <1>6, OwnershipAfterProcessStep DEF vars, table
<1>7. CASE BeginShutdown \/ CloseStore \/ CloseExecutor \/ FinishShutdown \/ Tick
  <2>1. UNCHANGED <<handlers, expiresAt, future, resolvedBy>>
    BY <1>7 DEF BeginShutdown, CloseStore, CloseExecutor, FinishShutdown, Tick, table
  <2>2. QED
    BY <1>7, <2>1, OwnershipAfterProcessStep
<1>8. QED
  BY <1>1, <1>2, <1>3, <1>4, <1>5, <1>6, <1>7, OwnershipAfterReplay, OwnershipAfterScore,
     OwnershipAfterJoin, OwnershipAfterAdmission, OwnershipAfterGrant
     DEF Next, Handler, Quiet

LEMMA OwnershipAlways ==
  ASSUME TtlCoversPrediction
  PROVE  Spec => []OwnershipInv
<1>1. TypeInv /\ OwnershipInv /\ [Next]_vars => OwnershipInv'
  BY OwnershipNext
<1>2. QED
  BY <1>1, OwnershipInit, TypeInvInit, TypeInvNext, PTL DEF Spec

\* Under settings whose ttl covers a slow prediction, every 200 response is the
\* score of its own id and payload.
THEOREM ReplaysAreFaithful ==
  ASSUME TtlCoversPrediction
  PROVE  Spec => []ReplayFaithful
<1>1. OwnershipInv => ReplayFaithful
  BY DEF OwnershipInv
<1>2. QED
  BY <1>1, OwnershipAlways, PTL

\* Under the same settings an id is never computed twice at the same time.
THEOREM OneOwner ==
  ASSUME TtlCoversPrediction
  PROVE  Spec => []SingleOwner
<1>1. OwnershipInv => SingleOwner
  BY DEF OwnershipInv, SingleOwner, OwnersHaveEntries, OneEntryPerId
<1>2. QED
  BY <1>1, OwnershipAlways, PTL

\* Under the same settings nobody awaits a result that no handler will set.
THEOREM WaitersAreServed ==
  ASSUME TtlCoversPrediction
  PROVE  Spec => []NoStrandedWaiter
<1>1. OwnershipInv => NoStrandedWaiter
  BY DEF OwnershipInv
<1>2. QED
  BY <1>1, OwnershipAlways, PTL

-------------------------------------------------------------------------------
(***************************************************************************)
(* The size of the store.  It never holds more than max_entries, and its   *)
(* unsettled entries are those of handlers at work, so that a store full   *)
(* of them is a server at its limit.  None of this asks anything of ttl.   *)
(***************************************************************************)
StoreBounded == Cardinality(entries) <= MaxEntries

StoreInv ==
  /\ StoreBounded
  /\ \A r \in Requests : pc[r] = "new" => r \notin entries /\ answer[r] = "none"
  /\ NoAbandonedEntry

LEMMA EntriesFinite ==
  ASSUME TypeInv, NEW s \in SUBSET entries
  PROVE  IsFiniteSet(s) /\ Cardinality(s) \in Nat /\ Cardinality(s) <= Cardinality(entries)
         /\ Cardinality(entries) \in Nat
<1>1. IsFiniteSet(entries)
  BY RequestsAssumption, FS_Subset DEF TypeInv, TypeOK
<1> QED
  BY <1>1, FS_Subset, FS_CardinalityType

\* A step that only takes entries away, and settles or leaves what remains.
LEMMA StoreShrinks ==
  ASSUME TypeInv, StoreInv, NEW r \in Requests, entries' \subseteq entries,
         \A q \in Requests \ {r} : pc'[q] = pc[q] /\ answer'[q] = answer[q] /\ (future'[q] = "pending" => future[q] = "pending"),
         pc'[r] # "new",
         r \in entries' /\ future'[r] = "pending" => pc'[r] \in Owning
  PROVE  StoreInv'
<1>1. StoreBounded'
  BY EntriesFinite, SettingsAssumption DEF StoreInv, StoreBounded
<1>2. NoAbandonedEntry'
  BY DEF StoreInv, NoAbandonedEntry, TypeInv, TypeOK
<1>3. \A q \in Requests : pc'[q] = "new" => q \notin entries' /\ answer'[q] = "none"
  BY DEF StoreInv
<1> QED
  BY <1>1, <1>2, <1>3 DEF StoreInv

LEMMA StoreInvInit == Init => StoreInv
<1> SUFFICES ASSUME Init PROVE StoreInv
  OBVIOUS
<1>1. StoreBounded
  BY FS_EmptySet, SettingsAssumption DEF Init, StoreBounded
<1> QED
  BY <1>1 DEF Init, StoreInv, NoAbandonedEntry

LEMMA StoreInvNext == TypeInv /\ StoreInv /\ [Next]_vars => StoreInv'
<1> SUFFICES ASSUME TypeInv, StoreInv, [Next]_vars PROVE StoreInv'
  OBVIOUS
<1> USE DEF handlers, table, slots, process
<1>1. ASSUME NEW r \in Requests, RefuseUnready(r) \/ RefuseConflict(r) \/ Join(r) \/ RefuseFull(r)
      PROVE  StoreInv'
  <2>1. pc[r] = "new" /\ entries' \subseteq entries /\ UNCHANGED future
    BY <1>1, RoomWithinLive DEF RefuseUnready, RefuseConflict, Join, RefuseFull, FindsRoom, Arrives, Live
  <2>2. \E place \in {"answered", "waiting"} : pc' = [pc EXCEPT ![r] = place]
    BY <1>1 DEF RefuseUnready, RefuseConflict, Join, RefuseFull, Answer, Suspend
  <2>3. \A q \in Requests \ {r} : answer'[q] = answer[q]
    BY <1>1 DEF RefuseUnready, RefuseConflict, Join, RefuseFull, Answer, TypeInv, TypeOK
  <2>4. r \notin entries'
    BY <2>1 DEF StoreInv
  <2> QED
    BY <2>1, <2>2, <2>3, <2>4, StoreShrinks DEF TypeInv, TypeOK
<1>2. ASSUME NEW r \in Requests, AdmitUnpreparable(r) PROVE StoreInv'
  <2>1. /\ pc[r] = "new" /\ entries' \subseteq entries /\ future' = [future EXCEPT ![r] = "cancelled"]
        /\ pc' = [pc EXCEPT ![r] = "answered"] /\ answer' = [answer EXCEPT ![r] = "unavailable"]
    BY <1>2, RoomWithinLive DEF AdmitUnpreparable, FindsRoom, Arrives, Answer
  <2> QED
    BY <2>1, StoreShrinks DEF TypeInv, TypeOK
<1>3. ASSUME NEW r \in Requests, AdmitScoring(r) \/ AdmitQueued(r) PROVE StoreInv'
  <2>1. PICK kept \in TablesWithRoom : FindsRoom(r, kept) /\ HasRoom(kept) /\ entries' = kept \cup {r}
    BY <1>3 DEF AdmitScoring, AdmitQueued, AddEntry
  <2>2. kept \subseteq entries /\ r \notin entries
    BY <2>1, RoomWithinLive DEF FindsRoom, Arrives, StoreInv
  <2>3. Cardinality(kept \cup {r}) = Cardinality(kept) + 1
    BY <2>2, EntriesFinite, FS_AddElement
  <2>4. StoreBounded'
    BY <2>1, <2>2, <2>3, EntriesFinite, SettingsAssumption DEF HasRoom, StoreBounded
  <2>5. /\ \E place \in Owning : pc' = [pc EXCEPT ![r] = place]
        /\ UNCHANGED <<future, answer>>
    BY <1>3 DEF AdmitScoring, AdmitQueued, Suspend, Owning
  <2> QED
    BY <2>1, <2>2, <2>4, <2>5 DEF StoreInv, NoAbandonedEntry, TypeInv, TypeOK, Owning
<1>4. ASSUME NEW r \in Requests, GrantSlot(r) PROVE StoreInv'
  <2>1. pc' = [pc EXCEPT ![r] = "scoring"] /\ UNCHANGED <<entries, future, answer>>
    BY <1>4 DEF GrantSlot, Suspend
  <2> QED
    BY <2>1, StoreShrinks DEF TypeInv, TypeOK, Owning
<1>5. ASSUME NEW r \in Requests, GiveUpQueueing(r) \/ OwnerFails(r) \/ OwnerTimesOut(r) PROVE StoreInv'
  <2>1. FailEntry(r) /\ pc' = [pc EXCEPT ![r] = "answered"] /\ \E a \in Statuses : answer' = [answer EXCEPT ![r] = a]
    BY <1>5 DEF GiveUpQueueing, OwnerFails, OwnerTimesOut, Answer, Statuses
  <2>2. r \notin entries'
    BY <2>1 DEF FailEntry, EntriesOf
  <2> QED
    BY <2>1, <2>2, StoreShrinks DEF FailEntry, TypeInv, TypeOK
<1>6. ASSUME NEW r \in Requests, OwnerScores(r) PROVE StoreInv'
  <2>1. CompleteEntry(r) /\ pc' = [pc EXCEPT ![r] = "answered"] /\ answer' = [answer EXCEPT ![r] = "scored"]
    BY <1>6 DEF OwnerScores, Answer
  <2>2. r \in entries => future'[r] # "pending"
    BY <2>1 DEF CompleteEntry, EntriesOf
  <2> QED
    BY <2>1, <2>2, StoreShrinks DEF CompleteEntry, TypeInv, TypeOK
<1>7. ASSUME NEW r \in Requests, Replay(r) \/ JoinedCancelled(r) \/ JoinedTimesOut(r) PROVE StoreInv'
  <2>1. /\ pc[r] = "waiting" /\ UNCHANGED <<entries, future>> /\ pc' = [pc EXCEPT ![r] = "answered"]
        /\ \E a \in Statuses : answer' = [answer EXCEPT ![r] = a]
    BY <1>7 DEF Replay, JoinedCancelled, JoinedTimesOut, Answer, Statuses
  <2>2. r \in entries => future[r] # "pending"
    BY <2>1 DEF StoreInv, NoAbandonedEntry, Owning
  <2> QED
    BY <2>1, <2>2, StoreShrinks DEF TypeInv, TypeOK
<1>8. ASSUME UNCHANGED <<pc, answer, future>>, entries' = entries \/ entries' = {} PROVE StoreInv'
  <2>1. StoreBounded'
    BY <1>8, FS_EmptySet, SettingsAssumption DEF StoreInv, StoreBounded
  <2> QED
    BY <1>8, <2>1 DEF StoreInv, NoAbandonedEntry
<1>9. CASE \/ \E r \in Requests : ThreadEnds(r) \/ ReleaseOrphan(r)
           \/ BeginShutdown \/ CloseStore \/ CloseExecutor \/ FinishShutdown \/ Tick \/ UNCHANGED vars
  BY <1>8, <1>9 DEF ThreadEnds, ReleaseOrphan, BeginShutdown, CloseStore, CloseExecutor, FinishShutdown, Tick, vars
<1> QED
  BY <1>1, <1>2, <1>3, <1>4, <1>5, <1>6, <1>7, <1>9 DEF Next, Handler, Quiet

\* Of the settled entries one expires first, so that a store of unsettled entries only is left alone.
LEMMA SettledIsEvictable ==
  ASSUME TypeInv, NEW e \in Live, future[e] # "pending"
  PROVE  Evictable # {}
<1> DEFINE settledOnes == {f \in Live : future[f] # "pending"}
           ends == {expiresAt[f] : f \in settledOnes}
<1>1. ends \in SUBSET Nat /\ ends # {}
  BY DEF TypeInv, TypeOK, Live
<1>2. PICK n \in ends : \A m \in ends : ~ (<<m, n>> \in OpToRel(<, Nat))
  BY <1>1, NatLessThanWellFounded, WFMin
<1>3. PICK f \in settledOnes : expiresAt[f] = n
  OBVIOUS
<1>4. \A g \in settledOnes : expiresAt[f] <= expiresAt[g]
  <2> SUFFICES ASSUME NEW g \in settledOnes PROVE n <= expiresAt[g]
    BY <1>3
  <2>1. expiresAt[g] \in ends /\ expiresAt[g] \in Nat /\ n \in Nat
    BY <1>1
  <2>2. ~ (<<expiresAt[g], n>> \in OpToRel(<, Nat))
    BY <1>2, <2>1
  <2>3. ~ (expiresAt[g] < n)
    BY <2>1, <2>2 DEF OpToRel
  <2> QED
    BY <2>1, <2>3
<1>5. f \in Evictable
  BY <1>4 DEF Evictable
<1> QED
  BY <1>5

\* A table without room holds unsettled entries only.
LEMMA FullMeansUnsettled ==
  ASSUME TypeInv, StoreInv, NEW kept \in TablesWithRoom, ~ HasRoom(kept)
  PROVE  Cardinality(Live) >= MaxEntries /\ \A e \in Live : future[e] = "pending"
<1>1. Live \subseteq entries /\ IsFiniteSet(Live) /\ Cardinality(Live) \in Nat
      /\ Cardinality(Live) <= MaxEntries /\ MaxEntries \in Nat
  BY EntriesFinite, SettingsAssumption DEF StoreInv, StoreBounded, Live
<1>2. CASE Cardinality(Live) >= MaxEntries /\ Evictable # {}
  <2>1. PICK e \in Evictable : kept = Live \ {e}
    BY <1>2 DEF TablesWithRoom
  <2>2. Cardinality(kept) = Cardinality(Live) - 1
    BY <1>1, <2>1, FS_RemoveElement DEF Evictable
  <2> QED
    BY <1>1, <2>2 DEF HasRoom
<1>3. CASE ~ (Cardinality(Live) >= MaxEntries /\ Evictable # {})
  <2>1. kept = Live
    BY <1>3 DEF TablesWithRoom
  <2>2. Cardinality(Live) >= MaxEntries
    BY <1>1, <2>1 DEF HasRoom
  <2> QED
    BY <1>3, <2>2, SettledIsEvictable
<1> QED
  BY <1>2, <1>3

(* A request that finds its id unused is refused for want of room only when   *)
(* max_entries predictions are in their handlers, whatever the ttl.           *)
THEOREM RefusalIsLoad == Spec => CapacityRefusalIsLoad
<1>1. TypeInv /\ StoreInv /\ [Next]_vars =>
        [\A r \in Requests :
           pc[r] = "new" /\ answer'[r] = "busy" => Cardinality({q \in Requests : pc[q] \in Owning}) >= MaxEntries]_vars
  <2> SUFFICES ASSUME TypeInv, StoreInv, Next, NEW r \in Requests, pc[r] = "new", answer'[r] = "busy"
               PROVE  Cardinality({q \in Requests : pc[q] \in Owning}) >= MaxEntries
    OBVIOUS
  <2>1. answer[r] = "none"
    BY DEF StoreInv
  <2>2. RefuseFull(r)
    <3>1. ASSUME NEW q \in Requests, NEW status \in Statuses, Answer(q, status) PROVE q = r /\ status = "busy"
      BY <2>1, <3>1 DEF Answer, TypeInv, TypeOK
    <3>2. ~ UNCHANGED answer
      BY <2>1
    <3>3. ASSUME NEW q \in Requests, Handler(q) PROVE RefuseFull(r)
      BY <3>1, <3>2, <3>3
         DEF Handler, RefuseUnready, RefuseConflict, Join, RefuseFull, AdmitUnpreparable, AdmitScoring, AdmitQueued,
             GrantSlot, GiveUpQueueing, OwnerScores, OwnerFails, OwnerTimesOut, Replay, JoinedCancelled,
             JoinedTimesOut, Statuses
    <3>4. CASE \/ \E q \in Requests : ThreadEnds(q) \/ ReleaseOrphan(q)
               \/ BeginShutdown \/ CloseStore \/ CloseExecutor \/ FinishShutdown \/ Tick \/ Quiet
      BY <3>2, <3>4 DEF ThreadEnds, ReleaseOrphan, BeginShutdown, CloseStore, CloseExecutor, FinishShutdown, Tick,
                        Quiet, vars, handlers
    <3> QED
      BY <3>3, <3>4 DEF Next
  <2>3. Cardinality(Live) >= MaxEntries /\ \A e \in Live : future[e] = "pending"
    BY <2>2, FullMeansUnsettled DEF RefuseFull
  <2> DEFINE atWork == {q \in Requests : pc[q] \in Owning}
  <2>4. Live \subseteq atWork
    BY <2>3 DEF StoreInv, NoAbandonedEntry, Live, TypeInv, TypeOK
  <2>5. IsFiniteSet(atWork)
    BY RequestsAssumption, FS_Subset
  <2>6. Cardinality(Live) <= Cardinality(atWork) /\ Cardinality(Live) \in Nat /\ Cardinality(atWork) \in Nat
    BY <2>4, <2>5, FS_Subset, FS_CardinalityType
  <2> QED
    BY <2>3, <2>6, SettingsAssumption
<1> QED
  BY <1>1, TypeInvInit, TypeInvNext, StoreInvInit, StoreInvNext, PTL DEF Spec, CapacityRefusalIsLoad

(* Under settings whose ttl covers a slow prediction, an entry is lost only   *)
(* for its own sake: never because another request's prediction failed.       *)
THEOREM LossIsJustified ==
  ASSUME TtlCoversPrediction
  PROVE  Spec => EntryLossJustified
<1> DEFINE Justified(e) ==
             \/ expiresAt[e] <= now
             \/ pc[e] \in Owning /\ answer'[e] \in {"busy", "timeout", "unavailable"}
             \/ future[e] # "pending" /\ Cardinality(Live) = MaxEntries
             \/ phase' = "stopped"
<1>1. TypeInv /\ StoreInv /\ OwnershipInv /\ [Next]_vars => [\A e \in entries \ entries' : Justified(e)]_vars
  <2> SUFFICES ASSUME TypeInv, StoreInv, OwnershipInv, Next, NEW e \in entries, e \notin entries' PROVE Justified(e)
    OBVIOUS
  <2>1. e \in Requests /\ now \in Nat /\ expiresAt[e] \in Nat
    BY DEF TypeInv, TypeOK
  <2>2. ASSUME e \notin Live PROVE expiresAt[e] <= now
    BY <2>1, <2>2 DEF Live
  <2>3. ASSUME NEW kept \in TablesWithRoom, e \in Live, e \notin kept
        PROVE  future[e] # "pending" /\ Cardinality(Live) = MaxEntries
    <3>1. Cardinality(Live) >= MaxEntries /\ e \in Evictable
      BY <2>3 DEF TablesWithRoom
    <3>2. Cardinality(Live) <= MaxEntries /\ Cardinality(Live) \in Nat
      BY EntriesFinite, SettingsAssumption DEF StoreInv, StoreBounded, Live
    <3> QED
      BY <3>1, <3>2, SettingsAssumption DEF Evictable
  <2>4. ASSUME NEW r \in Requests, RefuseConflict(r) \/ Join(r) PROVE Justified(e)
    BY <2>2, <2>4 DEF RefuseConflict, Join
  <2>5. ASSUME NEW r \in Requests, RefuseFull(r) \/ AdmitUnpreparable(r) \/ AdmitScoring(r) \/ AdmitQueued(r)
        PROVE  Justified(e)
    <3>1. PICK kept \in TablesWithRoom : kept \subseteq entries'
      BY <2>5 DEF RefuseFull, AdmitUnpreparable, AdmitScoring, AdmitQueued, AddEntry
    <3> QED
      BY <2>2, <2>3, <3>1
  <2>6. ASSUME NEW r \in Requests, GiveUpQueueing(r) \/ OwnerFails(r) \/ OwnerTimesOut(r) PROVE Justified(e)
    <3>1. pc[r] \in Owning /\ entries' = entries \ EntriesOf(r)
      BY <2>6 DEF GiveUpQueueing, OwnerFails, OwnerTimesOut, FailEntry, Owning
    <3>2. e = r
      BY <3>1, OwnersFindThemselves
    <3>3. answer'[r] \in {"busy", "timeout", "unavailable"}
      BY <2>6 DEF GiveUpQueueing, OwnerFails, OwnerTimesOut, Answer, TypeInv, TypeOK
    <3> QED
      BY <3>1, <3>2, <3>3
  <2>7. ASSUME NEW r \in Requests, \/ RefuseUnready(r) \/ GrantSlot(r) \/ OwnerScores(r) \/ Replay(r)
                                   \/ JoinedCancelled(r) \/ JoinedTimesOut(r) \/ ThreadEnds(r) \/ ReleaseOrphan(r)
        PROVE  UNCHANGED entries
    BY <2>7 DEF RefuseUnready, GrantSlot, OwnerScores, CompleteEntry, Replay, JoinedCancelled, JoinedTimesOut,
                ThreadEnds, ReleaseOrphan, table
  <2>8. CASE BeginShutdown \/ CloseStore \/ CloseExecutor \/ FinishShutdown \/ Tick \/ Quiet
    BY <2>8 DEF BeginShutdown, CloseStore, CloseExecutor, FinishShutdown, Tick, Quiet, vars, table
  <2> HIDE DEF Justified
  <2> QED
    BY <2>4, <2>5, <2>6, <2>7, <2>8 DEF Next, Handler
<1> QED
  BY <1>1, TypeInvInit, TypeInvNext, StoreInvInit, StoreInvNext, OwnershipAlways, PTL DEF Spec, EntryLossJustified

===============================================================================
