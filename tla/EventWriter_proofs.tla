--------------------------- MODULE EventWriter_proofs ---------------------------
(***************************************************************************)
(* Theorems about EventWriter, for every set of events, every capacity and *)
(* every batch limit: an event is in one place, dropped_events counts what *)
(* is lost, and the writer does what EventIntake promises.                 *)
(***************************************************************************)
EXTENDS EventWriter, FiniteSetTheorems, TLAPS

\* What WriterInv leaves open: the thread of a cancelled writer, and when a batch is in the tables.
ThreadInv ==
  /\ worker = "ended" => batch = {} \/ thread = "none"
  /\ Cardinality(writing) <= BatchLimit
  /\ thread = "committed" => writing \subseteq stored
  /\ thread = "running" => writing \cap stored = {}

Inv == WriterInv /\ ThreadInv

LEMMA FiniteEvents ==
  ASSUME NEW S \in SUBSET Events
  PROVE  IsFiniteSet(S) /\ Cardinality(S) \in Nat
BY EventsAssumption, FS_Subset, FS_CardinalityType

LEMMA NoEvents == Cardinality({}) = 0
BY FS_EmptySet

LEMMA InvInit == Init => Inv
<1> SUFFICES ASSUME Init PROVE Inv
  OBVIOUS
<1>1. TypeOK
  BY NoEvents, LimitsAssumption DEF Init, TypeOK
<1>2. OnePlace
  BY DEF Init, OnePlace, Answered
<1>3. ThreadServesWriter /\ BatchWhole
  BY DEF Init, ThreadServesWriter, BatchWhole
<1>4. ThreadInv
  BY NoEvents, LimitsAssumption DEF Init, ThreadInv
<1> QED
  BY <1>1, <1>2, <1>3, <1>4 DEF Inv, WriterInv

LEMMA InvNext == Inv /\ [Next]_vars => Inv'
<1> SUFFICES ASSUME Inv, [Next]_vars PROVE Inv'
  OBVIOUS
<1> USE DEF Inv, WriterInv
<1>1. ASSUME NEW e \in Events, Enqueue(e) PROVE Inv'
  <2>1. TypeOK'
    <3>1. CASE QueueFull
      BY <1>1, <3>1 DEF Enqueue, TypeOK
    <3>2. CASE ~ QueueFull
      <4>1. IsFiniteSet(queue) /\ Cardinality(queue) \in Nat /\ queue \cup {e} \in SUBSET Events
        BY FiniteEvents DEF TypeOK
      <4>2. Cardinality(queue \cup {e}) <= Capacity
        <5>1. Cardinality(queue) + 1 <= Capacity
          BY <3>2, <4>1, LimitsAssumption DEF QueueFull
        <5>2. Cardinality(queue \cup {e}) \in {Cardinality(queue), Cardinality(queue) + 1}
          BY <4>1, FS_AddElement
        <5> QED
          BY <4>1, <5>1, <5>2, LimitsAssumption
      <4> QED
        BY <1>1, <3>2, <4>1, <4>2 DEF Enqueue, TypeOK
    <3> QED
      BY <3>1, <3>2
  <2>2. OnePlace'
    BY <1>1 DEF Enqueue, OnePlace, Answered, TypeOK
  <2>3. ThreadServesWriter' /\ BatchWhole' /\ ThreadInv'
    BY <1>1 DEF Enqueue, ThreadServesWriter, BatchWhole, ThreadInv
  <2> QED
    BY <2>1, <2>2, <2>3
<1>2. CASE TakeBatch
  <2>1. PICK S \in SUBSET queue :
          /\ S # {} /\ Cardinality(S) <= BatchLimit
          /\ queue' = queue \ S /\ batch' = S /\ writing' = S
    <3>1. PICK S \in SUBSET queue :
            /\ S # {}
            /\ \/ Cardinality(S) = BatchLimit
               \/ S = queue /\ Cardinality(S) < BatchLimit
            /\ queue' = queue \ S
            /\ batch' = S
            /\ writing' = S
      BY <1>2 DEF TakeBatch
    <3>2. Cardinality(S) \in Nat
      BY <3>1, FiniteEvents DEF TypeOK
    <3> QED
      BY <3>1, <3>2, LimitsAssumption
  <2>2. Cardinality(queue \ S) <= Capacity
    <3>1. IsFiniteSet(queue) /\ Cardinality(queue) \in Nat /\ Cardinality(queue \ S) \in Nat
      BY FiniteEvents DEF TypeOK
    <3> QED
      BY <3>1, FS_Subset, LimitsAssumption DEF TypeOK
  <2>3. TypeOK'
    BY <1>2, <2>1, <2>2 DEF TakeBatch, TypeOK
  <2>4. OnePlace'
    BY <1>2, <2>1 DEF TakeBatch, OnePlace, Answered
  <2>5. ThreadServesWriter' /\ BatchWhole' /\ ThreadInv'
    BY <1>2, <2>1 DEF TakeBatch, OnePlace, ThreadServesWriter, BatchWhole, ThreadInv
  <2> QED
    BY <2>3, <2>4, <2>5
<1>3. CASE WriteCommits
  <2>1. TypeOK' /\ OnePlace'
    BY <1>3 DEF WriteCommits, Insert, TypeOK, OnePlace, Answered
  <2>2. ThreadServesWriter' /\ ThreadInv'
    BY <1>3 DEF WriteCommits, Insert, ThreadServesWriter, ThreadInv
  <2>3. BatchWhole'
    BY <1>3 DEF WriteCommits, Insert, BatchWhole, ThreadServesWriter, ThreadInv, TypeOK
  <2> QED
    BY <2>1, <2>2, <2>3
<1>4. CASE WriteFails
  <2>1. TypeOK' /\ OnePlace'
    BY <1>4 DEF WriteFails, TypeOK, OnePlace, Answered
  <2>2. ThreadServesWriter' /\ BatchWhole' /\ ThreadInv'
    BY <1>4 DEF WriteFails, ThreadServesWriter, BatchWhole, ThreadInv
  <2> QED
    BY <2>1, <2>2
<1>5. CASE BatchDone
  <2>1. TypeOK'
    BY <1>5, NoEvents, LimitsAssumption DEF BatchDone, TypeOK
  <2>2. OnePlace'
    BY <1>5 DEF BatchDone, OnePlace, Answered
  <2>3. ThreadServesWriter' /\ BatchWhole' /\ ThreadInv'
    BY <1>5, NoEvents, LimitsAssumption DEF BatchDone, ThreadServesWriter, BatchWhole, ThreadInv
  <2> QED
    BY <2>1, <2>2, <2>3
<1>6. CASE BatchFailed
  <2>1. TypeOK'
    BY <1>6 DEF BatchFailed, AfterFailure, TypeOK
  <2>2. OnePlace'
    BY <1>6 DEF BatchFailed, AfterFailure, OnePlace, Answered
  <2>3. ThreadServesWriter' /\ BatchWhole' /\ ThreadInv'
    BY <1>6, NoEvents, LimitsAssumption
       DEF BatchFailed, AfterFailure, ThreadServesWriter, BatchWhole, ThreadInv
  <2> QED
    BY <2>1, <2>2, <2>3
<1>7. CASE RetryBatch
  <2>1. TypeOK' /\ OnePlace'
    BY <1>7 DEF RetryBatch, TypeOK, OnePlace, Answered
  <2>2. ThreadServesWriter' /\ BatchWhole' /\ ThreadInv'
    BY <1>7 DEF RetryBatch, ThreadServesWriter, BatchWhole, ThreadInv, TypeOK
  <2> QED
    BY <2>1, <2>2
<1>8. CASE BeginClose
  <2>1. TypeOK' /\ OnePlace'
    BY <1>8 DEF BeginClose, TypeOK, OnePlace, Answered
  <2>2. ThreadServesWriter' /\ BatchWhole' /\ ThreadInv'
    BY <1>8 DEF BeginClose, ThreadServesWriter, BatchWhole, ThreadInv
  <2> QED
    BY <2>1, <2>2
<1>9. ASSUME CancelWriter, phase = "joining", phase' = "closed", dropped' \in Nat,
             UNCHANGED <<outcome, past, queue, thread, writing, stored>>
      PROVE  Inv'
  <2>1. batch' \in {batch, {}} /\ (worker = "persisting" => batch' = {})
    BY <1>9 DEF CancelWriter
  <2>2. TypeOK'
    BY <1>9, <2>1, NoEvents, LimitsAssumption DEF CancelWriter, TypeOK
  <2>3. OnePlace'
    BY <1>9, <2>1 DEF OnePlace, Answered
  <2>4. ThreadServesWriter' /\ BatchWhole' /\ ThreadInv'
    BY <1>9, <2>1 DEF CancelWriter, ThreadServesWriter, BatchWhole, ThreadInv, TypeOK
  <2> QED
    BY <2>2, <2>3, <2>4
<1>10. CASE JoinCompletes
  BY <1>9, <1>10 DEF JoinCompletes, TypeOK
<1>11. CASE GraceExpires
  <2>1. Cardinality(queue) \in Nat /\ Cardinality(batch) \in Nat
    BY FiniteEvents DEF TypeOK
  <2>2. dropped' \in Nat
    BY <1>11, <2>1 DEF GraceExpires, Pending, TypeOK
  <2> QED
    BY <1>9, <1>11, <2>2 DEF GraceExpires
<1>12. CASE Crash
  <2>1. TypeOK'
    BY <1>12, NoEvents, LimitsAssumption DEF Crash, TypeOK
  <2>2. OnePlace'
    BY <1>12 DEF Crash, OnePlace, Answered
  <2>3. ThreadServesWriter' /\ BatchWhole' /\ ThreadInv'
    BY <1>12, NoEvents, LimitsAssumption DEF Crash, ThreadServesWriter, BatchWhole, ThreadInv
  <2> QED
    BY <2>1, <2>2, <2>3
<1>13. CASE UNCHANGED vars
  <2>1. TypeOK' /\ OnePlace'
    BY <1>13 DEF vars, TypeOK, OnePlace, Answered
  <2>2. ThreadServesWriter' /\ BatchWhole' /\ ThreadInv'
    BY <1>13 DEF vars, ThreadServesWriter, BatchWhole, ThreadInv
  <2> QED
    BY <2>1, <2>2
<1> QED
  BY <1>1, <1>2, <1>3, <1>4, <1>5, <1>6, <1>7, <1>8, <1>10, <1>11, <1>12, <1>13 DEF Next

(* An event is in one place: waiting, in the writer's hands, or stored and    *)
(* done with, whatever fails, is cancelled or is tried again.                 *)
THEOREM EventsInOnePlace == Spec => []WriterInv
<1>1. Inv => WriterInv
  BY DEF Inv
<1> QED
  BY InvInit, InvNext, <1>1, PTL DEF Spec

-------------------------------------------------------------------------------
(* The writer and EventIntake.                                                *)

LEMMA RefinesInit == Init => Intake!Init
BY DEF Init, Intake!Init, statusBar, FateOf, InMemory

LEMMA SameStatus ==
  ASSUME outcome' = outcome, stored' = stored,
         InMemory' \cup stored' = InMemory \cup stored
  PROVE  statusBar' = statusBar
<1>1. \A e \in Events : FateOf(e)' = FateOf(e)
  BY DEF FateOf
<1> QED
  BY <1>1 DEF statusBar

LEMMA MovesTo ==
  ASSUME NEW S, NEW fate, \A e \in Events : FateOf(e)' = IF e \in S THEN fate ELSE FateOf(e)
  PROVE  Intake!Move(S, fate)
BY DEF Intake!Move, statusBar

\* The abstract module's own copy of Cardinality.
LEMMA SameCardinality == \A S : Intake!Cardinality(S) = Cardinality(S)
BY DEF Intake!Cardinality, Cardinality

LEMMA RefinesNext == Inv /\ [Next]_vars => [Intake!Next]_statusBar
<1> SUFFICES ASSUME Inv, [Next]_vars PROVE [Intake!Next]_statusBar
  OBVIOUS
<1> USE DEF Inv, WriterInv
<1>t. TypeOK /\ TypeOK'
  BY InvNext
<1>a. ASSUME InMemory' = {}, outcome' = outcome, stored' = stored PROVE Intake!Abandon
  <2>1. \A e \in Events : e \in Intake!With("accepted") <=> e \in InMemory /\ e \notin stored
    BY <1>t DEF Intake!With, statusBar, FateOf, TypeOK
  <2>2. \A e \in Events : e \in InMemory => outcome[e] = "queued"
    BY DEF InMemory, OnePlace, Answered
  <2>3. \A e \in Events : FateOf(e)' = IF e \in Intake!With("accepted") THEN "abandoned" ELSE FateOf(e)
    BY <1>t, <1>a, <2>1, <2>2 DEF FateOf, TypeOK
  <2> QED
    BY <2>3, MovesTo DEF Intake!Abandon
<1>1. ASSUME NEW e \in Events, Enqueue(e) PROVE Intake!Next
  <2>1. /\ e \notin stored /\ e \notin InMemory /\ statusBar[e] = "unborn"
        /\ stored' = stored /\ phase = "open" /\ phase' = "open"
    <3>1. e \notin stored /\ e \notin InMemory /\ outcome[e] = "none"
      BY <1>1 DEF Enqueue, OnePlace, Answered, InMemory
    <3> QED
      BY <1>1, <1>t, <3>1 DEF Enqueue, statusBar, FateOf
  <2>2. CASE QueueFull
    <3>1. queue \in SUBSET Intake!With("accepted") /\ Intake!With("accepted") \in SUBSET Events
      BY <1>t, <2>1 DEF OnePlace, Intake!With, InMemory, TypeOK, statusBar, FateOf
    <3>2. Cardinality(Intake!With("accepted")) >= Capacity
      <4>1. IsFiniteSet(Intake!With("accepted")) /\ Cardinality(Intake!With("accepted")) \in Nat
        BY <3>1, FiniteEvents
      <4>2. Cardinality(queue) <= Cardinality(Intake!With("accepted")) /\ Cardinality(queue) \in Nat
        BY <3>1, <4>1, FS_Subset, FiniteEvents DEF TypeOK
      <4> QED
        BY <2>2, <4>1, <4>2, LimitsAssumption DEF QueueFull
    <3>3. outcome' = [outcome EXCEPT ![e] = "refused"] /\ InMemory' = InMemory
      BY <1>1, <2>2, <2>1 DEF Enqueue, InMemory
    <3>4. Intake!Move({e}, "refused")
      <4>1. \A d \in Events : d # e => outcome'[d] = outcome[d]
        BY <1>t, <3>3 DEF TypeOK
      <4>2. outcome'[e] = "refused"
        BY <1>t, <3>3 DEF TypeOK
      <4>3. \A d \in Events : FateOf(d)' = IF d \in {e} THEN "refused" ELSE FateOf(d)
        BY <1>t, <2>1, <3>3, <4>1, <4>2 DEF FateOf, TypeOK
      <4> QED
        BY <4>3, MovesTo
    <3> QED
      BY <1>1, <2>1, <3>2, <3>4, SameCardinality DEF Intake!Next, Intake!Refuse
  <2>3. CASE ~ QueueFull
    <3>1. outcome' = [outcome EXCEPT ![e] = "queued"] /\ InMemory' = InMemory \cup {e}
      BY <1>1, <2>3, <2>1 DEF Enqueue, InMemory
    <3>2. Intake!Move({e}, "accepted")
      <4>1. \A d \in Events : d # e => outcome'[d] = outcome[d]
        BY <1>t, <3>1 DEF TypeOK
      <4>2. \A d \in Events : FateOf(d)' = IF d \in {e} THEN "accepted" ELSE FateOf(d)
        BY <1>t, <2>1, <3>1, <4>1 DEF FateOf, TypeOK
      <4> QED
        BY <4>2, MovesTo
    <3> QED
      BY <2>1, <3>2 DEF Intake!Next, Intake!Accept
  <2> QED
    BY <2>2, <2>3
<1>2. CASE TakeBatch
  <2>1. worker = "idle" /\ batch = {} /\ phase # "closed" /\ phase' = phase
    BY <1>2 DEF TakeBatch, ThreadServesWriter
  <2>2. InMemory' = InMemory /\ outcome' = outcome /\ stored' = stored
    BY <1>2, <2>1 DEF TakeBatch, InMemory
  <2> QED
    BY <2>2, SameStatus
<1>3. CASE WriteCommits
  <2>1. /\ InMemory' = InMemory /\ outcome' = outcome /\ stored' = stored \cup writing
        /\ writing \cap stored = {} /\ writing \in SUBSET Events
    BY <1>3 DEF WriteCommits, Insert, InMemory, ThreadInv, TypeOK
  <2>2. writing \subseteq Intake!With("accepted") \cup Intake!With("abandoned")
    BY <1>t, <2>1 DEF Intake!With, OnePlace, Answered, statusBar, FateOf
  <2>3. Intake!Move(writing, "stored")
    <3>1. \A e \in Events : FateOf(e)' = IF e \in writing THEN "stored" ELSE FateOf(e)
      BY <1>t, <2>1 DEF FateOf, TypeOK
    <3> QED
      BY <3>1, MovesTo
  <2> QED
    BY <2>1, <2>2, <2>3 DEF Intake!Next, Intake!Store
<1>4. CASE WriteFails \/ BatchFailed \/ RetryBatch
  <2>1. InMemory' = InMemory /\ outcome' = outcome /\ stored' = stored
    BY <1>4 DEF WriteFails, BatchFailed, AfterFailure, RetryBatch, InMemory
  <2> QED
    BY <2>1, SameStatus
<1>5. CASE BatchDone
  <2>1. batch \subseteq stored /\ outcome' = outcome /\ stored' = stored
    BY <1>5 DEF BatchDone, ThreadServesWriter, ThreadInv
  <2>2. InMemory' \cup stored' = InMemory \cup stored
    BY <1>5, <2>1 DEF BatchDone, InMemory
  <2> QED
    BY <2>1, <2>2, SameStatus
<1>6. CASE BeginClose
  <2>1. InMemory' = InMemory /\ outcome' = outcome /\ stored' = stored
    BY <1>6 DEF BeginClose, InMemory
  <2> QED
    BY <2>1, SameStatus
<1>7. CASE JoinCompletes \/ GraceExpires \/ Crash
  <2>1. InMemory' = {} /\ outcome' = outcome /\ stored' = stored
    BY <1>7 DEF JoinCompletes, GraceExpires, Crash, InMemory
  <2> QED
    BY <1>a, <2>1 DEF Intake!Next
<1>8. CASE UNCHANGED vars
  <2>1. InMemory' = InMemory /\ outcome' = outcome /\ stored' = stored
    BY <1>8 DEF vars, InMemory
  <2> QED
    BY <2>1, SameStatus
<1> QED
  BY <1>1, <1>2, <1>3, <1>4, <1>5, <1>6, <1>7, <1>8 DEF Next

(* The writer, for every event, does no more than EventIntake allows.         *)
THEOREM WriterImplementsIntake == Spec => ImplementsIntake
BY InvInit, InvNext, RefinesInit, RefinesNext, PTL DEF Spec, ImplementsIntake, Intake!Spec

-------------------------------------------------------------------------------
(* What dropped_events counts.                                                *)

\* After a shutdown, K is the part of the abandoned batch that was written none the less.
DroppedInv ==
  /\ phase # "closed" => dropped = Cardinality(Lost)
  /\ phase = "closed" =>
       \E K \in SUBSET (writing \cap stored) : dropped = Cardinality(Lost) + Cardinality(K)

LEMMA DisjointUnion ==
  ASSUME NEW S \in SUBSET Events, NEW T \in SUBSET Events, S \cap T = {}
  PROVE  Cardinality(S \cup T) = Cardinality(S) + Cardinality(T)
<1>1. IsFiniteSet(S) /\ IsFiniteSet(T) /\ Cardinality(S) \in Nat /\ Cardinality(T) \in Nat
  BY FiniteEvents
<1>2. Cardinality(S \cup T) = Cardinality(S) + Cardinality(T) - Cardinality({})
  BY <1>1, FS_Union
<1> QED
  BY <1>1, <1>2, NoEvents

LEMMA DroppedInvInit == Init => DroppedInv
<1> SUFFICES ASSUME Init PROVE DroppedInv
  OBVIOUS
<1>1. Lost = {}
  BY DEF Init, Lost, InMemory
<1> QED
  BY <1>1, NoEvents DEF Init, DroppedInv

LEMMA DroppedInvNext == Inv /\ DroppedInv /\ [Next]_vars => DroppedInv'
<1> SUFFICES ASSUME Inv, DroppedInv, [Next]_vars PROVE DroppedInv'
  OBVIOUS
<1> USE DEF Inv, WriterInv
<1>t. TypeOK /\ TypeOK' /\ Lost \in SUBSET Events /\ Lost' \in SUBSET Events
  BY InvNext DEF Lost
<1>c. Cardinality(Lost) \in Nat /\ Cardinality(Lost') \in Nat
  BY <1>t, FiniteEvents
<1>s. ASSUME Lost' = Lost, dropped' = dropped, phase' = phase, writing' = writing, stored' = stored
      PROVE  DroppedInv'
  BY <1>s DEF DroppedInv
<1>o. ASSUME Lost' = Lost, dropped' = dropped, phase' = phase, phase # "closed"
      PROVE  DroppedInv'
  BY <1>o DEF DroppedInv
<1>1. ASSUME NEW e \in Events, Enqueue(e) PROVE DroppedInv'
  <2>1. phase = "open" /\ phase' = "open" /\ e \notin Lost /\ e \notin past /\ e \notin stored
    BY <1>1 DEF Enqueue, Lost, OnePlace, Answered
  <2>2. CASE QueueFull
    <3>1. outcome' = [outcome EXCEPT ![e] = "refused"] /\ dropped' = dropped + 1
          /\ past' = past /\ stored' = stored /\ queue' = queue /\ batch' = batch
      BY <1>1, <2>2 DEF Enqueue
    <3>2. Lost' = Lost \cup {e}
      BY <1>t, <2>1, <3>1 DEF Lost, InMemory, TypeOK
    <3>3. Cardinality(Lost \cup {e}) = Cardinality(Lost) + Cardinality({e})
      BY <1>t, <2>1, DisjointUnion
    <3>4. Cardinality({e}) = 1
      BY FS_Singleton
    <3> QED
      BY <1>c, <2>1, <3>1, <3>2, <3>3, <3>4 DEF DroppedInv
  <2>3. CASE ~ QueueFull
    <3>1. outcome' = [outcome EXCEPT ![e] = "queued"] /\ dropped' = dropped
          /\ past' = past /\ stored' = stored /\ queue' = queue \cup {e} /\ batch' = batch
      BY <1>1, <2>3 DEF Enqueue
    <3>2. Lost' = Lost
      BY <1>t, <2>1, <3>1 DEF Lost, InMemory, TypeOK
    <3> QED
      BY <1>o, <2>1, <3>1, <3>2
  <2> QED
    BY <2>2, <2>3
<1>2. CASE TakeBatch
  <2>1. /\ batch = {} /\ phase # "closed" /\ phase' = phase /\ dropped' = dropped
        /\ queue' \cup batch' = queue
        /\ outcome' = outcome /\ past' = past /\ stored' = stored
    BY <1>2 DEF TakeBatch, ThreadServesWriter
  <2>2. Lost' = Lost
    BY <2>1 DEF Lost, InMemory
  <2> QED
    BY <1>o, <2>1, <2>2
<1>3. CASE WriteCommits
  <2>1. /\ stored' = stored \cup writing /\ writing \cap stored = {} /\ writing \in SUBSET Events
        /\ UNCHANGED <<outcome, past, queue, worker, batch, writing, phase, dropped>>
    BY <1>3 DEF WriteCommits, Insert, ThreadInv, TypeOK
  <2>2. CASE phase # "closed"
    <3>1. worker = "persisting" /\ writing = batch
      BY <1>3, <2>2 DEF WriteCommits, ThreadServesWriter, TypeOK
    <3>2. Lost' = Lost
      BY <2>1, <2>2, <3>1 DEF Lost, InMemory
    <3> QED
      BY <1>o, <2>1, <2>2, <3>2
  <2>3. CASE phase = "closed"
    <3>1. PICK K \in SUBSET (writing \cap stored) : dropped = Cardinality(Lost) + Cardinality(K)
      BY <2>3 DEF DroppedInv
    <3>2. K = {}
      BY <2>1
    <3>3. writing \subseteq Lost
      BY <2>1, <2>3 DEF Lost, InMemory, OnePlace, Answered
    <3>4. Lost' \cap writing = {} /\ Lost' \cup writing = Lost
      BY <2>1, <2>3, <3>3 DEF Lost, InMemory, OnePlace, Answered
    <3>5. Cardinality(Lost) = Cardinality(Lost') + Cardinality(writing)
      BY <1>t, <2>1, <3>4, DisjointUnion
    <3>6. dropped' = Cardinality(Lost') + Cardinality(writing')
      BY <1>c, <2>1, <3>1, <3>2, <3>5, NoEvents
    <3>7. writing' \in SUBSET (writing' \cap stored')
      BY <2>1
    <3> QED
      BY <2>1, <2>3, <3>6, <3>7 DEF DroppedInv
  <2> QED
    BY <2>2, <2>3
<1>4. CASE WriteFails
  <2>1. Lost' = Lost
    BY <1>4 DEF WriteFails, Lost, InMemory
  <2> QED
    BY <1>s, <1>4, <2>1 DEF WriteFails
<1>5. CASE BatchDone
  <2>1. batch \subseteq stored /\ phase # "closed"
    BY <1>5 DEF BatchDone, ThreadServesWriter, ThreadInv
  <2>2. Lost' = Lost
    BY <1>5, <2>1 DEF BatchDone, Lost, InMemory
  <2> QED
    BY <1>o, <1>5, <2>1, <2>2 DEF BatchDone
<1>6. CASE BatchFailed \/ RetryBatch
  <2>1. phase # "closed" /\ phase' = phase /\ dropped' = dropped
    BY <1>6 DEF BatchFailed, RetryBatch, ThreadServesWriter
  <2>2. Lost' = Lost
    BY <1>6, <2>1 DEF BatchFailed, AfterFailure, RetryBatch, Lost, InMemory
  <2> QED
    BY <1>o, <2>1, <2>2
<1>7. CASE BeginClose
  <2>1. Lost' = Lost /\ dropped' = dropped /\ phase' # "closed" /\ phase # "closed"
    BY <1>7 DEF BeginClose, Lost, InMemory
  <2> QED
    BY <2>1 DEF DroppedInv
<1>8. CASE JoinCompletes
  <2>1. Lost' = Lost /\ dropped' = dropped /\ phase # "closed"
    BY <1>8 DEF JoinCompletes, CancelWriter, Lost, InMemory
  <2>2. dropped' = Cardinality(Lost') + Cardinality({})
    BY <1>c, <2>1, NoEvents DEF DroppedInv
  <2> QED
    BY <1>8, <2>2 DEF DroppedInv, JoinCompletes
<1>9. CASE GraceExpires
  <2>1. /\ phase = "joining" /\ phase' = "closed" /\ dropped = Cardinality(Lost)
        /\ dropped' = dropped + (Cardinality(queue) + Cardinality(batch))
        /\ UNCHANGED <<outcome, past, queue, writing, stored>>
    BY <1>9 DEF GraceExpires, Pending, DroppedInv
  <2>2. queue \in SUBSET Events /\ batch \in SUBSET Events
    BY <1>t DEF TypeOK
  <2>3. Cardinality(queue) \in Nat /\ Cardinality(batch) \in Nat
    BY <2>2, FiniteEvents
  <2>4. Lost \cap queue = {} /\ Lost \cap batch = {} /\ queue \cap batch = {}
    BY <2>1 DEF Lost, InMemory, OnePlace, Answered
  <2>5. Lost' = Lost \cup queue \cup (batch \ stored)
    BY <2>1, <2>2 DEF Lost, InMemory, OnePlace, Answered
  <2>6. Cardinality(Lost \cup queue) = Cardinality(Lost) + Cardinality(queue)
    BY <1>t, <2>2, <2>4, DisjointUnion
  <2>7. CASE stored \cap batch = {}
    <3>1. Lost' = (Lost \cup queue) \cup batch
      BY <2>5, <2>7
    <3>2. Cardinality((Lost \cup queue) \cup batch) = Cardinality(Lost \cup queue) + Cardinality(batch)
      BY <1>t, <2>2, <2>4, DisjointUnion
    <3>3. dropped' = Cardinality(Lost') + Cardinality({})
      BY <1>c, <2>1, <2>3, <2>6, <3>1, <3>2, NoEvents
    <3> QED
      BY <2>1, <3>3 DEF DroppedInv
  <2>8. CASE stored \cap batch # {}
    <3>1. batch \subseteq stored /\ batch = writing
      BY <2>8 DEF BatchWhole, ThreadServesWriter
    <3>2. Lost' = Lost \cup queue
      BY <2>5, <3>1
    <3>3. dropped' = Cardinality(Lost') + Cardinality(batch)
      BY <1>c, <2>1, <2>3, <2>6, <3>2
    <3>4. batch \in SUBSET (writing' \cap stored')
      BY <2>1, <3>1
    <3> QED
      BY <2>1, <3>3, <3>4 DEF DroppedInv
  <2> QED
    BY <2>7, <2>8
<1>10. CASE Crash
  <2>1. Lost' = {}
    BY <1>10 DEF Crash, Lost, InMemory
  <2> QED
    BY <1>10, <2>1, NoEvents DEF Crash, DroppedInv
<1>11. CASE UNCHANGED vars
  <2>1. Lost' = Lost
    BY <1>11 DEF vars, Lost, InMemory
  <2> QED
    BY <1>s, <1>11, <2>1 DEF vars
<1> QED
  BY <1>1, <1>2, <1>3, <1>4, <1>5, <1>6, <1>7, <1>8, <1>9, <1>10, <1>11 DEF Next

(* No event of a living process is lost without being counted in              *)
(* dropped_events, and none is counted that is not lost, but for events of    *)
(* one batch, after a shutdown that abandoned a write which then succeeded.   *)
THEOREM LossesAreCounted == Spec => []LossesCounted
<1>1. Inv /\ DroppedInv => LossesCounted
  <2> SUFFICES ASSUME Inv, DroppedInv PROVE LossesCounted
    OBVIOUS
  <2>1. Cardinality(Lost) \in Nat /\ BatchLimit \in Nat
    BY FiniteEvents, LimitsAssumption DEF Lost
  <2>2. CASE phase # "closed"
    BY <2>1, <2>2 DEF DroppedInv, LossesCounted
  <2>3. CASE phase = "closed"
    <3>1. PICK K \in SUBSET (writing \cap stored) : dropped = Cardinality(Lost) + Cardinality(K)
      BY <2>3 DEF DroppedInv
    <3>2. writing \in SUBSET Events /\ K \in SUBSET writing /\ Cardinality(writing) <= BatchLimit
      BY <3>1 DEF Inv, WriterInv, ThreadInv, TypeOK
    <3>3. IsFiniteSet(writing) /\ Cardinality(writing) \in Nat /\ Cardinality(K) \in Nat
      BY <3>2, FiniteEvents
    <3>4. Cardinality(K) <= Cardinality(writing)
      BY <3>2, <3>3, FS_Subset
    <3>5. dropped \in Cardinality(Lost)..(Cardinality(Lost) + BatchLimit)
      BY <2>1, <3>1, <3>2, <3>3, <3>4
    <3> QED
      BY <2>3, <3>5 DEF LossesCounted
  <2> QED
    BY <2>2, <2>3
<1> QED
  BY InvInit, InvNext, DroppedInvInit, DroppedInvNext, <1>1, PTL DEF Spec

===============================================================================
