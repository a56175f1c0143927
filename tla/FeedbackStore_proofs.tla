------------------------- MODULE FeedbackStore_proofs -------------------------
(***************************************************************************)
(* Theorems about FeedbackStore, for every number of predictions and of    *)
(* submissions, every retention, window and limit, and every clock.        *)
(***************************************************************************)
EXTENDS FeedbackStore, FiniteSetTheorems, TLAPS

\* The job's clock was read before, so that what it purges has expired since.
JobClock == job.now <= now

StoreInv == SubmissionInv /\ JobClock

LEMMA StoreInvInit == Init => StoreInv
BY LimitsAssumption
   DEF Init, StoreInv, SubmissionInv, TypeOK, OneWriter, NoInsertCollision, JobClock,
       IdleClient, IdleJob, JobSteps

\* Purging keeps types, and no label appears by it.
LEMMA PurgeTypes ==
  ASSUME TypeOK, NEW S \in SUBSET Ids, NEW cutoff \in Int, Purge(S, cutoff)
  PROVE  /\ events' \in SUBSET S
         /\ labels' \in [Ids -> Labels \cup {NoLabel}]
         /\ \A i \in Ids : labels[i] = NoLabel => labels'[i] = NoLabel
BY DEF TypeOK, Purge, EventsFrom, LabelsFrom

LEMMA BusyClient ==
  ASSUME TypeOK, NEW c \in Clients, client[c].pc # "idle"
  PROVE  client[c].id \in Ids /\ client[c].label \in Labels
BY DEF TypeOK, IdleClient

LEMMA StoreInvNext == StoreInv /\ [Next]_vars => StoreInv'
<1> SUFFICES ASSUME StoreInv, [Next]_vars PROVE StoreInv'
  OBVIOUS
<1> USE ActorsAssumption, LimitsAssumption, NoLabelAssumption
    DEF StoreInv, SubmissionInv, OneWriter, NoInsertCollision, JobClock
<1>t. TypeOK /\ now \in Int /\ now - Retention \in Int /\ job.now - Retention \in Int
  BY DEF TypeOK
<1>b. \A c \in Clients : client[c].pc = "inserting" => client[c].id \in Ids
  BY <1>t, BusyClient
<1>1. CASE Tick
  BY <1>1 DEF Tick, TypeOK, tables
<1>2. ASSUME NEW i \in Ids, Predict(i) PROVE StoreInv'
  BY <1>2 DEF Predict, TypeOK, tables
<1>3. ASSUME NEW S \in SUBSET Ids, PersistEvents(S) PROVE StoreInv'
  <2>1. /\ events' \in SUBSET Ids
        /\ labels' \in [Ids -> Labels \cup {NoLabel}]
        /\ \A i \in Ids : labels[i] = NoLabel => labels'[i] = NoLabel
    <3>1. events \cup S \in SUBSET Ids /\ Purge(events \cup S, now - Retention)
      BY <1>t, <1>3 DEF PersistEvents, TypeOK
    <3> HIDE DEF StoreInv, SubmissionInv
    <3> QED
      BY <1>t, <3>1, PurgeTypes
  <2>2. UNCHANGED <<now, predictedAt, lock, client, accepted, job>>
    BY <1>3 DEF PersistEvents
  <2>3. TypeOK'
    BY <1>t, <2>1, <2>2 DEF TypeOK
  <2> QED
    BY <1>t, <1>b, <2>1, <2>2, <2>3
<1>4. ASSUME NEW c \in Clients, NEW i \in Ids, NEW label \in Labels, BeginLabel(c, i, label)
      PROVE StoreInv'
  BY <1>4 DEF BeginLabel, TakeLock, TypeOK, tables, IdleClient
<1>5. ASSUME NEW c \in Clients, MeetLabel(c) PROVE StoreInv'
  BY <1>5 DEF MeetLabel, Release, TypeOK, tables, IdleClient
<1>6. ASSUME NEW c \in Clients, MissLabel(c) PROVE StoreInv'
  BY <1>6 DEF MissLabel, TypeOK, tables, IdleClient
<1>7. ASSUME NEW c \in Clients, InsertLabel(c) PROVE StoreInv'
  BY <1>7 DEF InsertLabel, Release, TypeOK, IdleClient
<1>8. CASE BeginJob
  <2>1. job' = [pc |-> "purge", now |-> now, rows |-> 0, labeled |-> 0, omitted |-> FALSE,
                events |-> 0, joined |-> 0]
    BY <1>8 DEF BeginJob, IdleJob
  <2>2. UNCHANGED <<now, predictedAt, events, labels, lock, client, accepted>>
    BY <1>8 DEF BeginJob, tables
  <2> QED
    BY <1>t, <2>1, <2>2 DEF TypeOK, JobSteps
<1>9. CASE PurgeJob
  <2>1. /\ events' \in SUBSET Ids
        /\ labels' \in [Ids -> Labels \cup {NoLabel}]
        /\ \A i \in Ids : labels[i] = NoLabel => labels'[i] = NoLabel
    <3>1. events \in SUBSET Ids /\ Purge(events, job.now - Retention)
      BY <1>t, <1>9 DEF PurgeJob, TypeOK
    <3> HIDE DEF StoreInv, SubmissionInv
    <3> QED
      BY <1>t, <3>1, PurgeTypes
  <2>2. UNCHANGED <<now, predictedAt, lock, client, accepted>> /\ job' = [job EXCEPT !.pc = "rows"]
    BY <1>9 DEF PurgeJob
  <2>3. TypeOK'
    BY <1>t, <2>1, <2>2 DEF TypeOK, JobSteps
  <2> QED
    BY <1>t, <1>b, <2>1, <2>2, <2>3 DEF TypeOK
<1>10. CASE ReadRows
  <2>1. PICK R \in Newest(InWindow) :
          job' = [job EXCEPT !.pc = "events", !.rows = Cardinality(R),
                             !.labeled = Cardinality({i \in R : Joins(i)}),
                             !.omitted = R # InWindow]
    BY <1>10 DEF ReadRows
  <2>2. R \subseteq Ids /\ IsFiniteSet(R) /\ Cardinality(R) \in 0..MaxEvents
    <3>1. R \subseteq Ids /\ InWindow \subseteq Ids
      BY <1>t DEF Newest, InWindow, TypeOK
    <3>2. IsFiniteSet(R)
      BY <3>1, IdsAssumption, FS_Subset
    <3>3. Cardinality(R) \in Nat /\ (Cardinality(R) = MaxEvents \/ Cardinality(R) < MaxEvents)
      BY <3>2, FS_CardinalityType DEF Newest
    <3> QED
      BY <3>1, <3>2, <3>3
  <2>3. Cardinality({i \in R : Joins(i)}) \in 0..MaxEvents
    <3>1. {i \in R : Joins(i)} \subseteq R
      OBVIOUS
    <3>2. Cardinality({i \in R : Joins(i)}) \in Nat /\ Cardinality({i \in R : Joins(i)}) <= Cardinality(R)
      BY <2>2, <3>1, FS_Subset, FS_CardinalityType
    <3> QED
      BY <2>2, <3>2
  <2>4. UNCHANGED <<now, predictedAt, events, labels, lock, client, accepted>>
    BY <1>10 DEF ReadRows, tables
  <2> QED
    BY <1>t, <2>1, <2>2, <2>3, <2>4 DEF TypeOK, JobSteps
<1>11. CASE ReadEventCount
  <2>1. Cardinality(InWindow) \in Nat
    BY <1>t, IdsAssumption, FS_Subset, FS_CardinalityType DEF InWindow, TypeOK
  <2> QED
    BY <1>11, <2>1 DEF ReadEventCount, TypeOK, tables, JobSteps
<1>12. CASE ReadLabelCount
  <2>1. Cardinality({i \in InWindow : Joins(i)}) \in Nat
    BY <1>t, IdsAssumption, FS_Subset, FS_CardinalityType DEF InWindow, TypeOK
  <2> QED
    BY <1>12, <2>1 DEF ReadLabelCount, TypeOK, tables, JobSteps
<1>13. CASE EndJob
  BY <1>13 DEF EndJob, TypeOK, tables, IdleJob, JobSteps
<1>14. CASE UNCHANGED vars
  BY <1>14 DEF vars, tables, TypeOK
<1> QED
  BY <1>1, <1>2, <1>3, <1>4, <1>5, <1>6, <1>7, <1>8, <1>9, <1>10, <1>11, <1>12, <1>13, <1>14 DEF Next

(* Types are kept; of any number of simultaneous submissions one at a time is *)
(* between its statements, and finds the id as free as it left it: none fails *)
(* on another one's row (_record_label_sync).                                 *)
THEOREM SubmissionsExclude == Spec => []SubmissionInv
<1>1. StoreInv => SubmissionInv
  BY DEF StoreInv
<1> QED
  BY StoreInvInit, StoreInvNext, <1>1, PTL DEF Spec

-------------------------------------------------------------------------------
(* Labels stand while they are retained.                                      *)

\* A label that joins an event which is still there is there too: whoever purges the label
\* purges the event with it, and an event written late brings none back.
JoinedKept ==
  \A i \in events : accepted[i] # NoLabel /\ accepted[i].time >= predictedAt[i] => labels[i] = accepted[i]

LabelInv == RetainedLabelsStand /\ JoinedKept

LEMMA LabelInvInit == Init => LabelInv
BY DEF Init, LabelInv, RetainedLabelsStand, JoinedKept

\* Purging up to a cutoff, of the API or of a job that may have begun before, keeps all of this
\* for the events there and for those that join them, if their labels stand.
LEMMA PurgeKeepsLabels ==
  ASSUME StoreInv, RetainedLabelsStand, NEW S \in SUBSET Ids, NEW cutoff \in Int,
         cutoff <= now - Retention, Purge(S, cutoff),
         \A i \in S : accepted[i] # NoLabel /\ accepted[i].time >= predictedAt[i]
                        /\ predictedAt[i] >= cutoff => labels[i] = accepted[i],
         UNCHANGED <<now, predictedAt, accepted>>
  PROVE  LabelInv'
<1> USE DEF StoreInv, SubmissionInv, TypeOK
<1>t. /\ now \in Int /\ Retention \in Int
      /\ \A i \in Ids : predictedAt[i] \in Int
      /\ \A i \in Ids : accepted[i] # NoLabel => accepted[i].time \in Int
  BY LimitsAssumption DEF Labels, Times
<1>1. \A i \in Ids : labels[i] # NoLabel /\ labels[i].time >= cutoff => labels'[i] = labels[i]
  BY DEF Purge, LabelsFrom, Mature
<1>2. \A i \in events' : i \in S /\ predictedAt[i] >= cutoff
  BY DEF Purge, EventsFrom, Mature
<1>3. RetainedLabelsStand'
  BY <1>t, <1>1 DEF RetainedLabelsStand
<1>4. JoinedKept'
  BY <1>t, <1>1, <1>2 DEF JoinedKept
<1> QED
  BY <1>3, <1>4 DEF LabelInv

LEMMA LabelInvNext == StoreInv /\ LabelInv /\ [Next]_vars => LabelInv'
<1> SUFFICES ASSUME StoreInv, LabelInv, [Next]_vars PROVE LabelInv'
  OBVIOUS
<1>t. /\ TypeOK /\ now \in Int /\ Retention \in Int /\ job.now \in Int /\ job.now <= now
      /\ \A i \in Ids : predictedAt[i] \in Int
      /\ \A i \in Ids : accepted[i] # NoLabel => accepted[i].time \in Int
  BY LimitsAssumption DEF StoreInv, SubmissionInv, JobClock, TypeOK, Labels, Times
<1>1. CASE UNCHANGED <<now, predictedAt, events, labels, accepted>>
  BY <1>1 DEF LabelInv, RetainedLabelsStand, JoinedKept
<1>2. CASE Tick
  BY <1>t, <1>2 DEF Tick, tables, LabelInv, RetainedLabelsStand, JoinedKept
<1>3. ASSUME NEW i \in Ids, Predict(i) PROVE LabelInv'
  <2>1. UNCHANGED <<now, events, labels, accepted>>
    BY <1>3 DEF Predict, tables
  <2>2. \A j \in events : predictedAt'[j] >= predictedAt[j]
    BY <1>t, <1>3 DEF Predict, TypeOK
  <2>3. \A j \in events : predictedAt'[j] \in Int /\ j \in Ids
    BY <1>t, <1>3 DEF Predict, TypeOK
  <2>4. JoinedKept'
    BY <1>t, <2>1, <2>2, <2>3 DEF LabelInv, JoinedKept
  <2> QED
    BY <2>1, <2>4 DEF LabelInv, RetainedLabelsStand
<1>4. ASSUME NEW S \in SUBSET Ids, PersistEvents(S) PROVE LabelInv'
  <2>1. Purge(events \cup S, now - Retention) /\ UNCHANGED <<now, predictedAt, accepted>>
    BY <1>4 DEF PersistEvents
  <2>2. events \cup S \in SUBSET Ids /\ now - Retention \in Int /\ now - Retention <= now - Retention
    BY <1>t DEF TypeOK
  <2>3. \A i \in events \cup S : accepted[i] # NoLabel /\ accepted[i].time >= predictedAt[i]
          /\ predictedAt[i] >= now - Retention => labels[i] = accepted[i]
    BY <1>t, <2>2 DEF LabelInv, RetainedLabelsStand
  <2> QED
    BY <2>1, <2>2, <2>3, PurgeKeepsLabels DEF LabelInv
<1>5. ASSUME NEW c \in Clients, InsertLabel(c) PROVE LabelInv'
  <2> DEFINE i == client[c].id
  <2>1. i \in Ids
    BY <1>t, <1>5, BusyClient DEF InsertLabel
  <2>2. CASE labels[i] = NoLabel
    <3>1. /\ labels' = [labels EXCEPT ![i] = client[c].label]
          /\ accepted' = [accepted EXCEPT ![i] = client[c].label]
          /\ UNCHANGED <<now, predictedAt, events>>
      BY <1>5, <2>2 DEF InsertLabel
    <3> QED
      BY <1>t, <2>1, <3>1 DEF LabelInv, RetainedLabelsStand, JoinedKept, TypeOK
  <2>3. CASE labels[i] # NoLabel
    BY <1>1, <1>5, <2>3 DEF InsertLabel
  <2> QED
    BY <2>2, <2>3
<1>6. CASE PurgeJob
  <2>1. Purge(events, job.now - Retention) /\ UNCHANGED <<now, predictedAt, accepted>>
    BY <1>6 DEF PurgeJob
  <2>2. events \in SUBSET Ids /\ job.now - Retention \in Int /\ job.now - Retention <= now - Retention
    BY <1>t DEF TypeOK
  <2>3. \A i \in events : accepted[i] # NoLabel /\ accepted[i].time >= predictedAt[i]
          /\ predictedAt[i] >= job.now - Retention => labels[i] = accepted[i]
    BY DEF LabelInv, JoinedKept
  <2> QED
    BY <2>1, <2>2, <2>3, PurgeKeepsLabels DEF LabelInv
<1>7. ASSUME NEW c \in Clients, NEW i \in Ids, NEW label \in Labels, BeginLabel(c, i, label)
      PROVE LabelInv'
  BY <1>1, <1>7 DEF BeginLabel, tables
<1>8. ASSUME NEW c \in Clients, MeetLabel(c) \/ MissLabel(c) PROVE LabelInv'
  BY <1>1, <1>8 DEF MeetLabel, MissLabel, tables
<1>9. CASE BeginJob \/ ReadRows \/ ReadEventCount \/ ReadLabelCount \/ EndJob
  BY <1>1, <1>9 DEF BeginJob, ReadRows, ReadEventCount, ReadLabelCount, EndJob, tables
<1>10. CASE UNCHANGED vars
  BY <1>1, <1>10 DEF vars, tables
<1> QED
  BY <1>2, <1>3, <1>4, <1>5, <1>6, <1>7, <1>8, <1>9, <1>10 DEF Next

(* Whatever is submitted, written late or purged by either process, an        *)
(* accepted label is in the table for as long as its time is retained.        *)
THEOREM LabelsStand == Spec => []RetainedLabelsStand
<1>1. LabelInv => RetainedLabelsStand
  BY DEF LabelInv
<1> QED
  BY StoreInvInit, StoreInvNext, LabelInvInit, LabelInvNext, <1>1, PTL DEF Spec

(* late_unlabeled_count counts no prediction that was given a label joining   *)
(* it, although events and labels expire by different clocks.                 *)
THEOREM LateIsUnlabeled == Spec => []LateMeansUnlabeled
<1>1. StoreInv /\ LabelInv => LateMeansUnlabeled
  <2> SUFFICES ASSUME StoreInv, LabelInv, NEW i \in Overdue(now), accepted[i] # NoLabel
               PROVE accepted[i].time < predictedAt[i]
    BY DEF LateMeansUnlabeled
  <2>1. i \in events /\ i \in Ids /\ ~ Joins(i)
    BY DEF Overdue, StoreInv, SubmissionInv, TypeOK
  <2>2. accepted[i].time \in Int /\ predictedAt[i] \in Int
    BY <2>1, LimitsAssumption DEF StoreInv, SubmissionInv, TypeOK, Labels, Times
  <2> QED
    BY <2>1, <2>2 DEF LabelInv, JoinedKept, Joins
<1> QED
  BY StoreInvInit, StoreInvNext, LabelInvInit, LabelInvNext, <1>1, PTL DEF Spec

-------------------------------------------------------------------------------
(* The counts of a report.                                                    *)

EventsServed == \A i \in events : predictedAt[i] # -1

\* The rows read are still in the window, with the labels they had, and the counts cover them.
RowsCounted ==
  job.pc \in {"events", "joined", "done"} =>
    /\ \E R \in SUBSET InWindow :
         /\ Cardinality(R) = job.rows
         /\ job.labeled <= Cardinality({i \in R : Joins(i)})
         /\ job.omitted => R # InWindow
    /\ job.pc # "events" => job.events >= job.rows /\ (job.omitted => job.events > job.rows)
    /\ job.pc = "done" => job.joined >= job.labeled

CountInv == EventsServed /\ (WindowRetained => RowsCounted)

LEMMA CountInvInit == Init => CountInv
BY DEF Init, CountInv, EventsServed, RowsCounted, IdleJob

LEMMA SubsetCount ==
  ASSUME NEW S \in SUBSET Ids, NEW T \in SUBSET S
  PROVE  /\ Cardinality(S) \in Nat /\ Cardinality(T) \in Nat
         /\ Cardinality(T) <= Cardinality(S)
         /\ T # S => Cardinality(T) < Cardinality(S)
<1>1. IsFiniteSet(S)
  BY IdsAssumption, FS_Subset
<1>2. IsFiniteSet(T) /\ Cardinality(T) <= Cardinality(S) /\ (Cardinality(S) = Cardinality(T) => S = T)
  BY <1>1, FS_Subset
<1>3. Cardinality(S) \in Nat /\ Cardinality(T) \in Nat
  BY <1>1, <1>2, FS_CardinalityType
<1> QED
  BY <1>2, <1>3

\* Purging up to a cutoff before the window.
LEMMA PurgeKeepsWindow ==
  ASSUME StoreInv, NEW S \in SUBSET Ids, events \subseteq S, NEW cutoff \in Int,
         cutoff <= job.now - Window, Purge(S, cutoff),
         predictedAt' = predictedAt, job'.now = job.now
  PROVE  InWindow \subseteq InWindow' /\ \A i \in InWindow : Joins(i) => Joins(i)'
<1> USE DEF StoreInv, SubmissionInv, TypeOK
<1>t. /\ job.now - Window \in Int
      /\ \A i \in Ids : predictedAt[i] \in Int
      /\ \A i \in Ids : labels[i] # NoLabel => labels[i].time \in Int
  BY LimitsAssumption DEF Labels, Times
<1>1. \A i \in InWindow : i \in Ids /\ i \in S /\ predictedAt[i] >= cutoff
  BY <1>t DEF InWindow
<1>2. InWindow \subseteq InWindow'
  BY <1>1 DEF InWindow, Purge, EventsFrom, Mature
<1>3. \A i \in InWindow : Joins(i) => Joins(i)'
  BY <1>t, <1>1 DEF Joins, Purge, LabelsFrom, Mature
<1> QED
  BY <1>2, <1>3

\* What a step can do to the job.
LEMMA JobMoves ==
  ASSUME Next
  PROVE  \/ UNCHANGED job \/ BeginJob \/ PurgeJob \/ ReadRows \/ ReadEventCount \/ ReadLabelCount
         \/ EndJob
<1>1. ASSUME NEW i \in Ids, Predict(i) PROVE UNCHANGED job
  BY <1>1 DEF Predict
<1>2. ASSUME NEW S \in SUBSET Ids, PersistEvents(S) PROVE UNCHANGED job
  BY <1>2 DEF PersistEvents
<1>3. ASSUME NEW c \in Clients, NEW i \in Ids, NEW label \in Labels, BeginLabel(c, i, label)
      PROVE  UNCHANGED job
  BY <1>3 DEF BeginLabel
<1>4. ASSUME NEW c \in Clients, MeetLabel(c) \/ MissLabel(c) \/ InsertLabel(c) PROVE UNCHANGED job
  BY <1>4 DEF MeetLabel, MissLabel, InsertLabel
<1>5. Tick => UNCHANGED job
  BY DEF Tick
<1> QED
  BY <1>1, <1>2, <1>3, <1>4, <1>5 DEF Next

\* Only a tick moves the clock.
LEMMA ClockMoves ==
  ASSUME Next
  PROVE  Tick \/ UNCHANGED now
<1>1. ASSUME NEW i \in Ids, Predict(i) PROVE UNCHANGED now
  BY <1>1 DEF Predict
<1>2. ASSUME NEW S \in SUBSET Ids, PersistEvents(S) PROVE UNCHANGED now
  BY <1>2 DEF PersistEvents
<1>3. ASSUME NEW c \in Clients, NEW i \in Ids, NEW label \in Labels, BeginLabel(c, i, label)
      PROVE  UNCHANGED now
  BY <1>3 DEF BeginLabel
<1>4. ASSUME NEW c \in Clients, MeetLabel(c) \/ MissLabel(c) \/ InsertLabel(c) PROVE UNCHANGED now
  BY <1>4 DEF MeetLabel, MissLabel, InsertLabel
<1>5. BeginJob \/ PurgeJob \/ ReadRows \/ ReadEventCount \/ ReadLabelCount \/ EndJob => UNCHANGED now
  BY DEF BeginJob, PurgeJob, ReadRows, ReadEventCount, ReadLabelCount, EndJob
<1> QED
  BY <1>1, <1>2, <1>3, <1>4, <1>5 DEF Next

LEMMA WindowKept ==
  ASSUME StoreInv, CountInv, Next, job'.now = job.now, WindowRetained
  PROVE  InWindow \subseteq InWindow' /\ \A i \in InWindow : Joins(i) => Joins(i)'
<1>t. /\ TypeOK /\ now \in Int /\ job.now \in Int /\ Window \in Int /\ Retention \in Int
      /\ job.now - Retention <= job.now - Window
      /\ now - Retention <= job.now - Window
  BY LimitsAssumption DEF StoreInv, SubmissionInv, JobClock, TypeOK, WindowRetained
<1>1. CASE UNCHANGED <<predictedAt, events, labels>>
  BY <1>1 DEF InWindow, Joins
<1>2. ASSUME NEW i \in Ids, Predict(i)
      PROVE  InWindow \subseteq InWindow' /\ \A j \in InWindow : Joins(j) => Joins(j)'
  <2>1. UNCHANGED <<events, labels>> /\ predictedAt' = [predictedAt EXCEPT ![i] = now] /\ i \notin events
    BY <1>2 DEF Predict, tables, CountInv, EventsServed
  <2>2. \A j \in events : predictedAt'[j] = predictedAt[j]
    BY <1>t, <2>1 DEF TypeOK
  <2> QED
    BY <2>1, <2>2 DEF InWindow, Joins
<1>3. ASSUME NEW S \in SUBSET Ids, PersistEvents(S)
      PROVE  InWindow \subseteq InWindow' /\ \A j \in InWindow : Joins(j) => Joins(j)'
  <2>1. /\ Purge(events \cup S, now - Retention) /\ predictedAt' = predictedAt
        /\ events \cup S \in SUBSET Ids /\ now - Retention \in Int
    BY <1>t, <1>3 DEF PersistEvents, TypeOK
  <2> QED
    BY <1>t, <2>1, PurgeKeepsWindow
<1>4. ASSUME NEW c \in Clients, InsertLabel(c)
      PROVE  InWindow \subseteq InWindow' /\ \A j \in InWindow : Joins(j) => Joins(j)'
  <2>1. UNCHANGED <<predictedAt, events>>
    BY <1>4 DEF InsertLabel
  <2>2. \A j \in Ids : labels[j] # NoLabel => labels'[j] = labels[j]
    BY <1>t, <1>4 DEF InsertLabel, TypeOK
  <2>3. InWindow \subseteq Ids
    BY <1>t DEF InWindow, TypeOK
  <2> QED
    BY <2>1, <2>2, <2>3 DEF InWindow, Joins
<1>5. CASE PurgeJob
  <2>1. /\ Purge(events, job.now - Retention) /\ predictedAt' = predictedAt
        /\ events \in SUBSET Ids /\ job.now - Retention \in Int
    BY <1>t, <1>5 DEF PurgeJob, TypeOK
  <2> QED
    BY <1>t, <2>1, PurgeKeepsWindow
<1>6. CASE Tick \/ BeginJob \/ ReadRows \/ ReadEventCount \/ ReadLabelCount \/ EndJob
  BY <1>1, <1>6 DEF Tick, BeginJob, ReadRows, ReadEventCount, ReadLabelCount, EndJob, tables
<1>7. ASSUME NEW c \in Clients, NEW i \in Ids, NEW label \in Labels,
             BeginLabel(c, i, label) \/ MeetLabel(c) \/ MissLabel(c)
      PROVE  InWindow \subseteq InWindow' /\ \A j \in InWindow : Joins(j) => Joins(j)'
  BY <1>1, <1>7 DEF BeginLabel, MeetLabel, MissLabel, tables
<1>8. ASSUME NEW c \in Clients, MeetLabel(c) \/ MissLabel(c)
      PROVE  InWindow \subseteq InWindow' /\ \A j \in InWindow : Joins(j) => Joins(j)'
  BY <1>1, <1>8 DEF MeetLabel, MissLabel, tables
<1> QED
  BY <1>2, <1>3, <1>4, <1>5, <1>6, <1>7, <1>8 DEF Next

LEMMA RowsCountedNext == StoreInv /\ CountInv /\ Next => (WindowRetained => RowsCounted)'
<1> SUFFICES ASSUME StoreInv, CountInv, Next, WindowRetained', job'.pc \in {"events", "joined", "done"}
             PROVE  RowsCounted'
  BY DEF RowsCounted
<1>t. /\ TypeOK /\ InWindow \in SUBSET Ids
      /\ job.rows \in Nat /\ job.labeled \in Nat /\ job.events \in Nat /\ job.joined \in Nat
  BY LimitsAssumption DEF StoreInv, SubmissionInv, TypeOK, InWindow
<1>1. CASE ReadRows
  <2>1. PICK R \in Newest(InWindow) :
          job' = [job EXCEPT !.pc = "events", !.rows = Cardinality(R),
                             !.labeled = Cardinality({i \in R : Joins(i)}),
                             !.omitted = R # InWindow]
    BY <1>1 DEF ReadRows
  <2>2. R \in SUBSET InWindow /\ {i \in R : Joins(i)} \in SUBSET R
    BY DEF Newest
  <2>3. InWindow' = InWindow /\ \A i \in R : Joins(i)' = Joins(i)
    BY <1>1, <1>t, <2>1 DEF ReadRows, InWindow, Joins, tables, TypeOK
  <2>4. /\ job'.pc = "events" /\ job'.rows = Cardinality(R)
        /\ job'.labeled = Cardinality({i \in R : Joins(i)})
        /\ job'.omitted = (R # InWindow)
    BY <1>t, <2>1 DEF TypeOK
  <2>5. {i \in R : Joins(i)'} = {i \in R : Joins(i)}
    BY <2>3
  <2>6. Cardinality({i \in R : Joins(i)}) \in Nat
    BY <1>t, <2>2, SubsetCount
  <2>7. job'.labeled <= Cardinality({i \in R : Joins(i)'})
    BY <2>4, <2>5, <2>6
  <2> QED
    BY <2>2, <2>3, <2>4, <2>7 DEF RowsCounted
<1>2. CASE ~ ReadRows
  <2>0. \/ UNCHANGED job \/ ReadEventCount \/ ReadLabelCount
    <3>1. BeginJob => job'.pc = "purge"
      BY DEF BeginJob, IdleJob
    <3>2. PurgeJob => job'.pc = "rows"
      BY <1>t DEF PurgeJob, TypeOK
    <3>3. EndJob => job'.pc = "idle"
      BY DEF EndJob, IdleJob
    <3> QED
      BY <1>2, <3>1, <3>2, <3>3, JobMoves
  <2>1. /\ job.pc \in {"events", "joined", "done"} /\ job'.now = job.now
        /\ job'.rows = job.rows /\ job'.labeled = job.labeled /\ job'.omitted = job.omitted
    BY <2>0, <1>t DEF ReadEventCount, ReadLabelCount, TypeOK
  <2>w. WindowRetained
    <3>1. /\ now \in Int /\ job.now \in Int /\ Window \in Int /\ Retention \in Int
      BY <1>t, LimitsAssumption DEF TypeOK
    <3>2. now' \in Int /\ now <= now'
      BY <3>1, ClockMoves DEF Tick
    <3> QED
      BY <2>1, <3>1, <3>2 DEF WindowRetained
  <2>2. PICK R \in SUBSET InWindow :
          /\ Cardinality(R) = job.rows
          /\ job.labeled <= Cardinality({i \in R : Joins(i)})
          /\ job.omitted => R # InWindow
    BY <2>1, <2>w DEF CountInv, RowsCounted
  <2>3. InWindow \subseteq InWindow' /\ \A i \in InWindow : Joins(i) => Joins(i)'
    BY <2>1, <2>w, WindowKept
  <2>4. /\ job'.rows = job.rows /\ job'.labeled = job.labeled /\ job'.omitted = job.omitted
    BY <2>1
  <2>5. job'.labeled <= Cardinality({i \in R : Joins(i)'})
    <3>1. {i \in R : Joins(i)} \in SUBSET {i \in R : Joins(i)'} /\ {i \in R : Joins(i)'} \in SUBSET Ids
      BY <1>t, <2>2, <2>3
    <3> QED
      BY <1>t, <2>2, <2>4, <3>1, SubsetCount
  <2>6. R \in SUBSET InWindow' /\ (job'.omitted => R # InWindow')
    BY <2>2, <2>3, <2>4
  <2>7. CASE job' = job
    BY <2>1, <2>2, <2>4, <2>5, <2>6, <2>7, <2>w DEF CountInv, RowsCounted
  <2>8. CASE ReadEventCount
    <3>1. job'.pc = "joined" /\ job'.events = Cardinality(InWindow)
      BY <1>t, <2>8 DEF ReadEventCount, TypeOK
    <3>2. Cardinality(R) <= Cardinality(InWindow) /\ (R # InWindow => Cardinality(R) < Cardinality(InWindow))
          /\ Cardinality(R) \in Nat /\ Cardinality(InWindow) \in Nat
      BY <1>t, <2>2, SubsetCount
    <3>3. job'.events >= job'.rows /\ (job'.omitted => job'.events > job'.rows)
      BY <2>2, <2>4, <3>1, <3>2
    <3> QED
      BY <2>2, <2>4, <2>5, <2>6, <3>1, <3>3 DEF RowsCounted
  <2>9. CASE ReadLabelCount
    <3>1. /\ job'.pc = "done" /\ job'.joined = Cardinality({i \in InWindow : Joins(i)})
          /\ job'.events = job.events /\ job.pc = "joined"
      BY <1>t, <2>9 DEF ReadLabelCount, TypeOK
    <3>2. {i \in R : Joins(i)} \in SUBSET {i \in InWindow : Joins(i)} /\ {i \in InWindow : Joins(i)} \in SUBSET Ids
      BY <1>t, <2>2
    <3>3. job'.joined >= job'.labeled
      BY <1>t, <2>2, <2>4, <3>1, <3>2, SubsetCount
    <3>4. job'.events >= job'.rows /\ (job'.omitted => job'.events > job'.rows)
      BY <2>4, <2>w, <3>1 DEF CountInv, RowsCounted
    <3> QED
      BY <2>2, <2>4, <2>5, <2>6, <3>1, <3>3, <3>4 DEF RowsCounted
  <2> QED
    BY <2>0, <2>7, <2>8, <2>9
<1> QED
  BY <1>1, <1>2

LEMMA CountInvNext == StoreInv /\ CountInv /\ [Next]_vars => CountInv'
<1> SUFFICES ASSUME StoreInv, CountInv, [Next]_vars PROVE CountInv'
  OBVIOUS
<1>1. CASE UNCHANGED vars
  <2>1. /\ now' = now /\ job' = job /\ events' = events /\ predictedAt' = predictedAt /\ labels' = labels
    BY <1>1 DEF vars, tables
  <2>2. EventsServed'
    BY <2>1 DEF CountInv, EventsServed
  <2>3. (WindowRetained => RowsCounted)'
    <3>1. InWindow' = InWindow /\ \A i \in InWindow : Joins(i)' = Joins(i)
      BY <2>1 DEF InWindow, Joins
    <3>2. ASSUME NEW R \in SUBSET InWindow PROVE {i \in R : Joins(i)'} = {i \in R : Joins(i)}
      BY <3>1
    <3> QED
      BY <2>1, <3>1, <3>2 DEF CountInv, RowsCounted, WindowRetained
  <2> QED
    BY <2>2, <2>3 DEF CountInv
<1>2. CASE Next
  <2>t. /\ TypeOK /\ now \in Int /\ job.now \in Int /\ JobSpan \in Nat
    BY LimitsAssumption DEF StoreInv, SubmissionInv, TypeOK
  <2>2. EventsServed'
    <3>1. CASE UNCHANGED <<events, predictedAt>>
      BY <3>1 DEF CountInv, EventsServed
    <3>2. ASSUME NEW i \in Ids, Predict(i) PROVE EventsServed'
      BY <2>t, <3>2 DEF Predict, CountInv, EventsServed, TypeOK, tables
    <3>3. ASSUME NEW S \in SUBSET Ids, PersistEvents(S) PROVE EventsServed'
      BY <3>3 DEF PersistEvents, Purge, EventsFrom, CountInv, EventsServed
    <3>4. CASE PurgeJob
      BY <3>4 DEF PurgeJob, Purge, EventsFrom, CountInv, EventsServed
    <3> QED
      BY <1>2, <3>1, <3>2, <3>3, <3>4 DEF Next, Tick, BeginLabel, MeetLabel, MissLabel, InsertLabel,
         BeginJob, ReadRows, ReadEventCount, ReadLabelCount, EndJob, tables
  <2> QED
    BY <1>2, <2>2, RowsCountedNext DEF CountInv
<1> QED
  BY <1>1, <1>2

(* The counts of a report, read one after the other while the tables change,  *)
(* never fall short of its rows, and tell when rows were left out, until      *)
(* events of its window may have passed the retention period.                 *)
THEOREM CountsCover == Spec => []CountsCoverRows
<1>1. StoreInv /\ CountInv => CountsCoverRows
  BY DEF CountInv, RowsCounted, CountsCoverRows, Truncated, StoreInv, SubmissionInv, TypeOK
<1> QED
  BY StoreInvInit, StoreInvNext, CountInvInit, CountInvNext, <1>1, PTL DEF Spec

===============================================================================
