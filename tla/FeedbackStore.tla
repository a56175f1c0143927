----------------------------- MODULE FeedbackStore -----------------------------
(***************************************************************************)
(* The SQLite tables of PredictionEventStore (ml/monitoring/store.py) and  *)
(* everything that works on them at once: the event writer, label          *)
(* submissions, and read_snapshot in the scheduled monitoring process.     *)
(*                                                                         *)
(* A writing transaction holds the database's write lock from its first    *)
(* statement that takes it; readers see the last commit (WAL).  A          *)
(* submission is split at its statements, because what keeps two of them   *)
(* apart is where it takes the lock.  The SELECTs of read_snapshot are     *)
(* transactions of their own.  A transaction that fails (busy, unavailable *)
(* storage) is rolled back and changes nothing here.                       *)
(*                                                                         *)
(* Time is counted in ticks, and a cutoff is a number of ticks before now. *)
(***************************************************************************)
EXTENDS Integers, FiniteSets

CONSTANTS
  Ids,        \* feedback ids
  Clients,    \* concurrent label submissions
  Nobody,     \* no client
  NoLabel,    \* no row
  Outcomes,   \* values of a label: 0 and 1
  Retention,  \* ml_monitoring_retention_days, of the API and of the job
  Window,     \* window_days of the job
  LabelGrace, \* label_grace_days of the job
  MaxEvents,  \* max_events of the job
  Leeway,     \* how far a label_time may lie in the future
  JobSpan,    \* bound: ticks during which one job may run
  LastTime    \* bound: the clock stops here

ASSUME IdsAssumption == IsFiniteSet(Ids)

ASSUME ActorsAssumption == Nobody \notin Clients

ASSUME LimitsAssumption ==
  /\ Retention \in Nat \ {0} /\ Window \in Nat \ {0} /\ LabelGrace \in Nat \ {0}
  /\ MaxEvents \in Nat \ {0}
  /\ Leeway \in Nat /\ JobSpan \in Nat /\ LastTime \in Nat

Times  == 0..(LastTime + Leeway)
Labels == [value: Outcomes, time: Times]

ASSUME NoLabelAssumption == NoLabel \notin Labels

VARIABLES
  now,          \* the wall clock
  predictedAt,  \* event_time of every prediction served, -1 before
  events,       \* feedback ids in prediction_events
  labels,       \* delayed_labels
  lock,         \* who holds the write lock across statements
  client,       \* label submissions
  accepted,     \* history: the last label answered "accepted" for an id
  job           \* read_snapshot

tables == <<events, labels>>
vars   == <<now, predictedAt, tables, lock, client, accepted, job>>

IdleClient == [pc |-> "idle", id |-> Nobody, label |-> NoLabel]

IdleJob ==
  [pc |-> "idle", now |-> 0, rows |-> 0, labeled |-> 0, omitted |-> FALSE,
   events |-> 0, joined |-> 0]

JobSteps == {"idle", "purge", "rows", "events", "joined", "done"}

TypeOK ==
  /\ now \in 0..LastTime
  /\ predictedAt \in [Ids -> -1..LastTime]
  /\ events \in SUBSET Ids
  /\ labels \in [Ids -> Labels \cup {NoLabel}]
  /\ lock \in Clients \cup {Nobody}
  /\ client \in [Clients -> [pc: {"locked", "inserting"}, id: Ids, label: Labels]
                              \cup {IdleClient}]
  /\ accepted \in [Ids -> Labels \cup {NoLabel}]
  /\ job \in [pc: JobSteps, now: 0..LastTime, rows: 0..MaxEvents, labeled: 0..MaxEvents,
              omitted: BOOLEAN, events: Nat, joined: Nat]

Init ==
  /\ now = 0
  /\ predictedAt = [i \in Ids |-> -1]
  /\ events = {}
  /\ labels = [i \in Ids |-> NoLabel]
  /\ lock = Nobody
  /\ client = [c \in Clients |-> IdleClient]
  /\ accepted = [i \in Ids |-> NoLabel]
  /\ job = IdleJob

Tick ==
  /\ now < LastTime
  /\ job.pc # "idle" => now - job.now < JobSpan
  /\ now' = now + 1
  /\ UNCHANGED <<predictedAt, tables, lock, client, accepted, job>>

-------------------------------------------------------------------------------
\* Rows of _purge_expired that stay.
Mature(t, cutoff) == t >= cutoff

LabelsFrom(cutoff) ==
  [i \in Ids |-> IF labels[i] # NoLabel /\ Mature(labels[i].time, cutoff)
                 THEN labels[i] ELSE NoLabel]

EventsFrom(S, cutoff) == {i \in S : Mature(predictedAt[i], cutoff)}

\* Mutant of Purge: labels are deleted a tick too early.
PurgeLabelsEarly(S, cutoff) ==
  /\ labels' = LabelsFrom(cutoff + 1)
  /\ events' = EventsFrom(S, cutoff)

\* Mutant of Purge: the job keeps only its own window.
PurgeToWindow(S, cutoff) ==
  /\ labels' = LabelsFrom(cutoff + Retention - Window + 1)
  /\ events' = EventsFrom(S, cutoff + Retention - Window + 1)

Purge(S, cutoff) ==
  /\ labels' = LabelsFrom(cutoff)
  /\ events' = EventsFrom(S, cutoff)

\* A prediction is served; its event waits in memory, and may be lost there.
Predict(i) ==
  /\ predictedAt[i] = -1
  /\ predictedAt' = [predictedAt EXCEPT ![i] = now]
  /\ UNCHANGED <<now, tables, lock, client, accepted, job>>

\* _persist_events_sync: insert and purge are one transaction, tried again until
\* it commits, so that an event may be written long after its event_time.
PersistEvents(S) ==
  /\ lock = Nobody
  /\ \A i \in S : predictedAt[i] # -1 /\ i \notin events
  /\ Purge(events \cup S, now - Retention)
  /\ UNCHANGED <<now, predictedAt, lock, client, accepted, job>>

-------------------------------------------------------------------------------
\* Mutant of TakeLock: the transaction begins deferred.
BeginDeferred(c) == UNCHANGED lock

TakeLock(c) == lock = Nobody /\ lock' = c

\* BEGIN IMMEDIATE of _record_label_sync.  The label may name any id, and any
\* time up to Leeway ahead.
BeginLabel(c, i, label) ==
  /\ client[c].pc = "idle"
  /\ label.time <= now + Leeway
  /\ TakeLock(c)
  /\ client' = [client EXCEPT ![c] = [pc |-> "locked", id |-> i, label |-> label]]
  /\ UNCHANGED <<now, predictedAt, tables, accepted, job>>

Release(c) == lock' = IF lock = c THEN Nobody ELSE lock

\* A row is there, and stays: the same label is a duplicate, another one a conflict.
MeetLabel(c) ==
  /\ client[c].pc = "locked"
  /\ labels[client[c].id] # NoLabel
  /\ client' = [client EXCEPT ![c] = IdleClient]
  /\ Release(c)
  /\ UNCHANGED <<now, predictedAt, tables, accepted, job>>

MissLabel(c) ==
  /\ client[c].pc = "locked"
  /\ labels[client[c].id] = NoLabel
  /\ client' = [client EXCEPT ![c].pc = "inserting"]
  /\ UNCHANGED <<now, predictedAt, tables, lock, accepted, job>>

\* INSERT without OR IGNORE: a row already there fails the request instead.
InsertLabel(c) ==
  LET i == client[c].id IN
  /\ client[c].pc = "inserting"
  /\ IF labels[i] = NoLabel
     THEN /\ labels' = [labels EXCEPT ![i] = client[c].label]
          /\ accepted' = [accepted EXCEPT ![i] = client[c].label]
     ELSE UNCHANGED <<labels, accepted>>
  /\ client' = [client EXCEPT ![c] = IdleClient]
  /\ Release(c)
  /\ UNCHANGED <<now, predictedAt, events, job>>

-------------------------------------------------------------------------------
\* All cutoffs of a snapshot come from one reading of the clock.
BeginJob ==
  /\ job.pc = "idle"
  /\ job' = [IdleJob EXCEPT !.pc = "purge", !.now = now]
  /\ UNCHANGED <<now, predictedAt, tables, lock, client, accepted>>

PurgeJob ==
  /\ job.pc = "purge"
  /\ lock = Nobody
  /\ Purge(events, job.now - Retention)
  /\ job' = [job EXCEPT !.pc = "rows"]
  /\ UNCHANGED <<now, predictedAt, lock, client, accepted>>

\* Events of the window, and those a label joins: it must not predate the event.
InWindow == {i \in events : predictedAt[i] >= job.now - Window}
Joins(i) == labels[i] # NoLabel /\ labels[i].time >= predictedAt[i]

\* ORDER BY event_time DESC LIMIT max_events, ties in any order.
Newest(S) ==
  {R \in SUBSET S :
     /\ \/ Cardinality(R) = MaxEvents
        \/ R = S /\ Cardinality(S) < MaxEvents
     /\ \A i \in R, j \in S \ R : predictedAt[i] >= predictedAt[j]}

ReadRows ==
  /\ job.pc = "rows"
  /\ \E R \in Newest(InWindow) :
       job' = [job EXCEPT !.pc = "events", !.rows = Cardinality(R),
                          !.labeled = Cardinality({i \in R : Joins(i)}),
                          !.omitted = R # InWindow]
  /\ UNCHANGED <<now, predictedAt, tables, lock, client, accepted>>

\* The SELECT of late_unlabeled_count at clock t.  Like the one of unmatched
\* labels it runs between ReadRows and ReadEventCount, and changes nothing.
Overdue(t) == {i \in events : predictedAt[i] < t - LabelGrace /\ ~ Joins(i)}

ReadEventCount ==
  /\ job.pc = "events"
  /\ job' = [job EXCEPT !.pc = "joined", !.events = Cardinality(InWindow)]
  /\ UNCHANGED <<now, predictedAt, tables, lock, client, accepted>>

ReadLabelCount ==
  /\ job.pc = "joined"
  /\ job' = [job EXCEPT !.pc = "done", !.joined = Cardinality({i \in InWindow : Joins(i)})]
  /\ UNCHANGED <<now, predictedAt, tables, lock, client, accepted>>

\* The report is written, or the job fails at some statement.
EndJob ==
  /\ job.pc # "idle"
  /\ job' = IdleJob
  /\ UNCHANGED <<now, predictedAt, tables, lock, client, accepted>>

Truncated == job.events > job.rows

Next ==
  \/ Tick
  \/ \E i \in Ids : Predict(i)
  \/ \E S \in SUBSET Ids : S # {} /\ PersistEvents(S)
  \/ \E c \in Clients, i \in Ids, label \in Labels : BeginLabel(c, i, label)
  \/ \E c \in Clients : MeetLabel(c) \/ MissLabel(c) \/ InsertLabel(c)
  \/ BeginJob
  \/ PurgeJob
  \/ ReadRows
  \/ ReadEventCount
  \/ ReadLabelCount
  \/ EndJob

Spec == Init /\ [][Next]_vars

-------------------------------------------------------------------------------
\* Who is between two statements of a submission has the write lock.
OneWriter == \A c \in Clients : client[c].pc # "idle" => lock = c

NoInsertCollision == \A c \in Clients : client[c].pc = "inserting" => labels[client[c].id] = NoLabel

(* Simultaneous submissions never make one of them fail on the other's row:   *)
(* who is about to insert finds the id still free.                            *)
SubmissionInv == TypeOK /\ OneWriter /\ NoInsertCollision

(* A label that was accepted stands unchanged for as long as its label_time is *)
(* within the retention period, whatever is submitted or purged meanwhile.     *)
RetainedLabelsStand ==
  \A i \in Ids :
    accepted[i] # NoLabel /\ accepted[i].time >= now - Retention => labels[i] = accepted[i]

(* No prediction is reported late that was given a label joining it: such a   *)
(* label outlives its event, however late the event was written and whichever *)
(* process purges.                                                            *)
LateMeansUnlabeled ==
  \A i \in Overdue(now) : accepted[i] # NoLabel => accepted[i].time < predictedAt[i]

\* Nothing that is in the window of the job can have been purged yet: nothing in
\* Settings or run_monitoring keeps window_days below the retention.
WindowRetained == now - job.now + Window <= Retention

(* The counts of a report, read after its rows and not in one transaction     *)
(* with them, never fall short of the rows, and a report that left events of  *)
(* its window out says so - as long as the job has not run for longer than    *)
(* the window, which is a setting of its own, is shorter than the retention.  *)
CountsCoverRows ==
  WindowRetained =>
    /\ job.pc = "done" /\ job.omitted => Truncated
    /\ job.pc \in {"joined", "done"} => job.events >= job.rows
    /\ job.pc = "done" => job.joined >= job.labeled

(* monitoring/README.md: a different label for an already-labeled feedback id *)
(* is refused.  The accepted outcome of an id never changes.                  *)
LabelIsFinal ==
  [][\A i \in Ids : accepted[i] # NoLabel => accepted'[i].value = accepted[i].value]_vars

================================================================================
