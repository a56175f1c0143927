------------------------------ MODULE EventWriter ------------------------------
(***************************************************************************)
(* The bounded in-memory queue of PredictionEventStore, its background     *)
(* writer and its shutdown (ml/monitoring/store.py).                       *)
(*                                                                         *)
(* enqueue, the writer and close run on the event loop; a batch is written *)
(* by a thread, in one SQLite transaction, that cancelling the writer does *)
(* not stop.  The tables themselves are FeedbackStore's.                   *)
(*                                                                         *)
(* The queue is kept as a set: in what order its events leave it makes no  *)
(* difference to what becomes of them.                                     *)
(***************************************************************************)
EXTENDS Integers, FiniteSets

CONSTANTS
  Events,      \* prediction events, each handed over once
  Capacity,    \* queue_maxsize
  BatchLimit   \* most events in one transaction, 100 in the code

ASSUME EventsAssumption == IsFiniteSet(Events)

ASSUME LimitsAssumption == Capacity \in Nat \ {0} /\ BatchLimit \in Nat \ {0}

VARIABLES
  outcome,  \* what enqueue answered
  past,     \* events an earlier process answered
  queue,    \* _queue
  worker,   \* where _run_writer is suspended
  batch,    \* the writer's current batch; its size is _in_flight_events
  thread,   \* the thread that writes a batch
  writing,  \* the batch that thread was given
  phase,    \* lifecycle of the store
  dropped,  \* dropped_events
  stored    \* every event a committed transaction inserted

vars == <<outcome, past, queue, worker, batch, thread, writing, phase, dropped, stored>>

TypeOK ==
  /\ outcome \in [Events -> {"none", "queued", "refused"}]
  /\ past \in SUBSET Events
  /\ queue \in SUBSET Events /\ Cardinality(queue) <= Capacity
  /\ worker \in {"idle", "persisting", "backoff", "ended"}
  /\ batch \in SUBSET Events /\ Cardinality(batch) <= BatchLimit
  /\ thread \in {"none", "running", "committed", "failed"}
  /\ writing \in SUBSET Events
  /\ phase \in {"open", "joining", "closed"}
  /\ dropped \in Nat
  /\ stored \in SUBSET Events

Init ==
  /\ outcome = [e \in Events |-> "none"]
  /\ past = {}
  /\ queue = {}
  /\ worker = "idle"
  /\ batch = {}
  /\ thread = "none"
  /\ writing = {}
  /\ phase = "open"
  /\ dropped = 0
  /\ stored = {}

-------------------------------------------------------------------------------
\* Mutant of QueueFull: one slot is left unused.
QueueAlmostFull == Cardinality(queue) + 1 >= Capacity

QueueFull == Cardinality(queue) >= Capacity

\* Request handlers have all returned before the store is closed.
Enqueue(e) ==
  /\ phase = "open"
  /\ outcome[e] = "none"
  /\ IF QueueFull
     THEN /\ outcome' = [outcome EXCEPT ![e] = "refused"]
          /\ dropped' = dropped + 1
          /\ UNCHANGED queue
     ELSE /\ outcome' = [outcome EXCEPT ![e] = "queued"]
          /\ queue' = queue \cup {e}
          /\ UNCHANGED dropped
  /\ UNCHANGED <<past, worker, batch, thread, writing, phase, stored>>

\* Everything queued, up to the limit, is handed to a thread.
TakeBatch ==
  /\ worker = "idle"
  /\ \E S \in SUBSET queue :
       /\ S # {}
       /\ \/ Cardinality(S) = BatchLimit
          \/ S = queue /\ Cardinality(S) < BatchLimit
       /\ queue' = queue \ S
       /\ batch' = S
       /\ writing' = S
  /\ worker' = "persisting"
  /\ thread' = "running"
  /\ UNCHANGED <<outcome, past, phase, dropped, stored>>

\* Mutant of Insert: a partial failure is taken for success.
InsertSome == \E S \in SUBSET writing : S # {} /\ stored' = stored \cup S

\* INSERT OR IGNORE of the whole batch, one transaction.
Insert == stored' = stored \cup writing

WriteCommits ==
  /\ thread = "running"
  /\ Insert
  /\ thread' = "committed"
  /\ UNCHANGED <<outcome, past, queue, worker, batch, writing, phase, dropped>>

\* A locked or unavailable database; the transaction is rolled back.
WriteFails ==
  /\ thread = "running"
  /\ thread' = "failed"
  /\ UNCHANGED <<outcome, past, queue, worker, batch, writing, phase, dropped, stored>>

BatchDone ==
  /\ worker = "persisting"
  /\ thread = "committed"
  /\ worker' = "idle"
  /\ batch' = {}
  /\ thread' = "none"
  /\ writing' = {}
  /\ UNCHANGED <<outcome, past, queue, phase, dropped, stored>>

\* Mutant of AfterFailure: the writer gives up on a batch that failed.
GiveUpBatch == worker' = "idle" /\ batch' = {}

AfterFailure == worker' = "backoff" /\ UNCHANGED batch

BatchFailed ==
  /\ worker = "persisting"
  /\ thread = "failed"
  /\ AfterFailure
  /\ thread' = "none"
  /\ writing' = {}
  /\ UNCHANGED <<outcome, past, queue, phase, dropped, stored>>

\* The backoff ends and the same batch is tried again.
RetryBatch ==
  /\ worker = "backoff"
  /\ worker' = "persisting"
  /\ thread' = "running"
  /\ writing' = batch
  /\ UNCHANGED <<outcome, past, queue, batch, phase, dropped, stored>>

-------------------------------------------------------------------------------
BeginClose ==
  /\ phase = "open"
  /\ phase' = "joining"
  /\ UNCHANGED <<outcome, past, queue, worker, batch, thread, writing, dropped, stored>>

\* Cancelling a writer that awaits its thread marks the batch done; one that
\* sleeps keeps it.  A thread at work goes on.
CancelWriter ==
  /\ worker' = "ended"
  /\ batch' = IF worker = "persisting" THEN {} ELSE batch

\* _queue.join() returns: every event taken from the queue was marked done.
JoinCompletes ==
  /\ phase = "joining"
  /\ queue = {} /\ batch = {}
  /\ CancelWriter
  /\ phase' = "closed"
  /\ UNCHANGED <<outcome, past, queue, thread, writing, dropped, stored>>

\* Mutant of Pending: forgets the batch the writer is working on.
QueuedOnly == Cardinality(queue)

Pending == Cardinality(queue) + Cardinality(batch)

\* The grace period may end at any time.  What is pending is counted as dropped,
\* a batch whose transaction commits none the less included.
GraceExpires ==
  /\ phase = "joining"
  /\ dropped' = dropped + Pending
  /\ CancelWriter
  /\ phase' = "closed"
  /\ UNCHANGED <<outcome, past, queue, thread, writing, stored>>

\* The process dies, or exits once closed, and a new one starts with an empty
\* queue on the same tables.  A transaction not yet committed is rolled back.
Crash ==
  /\ past' = {e \in Events : outcome[e] # "none"}
  /\ queue' = {}
  /\ worker' = "idle"
  /\ batch' = {}
  /\ thread' = "none"
  /\ writing' = {}
  /\ phase' = "open"
  /\ dropped' = 0
  /\ UNCHANGED <<outcome, stored>>

Next ==
  \/ \E e \in Events : Enqueue(e)
  \/ TakeBatch
  \/ WriteCommits
  \/ WriteFails
  \/ BatchDone
  \/ BatchFailed
  \/ RetryBatch
  \/ BeginClose
  \/ JoinCompletes
  \/ GraceExpires
  \/ Crash

Spec == Init /\ [][Next]_vars

\* The event loop keeps the writer going and threads end; how they end is the
\* storage's choice.
WriterFairness ==
  /\ WF_vars(TakeBatch)
  /\ WF_vars(BatchDone)
  /\ WF_vars(BatchFailed)
  /\ WF_vars(RetryBatch)
  /\ WF_vars(WriteCommits \/ WriteFails)

\* The grace period ends.
CloseFairness == WF_vars(JoinCompletes \/ GraceExpires)

FairSpec == Spec /\ WriterFairness /\ CloseFairness

-------------------------------------------------------------------------------
\* Accepted events the running process still takes care of.
InMemory == IF phase = "closed" THEN {} ELSE queue \cup batch

\* Events this process was given that are neither stored nor still looked after.
Lost ==
  {e \in Events \ past :
     \/ outcome[e] = "refused"
     \/ outcome[e] = "queued" /\ e \notin stored \cup InMemory}

(* No event of a living process is lost without being counted in              *)
(* dropped_events: not by a full queue, a failed batch, a retry or shutdown.  *)
(* Nor is one counted that is not lost, but for the events of one batch, and  *)
(* only after a shutdown that abandoned a write which then succeeded.         *)
LossesCounted ==
  /\ dropped \in Cardinality(Lost)..(Cardinality(Lost) + BatchLimit)
  /\ phase # "closed" => dropped = Cardinality(Lost)

Answered(answer) == {e \in Events : outcome[e] = answer}

\* Only accepted events are handled, and none of an earlier process; no event is waiting and in
\* the writer's hands or stored as well.
OnePlace ==
  /\ queue \cup batch \cup writing \cup stored \subseteq Answered("queued")
  /\ past \cap (queue \cup batch \cup writing \cup Answered("none")) = {}
  /\ queue \cap (batch \cup writing \cup stored) = {}

\* The thread writes what the writer holds, unless the writer was cancelled.
ThreadServesWriter ==
  /\ worker = "persisting" => writing = batch /\ thread # "none"
  /\ worker \in {"idle", "backoff"} => thread = "none" /\ writing = {}
  /\ worker = "idle" => batch = {}
  /\ worker = "ended" <=> phase = "closed"

\* A batch is stored as a whole, and let go of when it is.
BatchWhole ==
  stored \cap batch # {} => worker = "persisting" /\ thread = "committed" /\ batch \subseteq stored

(* An event is in one place: waiting, in the writer's hands, or stored and    *)
(* done with, whatever fails, is cancelled or is tried again.                 *)
WriterInv == TypeOK /\ OnePlace /\ ThreadServesWriter /\ BatchWhole

(* The writer, for every event, does no more than EventIntake allows.         *)
FateOf(e) ==
  IF e \in stored THEN "stored"
  ELSE IF e \in InMemory THEN "accepted"
  ELSE IF outcome[e] = "queued" THEN "abandoned"
  ELSE IF outcome[e] = "none" THEN "unborn" ELSE "refused"

statusBar == [e \in Events |-> FateOf(e)]

Intake == INSTANCE EventIntake WITH status <- statusBar

ImplementsIntake == Intake!Spec

\* Storage that is tried again and again works in the end.
StorageRecovers == []<>(thread = "running") => []<>(thread = "committed")

(* If storage recovers, every accepted event is stored, unless the process    *)
(* was stopped or died.                                                       *)
AcceptedIsStored ==
  StorageRecovers =>
    \A e \in Events :
      outcome[e] = "queued" ~> e \in stored \/ phase = "closed" \/ e \in past

(* close returns although storage may fail for ever.                          *)
CloseReturns == phase = "joining" ~> phase # "joining"

================================================================================
