--------------------------- MODULE PredictionServing ---------------------------
(***************************************************************************)
(* One API process serving POST /v1/predictions (app/main.py, predict) on  *)
(* top of InMemoryIdempotencyStore and PredictionExecutor                  *)
(* (app/services/reliability.py).                                          *)
(*                                                                         *)
(* Handlers run on one event loop.  No critical section of the store's     *)
(* asyncio lock contains an await, so a handler is atomic from one real    *)
(* suspension point to the next: the queue for a prediction slot, the      *)
(* prediction thread, and the shared result of another request.  Those are *)
(* the values of pc.                                                       *)
(*                                                                         *)
(* An entry of the store and its result future are named by the request    *)
(* that created them, so that a complete or a fail that reaches another    *)
(* request's entry (both look the entry up by id) is visible.              *)
(*                                                                         *)
(* Time is a discrete monotonic clock.  A timer never fires early and is   *)
(* served at most Lag ticks late.                                          *)
(***************************************************************************)
EXTENDS Integers, FiniteSets

CONSTANTS
  Requests,           \* HTTP requests, each sent once
  Ids,                \* request_id values
  Payloads,           \* fingerprints of the request bodies
  Nobody,             \* no request
  MaxConcurrent,      \* max_concurrent_predictions
  MaxEntries,         \* idempotency_max_entries
  QueueTimeout,       \* prediction_queue_timeout_seconds
  PredictionTimeout,  \* prediction_timeout_seconds
  Ttl,                \* idempotency_ttl_seconds
  Grace,              \* shutdown_grace_seconds
  Lag,                \* how late the event loop may serve a timer
  LastArrival,        \* bound: no request or stop signal after this instant
  Horizon             \* bound: the clock stops here

ASSUME RequestsAssumption == IsFiniteSet(Requests) /\ Nobody \notin Requests

\* The ranges Settings enforces (gt=0, ge=1); it relates no two of the values.
ASSUME SettingsAssumption ==
  /\ MaxConcurrent \in Nat \ {0}
  /\ MaxEntries \in Nat \ {0}
  /\ QueueTimeout \in Nat \ {0}
  /\ PredictionTimeout \in Nat \ {0}
  /\ Ttl \in Nat \ {0}
  /\ Grace \in Nat \ {0}

ASSUME ClockAssumption == Lag \in Nat /\ LastArrival \in Nat /\ Horizon \in Nat

VARIABLES
  now,         \* monotonic()
  phase,       \* lifecycle of the process
  closeBy,     \* deadline of the event store's close, then of the executor's shutdown
  ready,       \* provider.is_ready, settled before the first request
  ask,         \* the id and payload of every request
  pc,          \* where a request's handler is suspended
  deadline,    \* timer of the wait_for a handler is suspended in
  answer,      \* the response's status
  servedBy,    \* the request whose scoring produced a 200 response
  joined,      \* whose result future a replaying request awaits
  entries,     \* _entries, each named by the request that created it
  expiresAt,   \* expires_at of the entry a request created
  future,      \* state of the result future a request created
  resolvedBy,  \* the request whose response a done future holds
  permits,     \* value of the semaphore
  thread,      \* the to_thread task of a request
  orphaned,    \* tasks whose done callback releases the semaphore
  telemetry    \* what became of a request's prediction event

handlers == <<ask, pc, deadline, answer, servedBy, joined, telemetry>>
table    == <<entries, expiresAt, future, resolvedBy>>
slots    == <<permits, thread, orphaned>>
process  == <<phase, closeBy, ready>>
vars     == <<now, process, handlers, table, slots>>

Phases     == {"serving", "draining", "flushing", "closing", "stopped"}
Places     == {"new", "queued", "scoring", "waiting", "answered"}
Statuses   == {"none", "scored", "replayed", "conflict", "busy", "timeout", "unavailable"}
Suspended  == {"queued", "scoring", "waiting"}
Owning     == {"queued", "scoring"}
Asks       == [id: Ids, payload: Payloads]

TypeOK ==
  /\ now \in Nat
  /\ phase \in Phases
  /\ closeBy \in Nat
  /\ ready \in BOOLEAN
  /\ ask \in [Requests -> Asks]
  /\ pc \in [Requests -> Places]
  /\ deadline \in [Requests -> Nat]
  /\ answer \in [Requests -> Statuses]
  /\ servedBy \in [Requests -> Requests \cup {Nobody}]
  /\ joined \in [Requests -> Requests \cup {Nobody}]
  /\ entries \in SUBSET Requests
  /\ expiresAt \in [Requests -> Nat]
  /\ future \in [Requests -> {"pending", "done", "cancelled"}]
  /\ resolvedBy \in [Requests -> Requests \cup {Nobody}]
  /\ permits \in Nat
  /\ thread \in [Requests -> {"none", "running", "scored", "raised"}]
  /\ orphaned \in SUBSET Requests
  /\ telemetry \in [Requests -> {"none", "queued", "dropped"}]

Init ==
  /\ now = 0
  /\ phase = "serving"
  /\ closeBy = 0
  /\ ready \in BOOLEAN
  /\ ask \in [Requests -> Asks]
  /\ pc = [r \in Requests |-> "new"]
  /\ deadline = [r \in Requests |-> 0]
  /\ answer = [r \in Requests |-> "none"]
  /\ servedBy = [r \in Requests |-> Nobody]
  /\ joined = [r \in Requests |-> Nobody]
  /\ entries = {}
  /\ expiresAt = [r \in Requests |-> 0]
  /\ future = [r \in Requests |-> "pending"]
  /\ resolvedBy = [r \in Requests |-> Nobody]
  /\ permits = MaxConcurrent
  /\ thread = [r \in Requests |-> "none"]
  /\ orphaned = {}
  /\ telemetry = [r \in Requests |-> "none"]

-------------------------------------------------------------------------------
\* The idempotency store.

\* What _purge_expired leaves: it drops an entry whether or not it is settled.
Live == {e \in entries : expiresAt[e] > now}

\* Mutant of EntriesOf: the table is keyed by id and fingerprint.
EntriesOfAsk(r) == {e \in entries : ask[e] = ask[r]}

\* The entry that self._entries.get(request_id) finds, as a set of at most one.
EntriesOf(r) == {e \in entries : ask[e].id = ask[r].id}

\* Mutant of Evictable: evicts the oldest entry, settled or not.
EvictableUnsettled ==
  {e \in Live : \A f \in Live : expiresAt[e] <= expiresAt[f]}

\* The first settled entry in insertion order.  Every entry lives equally long,
\* so that is the settled entry that expires first; entries made within one tick
\* of the model's clock may stand in either order.
Evictable ==
  {e \in Live : /\ future[e] # "pending"
                /\ \A f \in Live : future[f] # "pending" => expiresAt[e] <= expiresAt[f]}

\* Mutant of TablesWithRoom: a full store is never evicted from.
TablesPurged == {Live}

\* The tables that purging and, at capacity, evicting one entry can leave.
TablesWithRoom ==
  IF Cardinality(Live) >= MaxEntries /\ Evictable # {}
  THEN {Live \ {e} : e \in Evictable}
  ELSE {Live}

HasRoom(kept) == Cardinality(kept) < MaxEntries

\* Mutant of SamePayload: the fingerprint is not compared.
AnyPayload(e, r) == TRUE

SamePayload(e, r) == ask[e].payload = ask[r].payload

\* store.complete: whatever entry the id has now gets this request's response.
CompleteEntry(r) ==
  LET hit == {e \in EntriesOf(r) : future[e] = "pending"}
  IN  /\ future' = [e \in Requests |-> IF e \in hit THEN "done" ELSE future[e]]
      /\ resolvedBy' = [e \in Requests |-> IF e \in hit THEN r ELSE resolvedBy[e]]
      /\ UNCHANGED <<entries, expiresAt>>

\* Mutant of FailEntry: the entry goes, its future stays unsettled.
FailWithoutCancel(r) ==
  /\ entries' = entries \ EntriesOf(r)
  /\ UNCHANGED <<expiresAt, future, resolvedBy>>

\* store.fail: whatever entry the id has now is removed and its future cancelled.
FailEntry(r) ==
  LET hit == {e \in EntriesOf(r) : future[e] = "pending"}
  IN  /\ entries' = entries \ EntriesOf(r)
      /\ future' = [e \in Requests |-> IF e \in hit THEN "cancelled" ELSE future[e]]
      /\ UNCHANGED <<expiresAt, resolvedBy>>

-------------------------------------------------------------------------------
\* The handler, up to its first suspension point.

Arrives(r) == pc[r] = "new" /\ phase = "serving" /\ now <= LastArrival

\* The handler returns: its timer and the future it held are gone.
Answer(r, status) ==
  /\ pc' = [pc EXCEPT ![r] = "answered"]
  /\ answer' = [answer EXCEPT ![r] = status]
  /\ deadline' = [deadline EXCEPT ![r] = 0]
  /\ joined' = [joined EXCEPT ![r] = Nobody]

\* Mutant of TimerFired: a wait_for that cannot abandon a running thread.
TimerAwaitsThread(r) == now >= deadline[r] /\ thread[r] # "running"

TimerFired(r) == now >= deadline[r]

Suspend(r, place, timeout) ==
  /\ pc' = [pc EXCEPT ![r] = place]
  /\ deadline' = [deadline EXCEPT ![r] = now + timeout]

\* 503 before anything is looked up.
RefuseUnready(r) ==
  /\ Arrives(r)
  /\ ~ready
  /\ Answer(r, "unavailable")
  /\ UNCHANGED <<now, process, ask, servedBy, telemetry, table, slots>>

\* 409: the id is in use with another fingerprint.
RefuseConflict(r) ==
  /\ Arrives(r)
  /\ ready
  /\ entries' = Live
  /\ \E e \in EntriesOf(r) \cap Live : ~SamePayload(e, r)
  /\ Answer(r, "conflict")
  /\ UNCHANGED <<now, process, ask, servedBy, telemetry,
                 expiresAt, future, resolvedBy, slots>>

\* Not the owner: await the shared result for at most the prediction timeout.
Join(r) ==
  /\ Arrives(r)
  /\ ready
  /\ entries' = Live
  /\ \E e \in EntriesOf(r) \cap Live :
       /\ SamePayload(e, r)
       /\ joined' = [joined EXCEPT ![r] = e]
  /\ Suspend(r, "waiting", PredictionTimeout)
  /\ UNCHANGED <<now, process, ask, answer, servedBy, telemetry,
                 expiresAt, future, resolvedBy, slots>>

\* The id is free: the store purges, evicts at capacity and leaves kept.
FindsRoom(r, kept) ==
  /\ Arrives(r)
  /\ ready
  /\ EntriesOf(r) \cap Live = {}
  /\ kept \in TablesWithRoom

\* 429: every entry is live and unsettled.
RefuseFull(r) ==
  /\ \E kept \in TablesWithRoom :
       /\ FindsRoom(r, kept)
       /\ ~HasRoom(kept)
       /\ entries' = kept
  /\ Answer(r, "busy")
  /\ UNCHANGED <<now, process, ask, servedBy, telemetry,
                 expiresAt, future, resolvedBy, slots>>

\* The new owner's entry, in a table that has room for it.
AddEntry(r) ==
  /\ \E kept \in TablesWithRoom :
       /\ FindsRoom(r, kept)
       /\ HasRoom(kept)
       /\ entries' = kept \cup {r}
  /\ expiresAt' = [expiresAt EXCEPT ![r] = now + Ttl]

\* prepare_feature_frame raises: the new entry is failed again, 503.
AdmitUnpreparable(r) ==
  /\ \E kept \in TablesWithRoom :
       /\ FindsRoom(r, kept)
       /\ HasRoom(kept)
       /\ entries' = kept
  /\ expiresAt' = [expiresAt EXCEPT ![r] = now + Ttl]
  /\ future' = [future EXCEPT ![r] = "cancelled"]
  /\ Answer(r, "unavailable")
  /\ UNCHANGED <<now, process, ask, servedBy, telemetry, resolvedBy, slots>>

\* Mutant of SlotFree: overlooks that all slots are taken.
NobodyQueues == \A q \in Requests : pc[q] # "queued"

SlotFree == permits > 0 /\ \A q \in Requests : pc[q] # "queued"

\* A slot is free and nobody queues for one: the thread starts at once.
AdmitScoring(r) ==
  /\ SlotFree
  /\ AddEntry(r)
  /\ permits' = permits - 1
  /\ thread' = [thread EXCEPT ![r] = "running"]
  /\ Suspend(r, "scoring", PredictionTimeout)
  /\ UNCHANGED <<now, process, ask, answer, servedBy, joined, telemetry,
                 future, resolvedBy, orphaned>>

AdmitQueued(r) ==
  /\ ~SlotFree
  /\ AddEntry(r)
  /\ Suspend(r, "queued", QueueTimeout)
  /\ UNCHANGED <<now, process, ask, answer, servedBy, joined, telemetry,
                 future, resolvedBy, slots>>

-------------------------------------------------------------------------------
\* The owner: PredictionExecutor.run and what predict makes of its outcome.

\* The semaphore is first-in first-out; all its waiters have the same timeout.
NextInLine(r) ==
  /\ pc[r] = "queued"
  /\ \A q \in Requests : pc[q] = "queued" => deadline[r] <= deadline[q]

GrantSlot(r) ==
  /\ NextInLine(r)
  /\ permits > 0
  /\ permits' = permits - 1
  /\ thread' = [thread EXCEPT ![r] = "running"]
  /\ Suspend(r, "scoring", PredictionTimeout)
  /\ UNCHANGED <<now, process, ask, answer, servedBy, joined, telemetry, table, orphaned>>

\* PredictionBusyError: 429.
GiveUpQueueing(r) ==
  /\ pc[r] = "queued"
  /\ TimerFired(r)
  /\ FailEntry(r)
  /\ Answer(r, "busy")
  /\ UNCHANGED <<now, process, ask, servedBy, telemetry, slots>>

\* The model returns a score or raises, in a thread nobody can interrupt.
ThreadEnds(r) ==
  /\ thread[r] = "running"
  /\ phase # "stopped"
  /\ \E outcome \in {"scored", "raised"} : thread' = [thread EXCEPT ![r] = outcome]
  /\ UNCHANGED <<now, process, handlers, table, permits, orphaned>>

\* The finally block of run, and the done callback of an orphaned task.
ReleaseSlot(r) ==
  /\ permits' = permits + 1
  /\ thread' = [thread EXCEPT ![r] = "none"]

\* Mutant of DeferRelease: the finally block releases a timed-out slot as well.
ReleaseTwice(r) ==
  /\ orphaned' = orphaned \cup {r}
  /\ permits' = permits + 1
  /\ UNCHANGED thread

\* Mutant of DeferRelease: no callback is attached.
ReleaseNever(r) == UNCHANGED slots

DeferRelease(r) ==
  /\ orphaned' = orphaned \cup {r}
  /\ UNCHANGED <<permits, thread>>

\* The slot is released, the event handed over, the shared result set: 200.
OwnerScores(r) ==
  /\ pc[r] = "scoring"
  /\ thread[r] = "scored"
  /\ ReleaseSlot(r)
  /\ \E t \in {"queued", "dropped"} : telemetry' = [telemetry EXCEPT ![r] = t]
  /\ CompleteEntry(r)
  /\ Answer(r, "scored")
  /\ servedBy' = [servedBy EXCEPT ![r] = r]
  /\ UNCHANGED <<now, process, ask, orphaned>>

\* ModelProviderError or any other exception: 503.
OwnerFails(r) ==
  /\ pc[r] = "scoring"
  /\ thread[r] = "raised"
  /\ ReleaseSlot(r)
  /\ FailEntry(r)
  /\ Answer(r, "unavailable")
  /\ UNCHANGED <<now, process, ask, servedBy, telemetry, orphaned>>

\* PredictionTimeoutError: 504.  The slot stays taken until the thread ends; a
\* thread that ends as the timer fires does not change the outcome.
OwnerTimesOut(r) ==
  /\ pc[r] = "scoring"
  /\ TimerFired(r)
  /\ DeferRelease(r)
  /\ FailEntry(r)
  /\ Answer(r, "timeout")
  /\ UNCHANGED <<now, process, ask, servedBy, telemetry>>

\* The done callback of a timed-out prediction's task.
ReleaseOrphan(r) ==
  /\ r \in orphaned
  /\ thread[r] \in {"scored", "raised"}
  /\ phase # "stopped"
  /\ orphaned' = orphaned \ {r}
  /\ ReleaseSlot(r)
  /\ UNCHANGED <<now, process, handlers, table>>

-------------------------------------------------------------------------------
\* A request that joined another one's result.

Replay(r) ==
  /\ pc[r] = "waiting"
  /\ future[joined[r]] = "done"
  /\ Answer(r, "replayed")
  /\ servedBy' = [servedBy EXCEPT ![r] = resolvedBy[joined[r]]]
  /\ UNCHANGED <<now, process, ask, telemetry, table, slots>>

\* The owner failed and cancelled the shared result: 503.
JoinedCancelled(r) ==
  /\ pc[r] = "waiting"
  /\ future[joined[r]] = "cancelled"
  /\ Answer(r, "unavailable")
  /\ UNCHANGED <<now, process, ask, servedBy, telemetry, table, slots>>

JoinedTimesOut(r) ==
  /\ pc[r] = "waiting"
  /\ TimerFired(r)
  /\ Answer(r, "timeout")
  /\ UNCHANGED <<now, process, ask, servedBy, telemetry, table, slots>>

-------------------------------------------------------------------------------
\* The process.

\* The server stops accepting requests and lets the accepted ones finish.
BeginShutdown ==
  /\ phase = "serving"
  /\ now <= LastArrival
  /\ phase' = "draining"
  /\ UNCHANGED <<now, closeBy, ready, handlers, table, slots>>

\* Every handler has returned: the lifespan closes the event store, see
\* EventWriter, which takes at most the grace period.
CloseStore ==
  /\ phase = "draining"
  /\ \A r \in Requests : pc[r] \in {"new", "answered"}
  /\ phase' = "flushing"
  /\ closeBy' = now + Grace
  /\ UNCHANGED <<now, ready, handlers, table, slots>>

\* The store is closed: wait for the threads still running.
CloseExecutor ==
  /\ phase = "flushing"
  /\ phase' = "closing"
  /\ closeBy' = now + Grace
  /\ UNCHANGED <<now, ready, handlers, table, slots>>

\* Mutant of GraceOver: an asyncio.wait without a timeout.
ThreadsEnded == \A r \in Requests : thread[r] # "running"

GraceOver == now >= closeBy \/ \A r \in Requests : thread[r] # "running"

FinishShutdown ==
  /\ phase = "closing"
  /\ GraceOver
  /\ phase' = "stopped"
  /\ entries' = {}
  /\ UNCHANGED <<now, closeBy, ready, handlers, expiresAt, future, resolvedBy, slots>>

\* Time passes only while no timer is overdue by more than the loop's lag, and
\* not between the last handler's return and the start of the shutdown hooks.
Tick ==
  /\ now < Horizon
  /\ phase # "stopped"
  /\ \A r \in Requests : pc[r] \in Suspended => now < deadline[r] + Lag
  /\ phase = "draining" => \E r \in Requests : pc[r] \in Suspended
  /\ phase \in {"flushing", "closing"} => now < closeBy + Lag
  /\ now' = now + 1
  /\ UNCHANGED <<process, handlers, table, slots>>

\* An idle server, and a stopped one, may stay as they are.
Quiet ==
  /\ phase \in {"serving", "stopped"}
  /\ \A r \in Requests : pc[r] \notin Suspended
  /\ UNCHANGED vars

-------------------------------------------------------------------------------
Handler(r) ==
  \/ RefuseUnready(r)
  \/ RefuseConflict(r)
  \/ Join(r)
  \/ RefuseFull(r)
  \/ AdmitUnpreparable(r)
  \/ AdmitScoring(r)
  \/ AdmitQueued(r)
  \/ GrantSlot(r)
  \/ GiveUpQueueing(r)
  \/ OwnerScores(r)
  \/ OwnerFails(r)
  \/ OwnerTimesOut(r)
  \/ Replay(r)
  \/ JoinedCancelled(r)
  \/ JoinedTimesOut(r)

Next ==
  \/ \E r \in Requests : Handler(r) \/ ThreadEnds(r) \/ ReleaseOrphan(r)
  \/ BeginShutdown
  \/ CloseStore
  \/ CloseExecutor
  \/ FinishShutdown
  \/ Tick
  \/ Quiet

Spec == Init /\ [][Next]_vars

\* The event loop keeps running every suspended handler, callback and timer.
\* Clients, the operator and the model's threads owe nothing.
Resume(r) ==
  \/ GrantSlot(r) \/ GiveUpQueueing(r)
  \/ OwnerScores(r) \/ OwnerFails(r) \/ OwnerTimesOut(r)
  \/ Replay(r) \/ JoinedCancelled(r) \/ JoinedTimesOut(r)
  \/ ReleaseOrphan(r)

LoopFairness ==
  /\ \A r \in Requests : WF_vars(Resume(r))
  /\ WF_vars(CloseStore)
  /\ WF_vars(CloseExecutor)
  /\ WF_vars(FinishShutdown)
  /\ WF_vars(Tick)

FairSpec == Spec /\ LoopFairness

-------------------------------------------------------------------------------
(* Settings under which an entry outlives the slowest prediction: its owner  *)
(* may queue and score for the two timeouts, each timer served Lag late.     *)
(* Nothing in Settings enforces this (config.py allows any ttl above 0).     *)
TtlCoversPrediction == Ttl > QueueTimeout + PredictionTimeout + 2 * Lag

SlotHolders == {r \in Requests : pc[r] = "scoring" \/ r \in orphaned}

(* Every slot of the semaphore is either free or held by exactly one         *)
(* prediction, timed-out ones included, so the finally block and the done    *)
(* callback of PredictionExecutor.run never both release, nor neither.       *)
SlotsConserved == permits + Cardinality(SlotHolders) = MaxConcurrent

(* The model never runs in more than max_concurrent_predictions threads, even *)
(* when predictions whose client was already told 504 are still running.      *)
ThreadsBounded ==
  Cardinality({r \in Requests : thread[r] = "running"}) <= MaxConcurrent

(* At any time at most one handler computes a prediction for an id.  Holds    *)
(* only while entries outlive predictions: purging drops unsettled entries.   *)
SingleOwner ==
  \A r, q \in Requests :
    pc[r] \in Owning /\ pc[q] \in Owning /\ ask[r].id = ask[q].id => r = q

(* A 200 response, replayed or not, carries the score of a prediction made   *)
(* for the same id and the same payload, whose own caller got it too and     *)
(* whose feedback id was handed to the event store or counted as dropped.    *)
ReplayFaithful ==
  \A r \in Requests :
    answer[r] \in {"scored", "replayed"} =>
      /\ servedBy[r] \in Requests
      /\ ask[servedBy[r]] = ask[r]
      /\ answer[servedBy[r]] = "scored"
      /\ telemetry[servedBy[r]] # "none"

(* A request never awaits a result nobody is going to set: while the future  *)
(* it joined is unsettled, the owner is still in its handler.                *)
NoStrandedWaiter ==
  \A r \in Requests :
    pc[r] = "waiting" /\ future[joined[r]] = "pending" => pc[joined[r]] \in Owning

(* An unsettled entry belongs to a handler still at work: every way out of   *)
(* predict settles or removes the entry it created.                          *)
NoAbandonedEntry ==
  \A e \in entries : future[e] = "pending" => pc[e] \in Owning

(* A request that finds its id unused is refused with 429 for want of room   *)
(* only when max_entries predictions are in their handlers at that moment.   *)
CapacityRefusalIsLoad ==
  [][\A r \in Requests :
       pc[r] = "new" /\ answer'[r] = "busy" =>
         Cardinality({q \in Requests : pc[q] \in Owning}) >= MaxEntries]_vars

(* An entry leaves the store only because it expired, because its own        *)
(* prediction failed, because it was settled and the store was full, or at   *)
(* shutdown: never because another request's prediction failed.              *)
EntryLossJustified ==
  [][\A e \in entries \ entries' :
       \/ expiresAt[e] <= now
       \/ pc[e] \in Owning /\ answer'[e] \in {"busy", "timeout", "unavailable"}
       \/ future[e] # "pending" /\ Cardinality(Live) = MaxEntries
       \/ phase' = "stopped"]_vars

(* Every accepted request is answered, even when the model never returns.    *)
EveryRequestAnswered ==
  \A r \in Requests : pc[r] \in Suspended ~> pc[r] = "answered"

\* The model always returns or raises in the end.
ModelReturns == \A r \in Requests : thread[r] = "running" ~> thread[r] # "running"

(* When the model always returns, all slots come back in the end, those of    *)
(* timed-out predictions too.                                                 *)
SlotsComeBack == ModelReturns => <>[](permits = MaxConcurrent \/ phase = "stopped")

(* Shutdown ends although a prediction thread may hang for ever.  It is the   *)
(* lifespan that ends: the interpreter still joins such a thread on exit.     *)
ShutdownCompletes == phase = "draining" ~> phase = "stopped"

================================================================================
