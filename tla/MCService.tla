------------------------------- MODULE MCService -------------------------------
(***************************************************************************)
(* What must happen in the API process, for TLC: the event writer of       *)
(* EventWriter and, as P, the request path of PredictionServing.  They     *)
(* meet only where a handler hands over an event and where the lifespan    *)
(* closes the store, and each module allows whatever the other may do      *)
(* there; so they need not be interleaved.  A behaviour is one of either:  *)
(* the other part is at rest in it.                                        *)
(***************************************************************************)
EXTENDS EventWriter

CONSTANTS
  Requests, Ids, Payloads, Nobody, MaxConcurrent, MaxEntries,
  QueueTimeout, PredictionTimeout, Ttl, Grace, Lag, LastArrival, Horizon

VARIABLES
  now, lifecycle, closeBy, ready, ask, pc, deadline, answer, servedBy, joined,
  entries, expiresAt, future, resolvedBy, permits, scoring, orphaned, telemetry,
  awake  \* the part that moves

requestVars ==
  <<now, lifecycle, closeBy, ready, ask, pc, deadline, answer, servedBy, joined,
    entries, expiresAt, future, resolvedBy, permits, scoring, orphaned, telemetry>>

P == INSTANCE PredictionServing WITH phase <- lifecycle, thread <- scoring

\* As P, but for the phase.
Any == INSTANCE PredictionServing WITH phase <- "serving", thread <- scoring

\* The process has stopped without a request: nothing can happen, and nothing has to.
RequestsAtRest ==
  /\ Any!Init
  /\ lifecycle = "stopped"
  /\ ~ ready /\ ask = [r \in Requests |-> CHOOSE a \in P!Asks : TRUE]

ServiceInit ==
  /\ Init
  /\ \/ awake = "requests" /\ P!Init
     \/ awake = "writer" /\ RequestsAtRest

ServiceNext ==
  /\ UNCHANGED awake
  /\ \/ awake = "requests" /\ P!Next /\ UNCHANGED vars
     \/ awake = "writer" /\ Next /\ UNCHANGED requestVars

serviceVars == <<vars, requestVars, awake>>

ServiceSpec ==
  /\ ServiceInit /\ [][ServiceNext]_serviceVars
  /\ WriterFairness /\ CloseFairness /\ P!LoopFairness

-------------------------------------------------------------------------------
(* Every accepted request is answered, whether or not the model ever returns: *)
(* the timers of predict and of PredictionExecutor.run see to it.             *)
EveryRequestAnswered == P!EveryRequestAnswered

(* Shutdown, that is the lifespan, ends although a prediction thread may      *)
(* hang for ever; the interpreter still joins such a thread on exit.          *)
ShutdownCompletes == P!ShutdownCompletes

(* When the model always returns, all slots come back in the end, those of    *)
(* timed-out predictions too.                                                 *)
SlotsComeBack == P!SlotsComeBack

================================================================================
