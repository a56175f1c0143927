------------------------------- MODULE MCTraining -------------------------------
(***************************************************************************)
(* Training for TLC: the files it learns from (TrainingData), and what it  *)
(* makes of them (TrainingRun).  TrainingRun learns from any sample, and   *)
(* writes none of those files; so the two need not be interleaved.  A      *)
(* behaviour is one of either: the other part is at rest in it.            *)
(***************************************************************************)
EXTENDS MCTrainingData, MCTrainingRun

VARIABLE awake  \* the part that moves

\* Writers and versions are interchangeable.
Symmetry == Permutations(Writers) \cup Permutations(Versions)

\* Every job and every load has been made; none found its input.
DataAtRest ==
  /\ store = [p \in Parts |-> Absent]
  /\ job = [w \in Writers |-> NoJob]
  /\ disturbed = FALSE
  /\ load = NoLoad
  /\ approved = {}
  /\ jobs = MaxJobs /\ loads = MaxLoads /\ kills = 0

\* Every attempt was killed before it wrote anything.
TrainingAtRest ==
  /\ pc = "idle" /\ attempt = NoAttempt
  /\ tags = [v \in Versions |-> Untagged]
  /\ run = [v \in Versions |-> "none"]
  /\ outcome = [v \in Versions |-> "killed"]
  /\ production = None /\ candidate = None
  /\ local = [models |-> None, report |-> None, last |-> None]
  /\ served = {}

Init ==
  \/ awake = "data" /\ DataInit /\ TrainingAtRest
  \/ awake = "training" /\ TrainingInit /\ DataAtRest

Next ==
  /\ UNCHANGED awake
  /\ \/ awake = "data" /\ DataNext /\ UNCHANGED trainingVars
     \/ awake = "training" /\ TrainingNext /\ UNCHANGED dataVars

Spec == Init /\ [][Next]_<<dataVars, trainingVars, awake>>

================================================================================
