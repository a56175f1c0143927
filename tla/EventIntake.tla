------------------------------ MODULE EventIntake ------------------------------
(***************************************************************************)
(* What PredictionEventStore (ml/monitoring/store.py) promises for every   *)
(* prediction event handed to it while the process lives: the event is     *)
(* accepted, or refused because Capacity events wait; an accepted event is *)
(* stored, once, and is given up only when the process stops.  Giving up   *)
(* is not final: a write already under way may still succeed.              *)
(***************************************************************************)
EXTENDS Integers, FiniteSets

CONSTANTS Events, Capacity

VARIABLE status

Fates == {"unborn", "accepted", "refused", "stored", "abandoned"}

With(fate) == {e \in Events : status[e] = fate}

Init == status = [e \in Events |-> "unborn"]

Move(S, fate) == status' = [e \in Events |-> IF e \in S THEN fate ELSE status[e]]

Accept(e) == status[e] = "unborn" /\ Move({e}, "accepted")

Refuse(e) ==
  /\ status[e] = "unborn"
  /\ Cardinality(With("accepted")) >= Capacity
  /\ Move({e}, "refused")

Store(S) ==
  /\ S \subseteq With("accepted") \cup With("abandoned")
  /\ Move(S, "stored")

Abandon == Move(With("accepted"), "abandoned")

Next ==
  \/ \E e \in Events : Accept(e) \/ Refuse(e)
  \/ \E S \in SUBSET Events : Store(S)
  \/ Abandon

Spec == Init /\ [][Next]_status

================================================================================
