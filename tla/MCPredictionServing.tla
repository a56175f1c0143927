------------------------- MODULE MCPredictionServing -------------------------
(***************************************************************************)
(* Instances of PredictionServing for TLC.                                 *)
(***************************************************************************)
EXTENDS PredictionServing, TLC

\* Requests, ids and payloads are interchangeable.
Symmetry ==
  Permutations(Requests) \cup Permutations(Ids) \cup Permutations(Payloads)

==============================================================================
