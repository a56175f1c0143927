---------------------------- MODULE MCFeedbackStore ----------------------------
(***************************************************************************)
(* Instances of FeedbackStore for TLC.                                     *)
(***************************************************************************)
EXTENDS FeedbackStore, TLC

\* Ids, clients and outcomes are not told apart.
Symmetry == Permutations(Ids) \cup Permutations(Clients) \cup Permutations(Outcomes)

================================================================================
