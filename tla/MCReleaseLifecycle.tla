-------------------------- MODULE MCReleaseLifecycle --------------------------
(***************************************************************************)
(* Instance of ReleaseLifecycle for TLC.                                   *)
(***************************************************************************)
EXTENDS ReleaseLifecycle, TLC

CONSTANTS ann, guard

Stage2 == {"staging", "production"}

\* One operator for both stages; the guard rolls production back.
Team == ({ann} \X Stage2) \cup {<<guard, "production">>}

\* Versions and readers are interchangeable.
Symmetry == Permutations(Versions) \cup Permutations(Readers)

================================================================================
