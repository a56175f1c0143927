---------------------------- MODULE MCModelRegistry ----------------------------
(***************************************************************************)
(* Instances of ModelRegistry for TLC.                                     *)
(***************************************************************************)
EXTENDS ModelRegistry, TLC

CONSTANTS ann, bob

Stage2 == {"staging", "production"}

\* Production has two operators, staging one of them.
Team == {<<ann, "staging">>, <<ann, "production">>, <<bob, "production">>}

\* One operator for everything.
Alone == {ann} \X Stage2

\* Versions are interchangeable.
Symmetry == Permutations(Versions)

================================================================================
