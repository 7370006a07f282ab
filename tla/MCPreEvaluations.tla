-------------------------- MODULE MCPreEvaluations --------------------------
(***************************************************************************)
(* Small instances of PreEvaluations.                                      *)
(***************************************************************************)
EXTENDS PreEvaluations, TLC

\* Tests, batches and applications are interchangeable.
MCSymmetry == Permutations(Evaluation) \cup Permutations(Grader) \cup Permutations(Application)
=============================================================================
