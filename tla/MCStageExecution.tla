-------------------------- MODULE MCStageExecution --------------------------
(* Instance of StageExecution for TLC.                                     *)
EXTENDS StageExecution, TLC

\* Execution identifiers are interchangeable.
Symmetry == Permutations(Exec)
=============================================================================
