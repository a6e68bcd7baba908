-------------------------- MODULE MCTodoProjection --------------------------
(* Instance of TodoProjection for TLC.                                     *)
EXTENDS TodoProjection, TLC

\* Processes are interchangeable.
Symmetry == Permutations(Procs)
=============================================================================
