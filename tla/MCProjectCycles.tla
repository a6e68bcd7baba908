--------------------------- MODULE MCProjectCycles ---------------------------
(* Instances of ProjectCycles for TLC.  Processes are interchangeable.       *)
EXTENDS ProjectCycles, TLC
Symmetry == Permutations(Procs)
=============================================================================
