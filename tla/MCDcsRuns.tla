-------------------------------- MODULE MCDcsRuns --------------------------------
(* Instances of DcsRuns for TLC.                                                  *)
EXTENDS DcsRuns, TLC

(* callers are interchangeable, and so are worker slots *)
Symmetry == Permutations(Callers) \cup Permutations(Workers)

=================================================================================
