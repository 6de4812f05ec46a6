------------------------------ MODULE MCConnectorBootstrap ------------------------------
(* Instances of ConnectorBootstrap for TLC.                                                *)
EXTENDS ConnectorBootstrap, TLC

(* requests and worker slots are interchangeable *)
Symmetry == Permutations(Callers) \cup Permutations(Workers)

==========================================================================================
