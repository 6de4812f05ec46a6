------------------------- MODULE MCOrchestrationTasks -------------------------
(* Instances of Workspace for TLC.                                               *)
EXTENDS Workspace, TLC

(* The team a workspace may start from: nobody yet, an admin alone, or with a      *)
(* second member.                                                                *)
Member(role, active) == [role |-> role, active |-> active, verified |-> TRUE]
NewCompany == [p \in People |-> Nobody]
Pairs ==
  {[p \in People |-> IF p = Founder THEN Member("ADMIN", TRUE) ELSE Member(role, active)] :
     role \in TeamRoles, active \in BOOLEAN}
Alone == [p \in People |-> IF p = Founder THEN Member("ADMIN", TRUE) ELSE Nobody]
AnyTeam == {NewCompany, Alone} \cup Pairs

(* requests are interchangeable *)
Symmetry == Permutations(Callers)

=================================================================================
