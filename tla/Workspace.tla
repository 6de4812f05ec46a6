------------------------------- MODULE Workspace -------------------------------
(* The tasks of a company and the team that works on them: a request is made by a        *)
(* member, and carries the role that member had when it was authenticated. Everything a   *)
(* request to the tasks does is in OrchestrationTasks, everything else in TeamAccess.     *)
EXTENDS OrchestrationTasks, TeamAccess

(* A request is served by one worker, whatever it asks for.                              *)
ASSUME WorkspaceAssumption == Visitors = Callers

workspaceVars == <<tasks, trail, request, members, invites, mails, sessions, visit, visits>>

WorkspaceInit == Init /\ TeamInit

(* _company_for_orch_mutate: viewers are turned away.                                    *)
MayMutate(c) == Visits(c, "asked") /\ visit[c].as \in Roles

Teamless == UNCHANGED <<members, invites, mails, sessions, visits>>

AskTask(c, key) ==
  /\ MayMutate(c)
  /\ \/ \E status \in Statuses \cup {None} : CreateLookup(c, key, visit[c].as, status)
     \/ \E to \in Statuses : TransitionLoad(c, key, visit[c].as, to)
  /\ visit' = [visit EXCEPT ![c].pc = "task"]
  /\ Teamless

AnswerTask(c) ==
  /\ CreateInsert(c) \/ Transition(c) \/ Refuse(c) \/ CallerDies(c)
  /\ Served(c)
  /\ Teamless

(* A request to the team leaves the tasks alone, and one under way to the tasks is left to *)
(* them.                                                                               *)
TeamStep ==
  /\ TeamNext
  /\ \A c \in Callers : Visits(c, "task") => visit'[c].pc = "task"
  /\ UNCHANGED vars

WorkspaceNext ==
  \/ \E c \in Callers : AnswerTask(c) \/ \E key \in Keys : AskTask(c, key)
  \/ TeamStep

WorkspaceSpec == WorkspaceInit /\ [][WorkspaceNext]_workspaceVars

-----------------------------------------------------------------------------
(* Access tokens outlive roles, but not in effect: who changes the team, creates a task or *)
(* moves one - which for an approval takes an admin - has the role for it now, or has been  *)
(* changed since the request was authenticated (JWTAuthentication reads the user's row,     *)
(* TeamMemberDetailView, OrchestrationTaskTransitionView).                               *)
AuthorityIsFresh ==
  \A c \in Callers :
    LET p == visit[c].by
    IN (visit[c].pc \in {"patch", "invite", "revoke", "task"} /\ ~visit[c].deposed) =>
         /\ IsActive(p)
         /\ visit[c].pc # "task" => members[p].role = "ADMIN"
         /\ visit[c].pc = "task" => members[p].role = request[c].role

(* A request to the tasks carries the role it was authenticated with.                   *)
TasksCarryRoles ==
  \A c \in Callers : Visits(c, "task") => request[c].role = visit[c].as

=================================================================================
