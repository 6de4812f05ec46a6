----------------------------- MODULE OrchestrationTasks -----------------------------
(* The orchestration tasks of one company                                          *)
(* (dataruns/orchestration/task_transitions.py): requests that create a task under *)
(* an idempotency key, requests that move it through its eight statuses, and the   *)
(* audit events that each of them appends in the transaction of its change.        *)
(*                                                                                 *)
(* A request reads before it writes.  Create looks the key up and relies on the    *)
(* unique index when two of them race; transition is handed the row its view       *)
(* loaded and reads it again under the row lock.                                   *)
EXTENDS Integers, Sequences

CONSTANTS
  Callers,      \* requests that run at the same time
  Keys,         \* idempotency keys
  MaxEvents,    \* bound on the audit events of a task
  None          \* null

Statuses == {"PENDING", "BLOCKED", "READY", "IN_PROGRESS", "AWAITING_APPROVAL", "DONE",
             "FAILED", "CANCELLED"}

(* Viewers are turned away before anything is read.                               *)
Roles == {"ADMIN", "ANALYST"}

ASSUME OrchestrationAssumption ==
  MaxEvents \in Nat \ {0} /\ None \notin Statuses \cup Roles \cup Keys

VARIABLES
  tasks,     \* status of the task of each key
  trail,     \* its audit events, oldest first
  request    \* request each caller is serving

vars == <<tasks, trail, request>>

Terminal == {"DONE", "CANCELLED"}

Allowed ==
  {<<"PENDING", "READY">>, <<"PENDING", "BLOCKED">>, <<"PENDING", "CANCELLED">>,
   <<"BLOCKED", "READY">>, <<"BLOCKED", "CANCELLED">>,
   <<"READY", "IN_PROGRESS">>, <<"READY", "CANCELLED">>,
   <<"IN_PROGRESS", "AWAITING_APPROVAL">>, <<"IN_PROGRESS", "DONE">>,
   <<"IN_PROGRESS", "FAILED">>,
   <<"AWAITING_APPROVAL", "IN_PROGRESS">>, <<"AWAITING_APPROVAL", "DONE">>,
   <<"AWAITING_APPROVAL", "FAILED">>, <<"AWAITING_APPROVAL", "CANCELLED">>,
   <<"FAILED", "READY">>, <<"FAILED", "CANCELLED">>}

(* A created event comes from no status.                                          *)
EventType == [from : Statuses \cup {None}, to : Statuses, role : Roles]

Idle == [pc |-> "idle", key |-> None, to |-> None, role |-> None, seen |-> None]

(* `seen' is the status of the row that the view of a transition loaded.          *)
RequestType ==
  [pc : {"idle", "create", "transition"}, key : Keys \cup {None},
   to : Statuses \cup {None}, role : Roles \cup {None}, seen : Statuses \cup {None}]

TypeOK ==
  /\ tasks \in [Keys -> Statuses \cup {"absent"}]
  /\ trail \in [Keys -> Seq(EventType)]
  /\ request \in [Callers -> RequestType]

Init ==
  /\ tasks = [k \in Keys |-> "absent"]
  /\ trail = [k \in Keys |-> <<>>]
  /\ request = [c \in Callers |-> Idle]

---------------------------------------------------------------------------------
(* create_orchestration_task                                                      *)

StatusOrDefault(status) == IF status = None THEN "PENDING" ELSE status

(* The key is not in use and the body is valid; any other create changes nothing. *)
CreateLookup(c, key, role, status) ==
  /\ request[c].pc = "idle"
  /\ tasks[key] = "absent"
  /\ StatusOrDefault(status) \notin Terminal
  /\ request' = [request EXCEPT ![c] = [Idle EXCEPT
       !.pc = "create", !.key = key, !.to = StatusOrDefault(status), !.role = role]]
  /\ UNCHANGED <<tasks, trail>>

Answer(c) == request' = [request EXCEPT ![c] = Idle]

Save(key, from, to, role) ==
  /\ tasks' = [tasks EXCEPT ![key] = to]
  /\ trail' = [trail EXCEPT
       ![key] = Append(@, [from |-> from, to |-> to, role |-> role])]

(* mutant: update_or_create on the key *)
KeyTakenMut(key) == FALSE

(* The unique index on company and idempotency_key: IntegrityError.               *)
KeyTaken(key) == tasks[key] # "absent"

(* The row and its audit event, or the row of the request that was faster.        *)
CreateInsert(c) ==
  /\ request[c].pc = "create"
  /\ IF KeyTaken(request[c].key)
     THEN UNCHANGED <<tasks, trail>>
     ELSE Save(request[c].key, None, request[c].to, request[c].role)
  /\ Answer(c)

---------------------------------------------------------------------------------
(* transition_orchestration_task                                                  *)

(* OrchestrationTaskTransitionView loads the row, without a lock.                 *)
TransitionLoad(c, key, role, to) ==
  /\ request[c].pc = "idle"
  /\ tasks[key] # "absent"
  /\ request' = [request EXCEPT ![c] =
       [pc |-> "transition", key |-> key, to |-> to, role |-> role, seen |-> tasks[key]]]
  /\ UNCHANGED <<tasks, trail>>

(* _lock_orchestration_task: the row, read under its lock                         *)
Current(c) == tasks[request[c].key]

Approves(from, to) == from = "AWAITING_APPROVAL" /\ to = "DONE"

MayTransition(from, to, role) ==
  /\ Approves(from, to) => role = "ADMIN"
  /\ from \notin Terminal
  /\ <<from, to>> \in Allowed

(* Saves the status and appends the audit event in one transaction.               *)
Transition(c) ==
  /\ request[c].pc = "transition"
  /\ MayTransition(Current(c), request[c].to, request[c].role)
  /\ Len(trail[request[c].key]) < MaxEvents
  /\ Save(request[c].key, Current(c), request[c].to, request[c].role)
  /\ Answer(c)

(* 403, 409, or 200 with idempotent: nothing is written.                          *)
Refuse(c) ==
  /\ request[c].pc = "transition"
  /\ ~MayTransition(Current(c), request[c].to, request[c].role)
  /\ Answer(c)
  /\ UNCHANGED <<tasks, trail>>

(* A web worker dies; an open transaction is rolled back.                         *)
CallerDies(c) ==
  /\ request[c].pc # "idle"
  /\ Answer(c)
  /\ UNCHANGED <<tasks, trail>>

Next ==
  \E c \in Callers :
    \/ \E key \in Keys, role \in Roles :
         \/ \E status \in Statuses \cup {None} : CreateLookup(c, key, role, status)
         \/ \E to \in Statuses : TransitionLoad(c, key, role, to)
    \/ CreateInsert(c) \/ Transition(c) \/ Refuse(c) \/ CallerDies(c)

Spec == Init /\ [][Next]_vars

---------------------------------------------------------------------------------
(* The audit trail of a task is its history: one creation, whatever creates raced   *)
(* for the key, each transition from where the one before it ended, and the last   *)
(* event is the status of the row.                                                 *)
TrailExplains(t, status) ==
  IF status = "absent" THEN t = <<>>
  ELSE /\ Len(t) > 0
       /\ t[1].from = None
       /\ \A i \in 2 .. Len(t) : t[i].from = t[i - 1].to
       /\ t[Len(t)].to = status

TrailExplainsStatus == \A k \in Keys : TrailExplains(trail[k], tasks[k])

(* "Only admins can approve orchestration tasks": a task that was awaiting approval  *)
(* went from there to done by an admin, also when its status changed between the    *)
(* request's first look at it and its transaction.                                  *)
DoneByAdmin(t) ==
  \A i \in 2 .. Len(t) : Approves(t[i - 1].to, t[i].to) => t[i].role = "ADMIN"

ApprovedByAdmin == \A k \in Keys : DoneByAdmin(trail[k])

(* DONE and CANCELLED are final: of two requests that finish a task differently,     *)
(* one is told so and changes nothing.                                              *)
EndsOnce(t) == \A i \in 1 .. Len(t) - 1 : t[i].to \notin Terminal

FinalStatusStays == \A k \in Keys : EndsOnce(trail[k])

(* A request that is under way knows its key, its target and its role.             *)
RequestsComplete ==
  \A c \in Callers : request[c].pc # "idle" =>
    request[c].key \in Keys /\ request[c].to \in Statuses /\ request[c].role \in Roles

IInv ==
  /\ TypeOK
  /\ RequestsComplete
  /\ TrailExplainsStatus
  /\ ApprovedByAdmin
  /\ FinalStatusStays

=================================================================================
