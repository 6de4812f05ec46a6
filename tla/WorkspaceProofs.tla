----------------------------- MODULE WorkspaceProofs -----------------------------
(* Proofs about OrchestrationTasks, for any number of requests, keys and events, and    *)
(* about Workspace, for any number of people, requests and tasks.                       *)
EXTENDS Workspace, TLAPS

---------------------------------------------------------------------------------
(* The tasks alone                                                                 *)

(* No tasks and nobody at work                                                     *)
LEMMA InitInv == ASSUME Init PROVE IInv
<1>1. /\ TypeOK
      /\ RequestsComplete
  BY DEF Init, TypeOK, RequestsComplete, Idle, RequestType
<1>2. TrailExplainsStatus /\ ApprovedByAdmin /\ FinalStatusStays
  BY DEF Init, TrailExplainsStatus, TrailExplains, ApprovedByAdmin, DoneByAdmin,
         FinalStatusStays, EndsOnce
<1> QED
  BY <1>1, <1>2 DEF IInv

LEMMA StutterInv == ASSUME IInv, UNCHANGED vars PROVE IInv'
  BY DEF vars, IInv, TypeOK, RequestsComplete, TrailExplainsStatus, ApprovedByAdmin,
         FinalStatusStays

(* A step that writes nothing: one request begins or is answered.                  *)
LEMMA RequestStep ==
  ASSUME IInv, NEW c \in Callers, NEW rec \in RequestType,
         rec.pc # "idle" => rec.key \in Keys /\ rec.to \in Statuses /\ rec.role \in Roles,
         request' = [request EXCEPT ![c] = rec], UNCHANGED <<tasks, trail>>
  PROVE  IInv'
<1>1. TypeOK'
  BY DEF IInv, TypeOK
<1>2. RequestsComplete'
  BY DEF IInv, TypeOK, RequestsComplete
<1> QED
  BY <1>1, <1>2 DEF IInv, TrailExplainsStatus, ApprovedByAdmin, FinalStatusStays

LEMMA IdleType == Idle \in RequestType /\ Idle.pc = "idle"
  BY DEF Idle, RequestType

LEMMA AnswerStep ==
  ASSUME IInv, NEW c \in Callers, Answer(c), UNCHANGED <<tasks, trail>>
  PROVE  IInv'
  BY IdleType, RequestStep DEF Answer

LEMMA CreateLookupStep ==
  ASSUME IInv, NEW c \in Callers, NEW key \in Keys, NEW role \in Roles,
         NEW status \in Statuses \cup {None}, CreateLookup(c, key, role, status)
  PROVE  IInv'
<1> DEFINE rec == [Idle EXCEPT
             !.pc = "create", !.key = key, !.to = StatusOrDefault(status), !.role = role]
<1>1. StatusOrDefault(status) \in Statuses
  BY DEF StatusOrDefault, Statuses
<1>2. rec \in RequestType /\ rec.key = key /\ rec.to = StatusOrDefault(status) /\ rec.role = role
  BY <1>1 DEF Idle, RequestType
<1>3. request' = [request EXCEPT ![c] = rec] /\ UNCHANGED <<tasks, trail>>
  BY DEF CreateLookup
<1> HIDE DEF rec
<1> QED
  BY <1>1, <1>2, <1>3, RequestStep

LEMMA TransitionLoadStep ==
  ASSUME IInv, NEW c \in Callers, NEW key \in Keys, NEW role \in Roles,
         NEW to \in Statuses, TransitionLoad(c, key, role, to)
  PROVE  IInv'
<1> DEFINE rec ==
      [pc |-> "transition", key |-> key, to |-> to, role |-> role, seen |-> tasks[key]]
<1>1. tasks[key] \in Statuses
  BY DEF TransitionLoad, IInv, TypeOK
<1>2. rec \in RequestType /\ rec.key = key /\ rec.to = to /\ rec.role = role
  BY <1>1 DEF RequestType
<1>3. request' = [request EXCEPT ![c] = rec] /\ UNCHANGED <<tasks, trail>>
  BY DEF TransitionLoad
<1> HIDE DEF rec
<1> QED
  BY <1>2, <1>3, RequestStep

(* What one more event does to a trail that explains its task                      *)
LEMMA FirstEvent ==
  ASSUME NEW t \in Seq(EventType), NEW e \in EventType, t = <<>>, e.from = None
  PROVE  /\ TrailExplains(Append(t, e), e.to)
         /\ DoneByAdmin(Append(t, e)) /\ EndsOnce(Append(t, e))
<1>1. Len(Append(t, e)) = 1 /\ Append(t, e)[1] = e
  OBVIOUS
<1> QED
  BY <1>1, OrchestrationAssumption
     DEF TrailExplains, DoneByAdmin, EndsOnce, EventType, Statuses

LEMMA NextEvent ==
  ASSUME NEW t \in Seq(EventType), NEW e \in EventType, NEW status \in Statuses,
         TrailExplains(t, status), DoneByAdmin(t), EndsOnce(t),
         e.from = status, MayTransition(status, e.to, e.role)
  PROVE  /\ TrailExplains(Append(t, e), e.to)
         /\ DoneByAdmin(Append(t, e)) /\ EndsOnce(Append(t, e))
<1> DEFINE u == Append(t, e)
<1>1. /\ status # "absent" /\ e.to \in Statuses /\ e.to # "absent"
      /\ status \notin Terminal
      /\ Approves(status, e.to) => e.role = "ADMIN"
  BY DEF EventType, Statuses, MayTransition
<1>2. /\ Len(t) \in Nat /\ Len(t) > 0 /\ t[1].from = None /\ t[Len(t)].to = status
      /\ \A i \in 2 .. Len(t) : t[i].from = t[i - 1].to
  BY <1>1 DEF TrailExplains
<1>3. /\ Len(u) = Len(t) + 1 /\ u[Len(u)] = e
      /\ \A i \in 1 .. Len(t) : u[i] = t[i]
  OBVIOUS
<1> HIDE DEF u
<1>4. ASSUME NEW i \in 2 .. Len(u)
      PROVE  u[i].from = u[i - 1].to /\ (Approves(u[i - 1].to, u[i].to) => u[i].role = "ADMIN")
  <2>1. CASE i = Len(u)
    BY <1>1, <1>2, <1>3, <2>1
  <2>2. CASE i \in 2 .. Len(t)
    <3>1. i \in 1 .. Len(t) /\ i - 1 \in 1 .. Len(t)
      BY <1>2, <2>2
    <3>2. u[i] = t[i] /\ u[i - 1] = t[i - 1]
      BY <1>3, <3>1
    <3> QED
      BY <1>2, <2>2, <3>2 DEF DoneByAdmin
  <2> QED
    BY <1>2, <1>3, <2>1, <2>2
<1>5. ASSUME NEW i \in 1 .. Len(u) - 1
      PROVE  u[i].to \notin Terminal
  <2>1. CASE i = Len(t)
    BY <1>1, <1>2, <1>3, <2>1
  <2>2. CASE i \in 1 .. Len(t) - 1
    BY <1>2, <1>3, <2>2 DEF EndsOnce
  <2> QED
    BY <1>2, <1>3, <2>1, <2>2
<1>6. TrailExplains(u, e.to)
  BY <1>1, <1>2, <1>3, <1>4 DEF TrailExplains
<1>7. DoneByAdmin(u) /\ EndsOnce(u)
  BY <1>4, <1>5 DEF DoneByAdmin, EndsOnce
<1> QED
  BY <1>6, <1>7 DEF u

(* Save extends the trail of one task by the event of its new status.              *)
LEMMA SaveStep ==
  ASSUME IInv, NEW c \in Callers, NEW key \in Keys, NEW to \in Statuses,
         NEW role \in Roles, NEW from \in Statuses \cup {None},
         Save(key, from, to, role), Answer(c),
         \/ from = None /\ tasks[key] = "absent"
         \/ from \in Statuses /\ from = tasks[key] /\ MayTransition(from, to, role)
  PROVE  IInv'
<1> DEFINE e == [from |-> from, to |-> to, role |-> role]
           t == trail[key]
<1>1. e \in EventType /\ e.from = from /\ e.to = to /\ e.role = role
  BY DEF EventType
<1>2. /\ tasks \in [Keys -> Statuses \cup {"absent"}] /\ trail \in [Keys -> Seq(EventType)]
      /\ request \in [Callers -> RequestType] /\ t \in Seq(EventType)
  BY DEF IInv, TypeOK
<1>3. tasks' = [tasks EXCEPT ![key] = to] /\ trail' = [trail EXCEPT ![key] = Append(t, e)]
  BY DEF Save
<1>4. TrailExplains(t, tasks[key]) /\ DoneByAdmin(t) /\ EndsOnce(t)
  BY DEF IInv, TrailExplainsStatus, ApprovedByAdmin, FinalStatusStays
<1> HIDE DEF e, t
<1>5. /\ TrailExplains(Append(t, e), to)
      /\ DoneByAdmin(Append(t, e)) /\ EndsOnce(Append(t, e))
  <2>1. CASE from = None /\ tasks[key] = "absent"
    BY <1>1, <1>2, <1>4, <2>1, FirstEvent DEF TrailExplains
  <2>2. CASE from \in Statuses /\ from = tasks[key] /\ MayTransition(from, to, role)
    BY <1>1, <1>2, <1>4, <2>2, NextEvent
  <2> QED
    BY <2>1, <2>2
<1>6. Append(t, e) \in Seq(EventType)
  BY <1>1, <1>2
<1>7. request' = [request EXCEPT ![c] = Idle]
  BY DEF Answer
<1>8. TypeOK'
  BY <1>2, <1>3, <1>6, <1>7, IdleType DEF TypeOK
<1>9. RequestsComplete'
  BY <1>2, <1>7, IdleType DEF IInv, RequestsComplete
<1>10. \A k \in Keys : /\ tasks'[k] = (IF k = key THEN to ELSE tasks[k])
                       /\ trail'[k] = (IF k = key THEN Append(t, e) ELSE trail[k])
  BY <1>2, <1>3
<1>11. TrailExplainsStatus' /\ ApprovedByAdmin' /\ FinalStatusStays'
  BY <1>5, <1>10 DEF IInv, TrailExplainsStatus, ApprovedByAdmin, FinalStatusStays
<1> QED
  BY <1>8, <1>9, <1>11 DEF IInv

LEMMA CreateInsertStep ==
  ASSUME IInv, NEW c \in Callers, CreateInsert(c)
  PROVE  IInv'
<1>1. request[c].key \in Keys /\ request[c].to \in Statuses /\ request[c].role \in Roles
  BY DEF CreateInsert, IInv, RequestsComplete
<1>2. Answer(c)
  BY DEF CreateInsert
<1>3. CASE KeyTaken(request[c].key)
  BY <1>2, <1>3, AnswerStep DEF CreateInsert
<1>4. CASE ~KeyTaken(request[c].key)
  <2>1. /\ Save(request[c].key, None, request[c].to, request[c].role)
        /\ tasks[request[c].key] = "absent"
    BY <1>4 DEF CreateInsert, KeyTaken
  <2> QED
    BY <1>1, <1>2, <2>1, SaveStep
<1> QED
  BY <1>3, <1>4

LEMMA TransitionStep ==
  ASSUME IInv, NEW c \in Callers, Transition(c)
  PROVE  IInv'
<1>1. /\ request[c].key \in Keys /\ request[c].to \in Statuses /\ request[c].role \in Roles
      /\ Current(c) = tasks[request[c].key]
  BY DEF Transition, IInv, RequestsComplete, Current
<1>2. /\ MayTransition(Current(c), request[c].to, request[c].role)
      /\ Save(request[c].key, Current(c), request[c].to, request[c].role)
      /\ Answer(c)
  BY DEF Transition
<1>3. Current(c) \in Statuses
  <2>1. Current(c) \in Statuses \cup {"absent"}
    BY <1>1 DEF IInv, TypeOK
  <2>2. Current(c) # "absent"
    BY <1>2 DEF MayTransition, Allowed
  <2> QED
    BY <2>1, <2>2
<1> QED
  BY <1>1, <1>2, <1>3, SaveStep

---------------------------------------------------------------------------------
(* IInv holds of every reachable state: one lemma for each action.                 *)
THEOREM Invariance == Spec => []IInv
<1>1. Init => IInv
  BY InitInv
<1>2. IInv /\ [Next]_vars => IInv'
  BY CreateLookupStep, TransitionLoadStep, CreateInsertStep, TransitionStep, AnswerStep,
     StutterInv DEF Next, Refuse, CallerDies
<1> QED
  BY <1>1, <1>2, PTL DEF Spec

(* Tasks, trails and requests keep their types.                                    *)
THEOREM TypeCorrect == Spec => []TypeOK
<1>1. IInv => TypeOK
  BY DEF IInv
<1> QED
  BY <1>1, Invariance, PTL

(* The audit trail of every task is its history, whatever requests raced for it.   *)
THEOREM TrailExplainsStatusHolds == Spec => []TrailExplainsStatus
<1>1. IInv => TrailExplainsStatus
  BY DEF IInv
<1> QED
  BY <1>1, Invariance, PTL

(* No analyst takes a task from awaiting approval to done.                         *)
THEOREM ApprovedByAdminHolds == Spec => []ApprovedByAdmin
<1>1. IInv => ApprovedByAdmin
  BY DEF IInv
<1> QED
  BY <1>1, Invariance, PTL

(* A task ends once.                                                               *)
THEOREM FinalStatusStaysHolds == Spec => []FinalStatusStays
<1>1. IInv => FinalStatusStays
  BY DEF IInv
<1> QED
  BY <1>1, Invariance, PTL

---------------------------------------------------------------------------------
(* The team and the workspace                                                      *)

LEMMA TeamTypes ==
  ASSUME TeamInv
  PROVE  /\ members \in [People -> MemberType \cup {Nobody}]
         /\ invites \in [People -> InviteType \cup {Nobody}]
         /\ mails \in [verify : Nat, reset : [People -> SUBSET Nat]]
         /\ sessions \in [People -> TeamRoles \cup {Nobody}]
         /\ visit \in [Visitors -> VisitType]
         /\ visits \in Nat
  BY DEF TeamInv, TeamTypeOK

LEMMA GoneType == Gone \in VisitType /\ HasAuthority(Gone) /\ HasRead(Gone)
<1>1. Gone \in VisitType /\ Gone.pc = "idle"
  BY DEF Gone, VisitType, Authenticated
<1> QED
  BY <1>1 DEF HasAuthority, HasRead, Authenticated

(* What one request does to its own row, ...                                        *)
LEMMA VisitStep ==
  ASSUME TeamInv, NEW v \in Visitors, NEW x \in VisitType, HasAuthority(x), HasRead(x),
         visit' = [visit EXCEPT ![v] = x], UNCHANGED <<members, invites>>,
         mails' \in [verify : Nat, reset : [People -> SUBSET Nat]], LinksOfMembers',
         sessions' \in [People -> TeamRoles \cup {Nobody}], visits' \in Nat
  PROVE  TeamInv'
<1>1. visit \in [Visitors -> VisitType]
  BY TeamTypes
<1>2. visit'[v] = x /\ \A w \in Visitors : w # v => visit'[w] = visit[w]
  BY <1>1
<1>3. TeamTypeOK'
  BY <1>1 DEF TeamInv, TeamTypeOK
<1>4. \A w \in Visitors : HasAuthority(visit'[w]) /\ HasRead(visit'[w])
  BY <1>2 DEF TeamInv
<1>5. \A w \in Visitors : (HasAuthority(visit[w]) /\ HasRead(visit[w]))'
  BY <1>4 DEF HasAuthority, HasRead, IsActive, _would_remove_last_admin, Admins
<1> QED
  BY <1>3, <1>5 DEF TeamInv

(* ... to the invites, ...                                                          *)
LEMMA InviteStep ==
  ASSUME TeamInv, UNCHANGED members,
         \A w \in Visitors : visit'[w] = visit[w] \/ visit'[w] = Gone,
         visit' \in [Visitors -> VisitType],
         NEW p \in People, NEW invite \in InviteType,
         invites' = [invites EXCEPT ![p] = invite],
         UNCHANGED mails, sessions' \in [People -> TeamRoles \cup {Nobody}], visits' \in Nat
  PROVE  TeamInv'
<1>1. invites' \in [People -> InviteType \cup {Nobody}]
  BY TeamTypes
<1>2. TeamTypeOK'
  BY <1>1, TeamTypes DEF TeamTypeOK
<1>3. \A q \in People : invites[q] # Nobody => invites'[q] # Nobody
  BY TeamTypes, TeamAssumption
<1>4. \A w \in Visitors : HasAuthority(visit'[w]) /\ HasRead(visit'[w])
  BY GoneType DEF TeamInv
<1>5. \A w \in Visitors : (HasAuthority(visit[w]) /\ HasRead(visit[w]))'
  BY <1>3, <1>4 DEF HasAuthority, HasRead, IsActive, _would_remove_last_admin, Admins
<1>6. LinksOfMembers'
  BY DEF TeamInv, LinksOfMembers
<1> QED
  BY <1>2, <1>5, <1>6 DEF TeamInv

(* ... and to the members, which makes stale what the others have read.             *)
LEMMA MemberStep ==
  ASSUME TeamInv, NEW v \in Visitors, NEW p \in People, NEW row \in MemberType,
         SaveMember(v, p, row),
         invites' \in [People -> InviteType \cup {Nobody}],
         \A q \in People : invites[q] # Nobody => invites'[q] # Nobody,
         mails' \in [verify : Nat, reset : [People -> SUBSET Nat]],
         mails'.verify # 0 => mails.verify # 0 \/ p = Founder,
         \A q \in People : mails'.reset[q] # {} => mails.reset[q] # {},
         sessions' \in [People -> TeamRoles \cup {Nobody}], visits' \in Nat
  PROVE  TeamInv'
<1>1. /\ members' = [members EXCEPT ![p] = row]
      /\ members \in [People -> MemberType \cup {Nobody}] /\ row # Nobody
      /\ visit \in [Visitors -> VisitType]
  BY TeamTypes, TeamAssumption DEF SaveMember
<1>2. /\ members' \in [People -> MemberType \cup {Nobody}]
      /\ members'[p] = row
      /\ \A q \in People : /\ q # p => members'[q] = members[q]
                           /\ members[q] # Nobody => members'[q] # Nobody
  BY <1>1
<1>3. row = members[p] => members' = members
  BY <1>1
<1>4. ASSUME NEW w \in Visitors
      PROVE  /\ visit'[w] \in VisitType
             /\ (HasAuthority(visit[w]) /\ HasRead(visit[w]))'
  <2> DEFINE x == visit[w]
             y == [x EXCEPT !.stale = TRUE, !.deposed = x.deposed \/ x.by = p]
  <2>1. x \in VisitType /\ HasAuthority(x) /\ HasRead(x)
    BY <1>1 DEF TeamInv
  <2>2. visit'[w] = IF w = v THEN Gone
                    ELSE IF x.pc = "idle" \/ row = members[p] THEN x ELSE y
    BY DEF SaveMember, Visits
  <2>3. CASE w = v
    <3>1. visit'[w] = Gone /\ Gone.pc = "idle"
      BY <2>2, <2>3 DEF Gone
    <3> QED
      BY <3>1, GoneType DEF HasAuthority, HasRead, Authenticated
  <2>4. CASE w # v /\ x.pc = "idle"
    <3>1. visit'[w] = x
      BY <2>2, <2>4
    <3> HIDE DEF x
    <3> QED
      BY <2>1, <2>4, <3>1 DEF HasAuthority, HasRead, Authenticated
  <2>5. CASE w # v /\ row = members[p]
    <3>1. visit'[w] = x /\ members' = members
      BY <1>3, <2>2, <2>5
    <3> HIDE DEF x
    <3> QED
      BY <2>1, <3>1 DEF HasAuthority, HasRead, IsActive, _would_remove_last_admin, Admins
  <2>6. CASE w # v /\ x.pc # "idle" /\ row # members[p]
    <3>1. visit'[w] = y
      BY <2>2, <2>6
    <3>2. (x.deposed \/ x.by = p) \in BOOLEAN
      BY <2>1 DEF VisitType
    <3>3. /\ y \in VisitType /\ y.pc = x.pc /\ y.by = x.by /\ y.as = x.as /\ y.of = x.of
          /\ y.row = x.row /\ y.grant = x.grant /\ y.stale = TRUE
          /\ ~y.deposed => ~x.deposed /\ x.by # p
      BY <2>1, <3>2 DEF VisitType
    <3> HIDE DEF x, y
    <3>4. HasAuthority(visit[w])'
      BY <1>2, <2>1, <3>1, <3>3 DEF HasAuthority, IsActive
    <3>5. HasRead(visit[w])'
      BY <1>2, <2>1, <3>1, <3>3 DEF HasRead
    <3> QED
      BY <3>1, <3>3, <3>4, <3>5
  <2> QED
    BY <2>3, <2>4, <2>5, <2>6
<1>5. visit' \in [Visitors -> VisitType]
  BY <1>4 DEF SaveMember
<1>6. LinksOfMembers'
  BY <1>2, TeamAssumption DEF TeamInv, LinksOfMembers
<1>7. TeamTypeOK'
  BY <1>2, <1>5 DEF TeamTypeOK
<1> QED
  BY <1>4, <1>6, <1>7 DEF TeamInv

---------------------------------------------------------------------------------
LEMMA QuietStep ==
  ASSUME TeamInv, UNCHANGED <<members, invites, visit>>,
         mails' \in [verify : Nat, reset : [People -> SUBSET Nat]], LinksOfMembers',
         sessions' \in [People -> TeamRoles \cup {Nobody}], visits' \in Nat
  PROVE  TeamInv'
<1>1. TeamTypeOK'
  BY TeamTypes DEF TeamTypeOK
<1>2. \A w \in Visitors : (HasAuthority(visit[w]) /\ HasRead(visit[w]))'
  BY DEF TeamInv, HasAuthority, HasRead, IsActive, _would_remove_last_admin, Admins
<1> QED
  BY <1>1, <1>2 DEF TeamInv

LEMMA LinksStay ==
  ASSUME TeamInv, UNCHANGED <<members, mails>>
  PROVE  LinksOfMembers' /\ mails' \in [verify : Nat, reset : [People -> SUBSET Nat]]
  BY TeamTypes DEF TeamInv, LinksOfMembers

LEMMA ServedStep ==
  ASSUME TeamInv, NEW v \in Visitors, Served(v),
         UNCHANGED <<members, invites, mails, sessions, visits>>
  PROVE  TeamInv'
  BY GoneType, VisitStep, LinksStay, TeamTypes DEF Served

(* Sign-up and sessions                                                            *)
LEMMA SignUpStep ==
  ASSUME TeamInv, NEW v \in Visitors,
         \/ RegisterView(v) \/ VerifyEmailView(v) \/ ResendVerificationView(v)
  PROVE  TeamInv'
<1>1. visits' \in Nat /\ UNCHANGED <<invites, sessions>> /\ Founder \in People
  BY TeamTypes, TeamAssumption
     DEF RegisterView, VerifyEmailView, ResendVerificationView, Begin
<1>2. invites' \in [People -> InviteType \cup {Nobody}]
      /\ sessions' \in [People -> TeamRoles \cup {Nobody}]
  BY <1>1, TeamTypes
<1>3. CASE RegisterView(v)
  <2>1. [role |-> "ADMIN", active |-> FALSE, verified |-> FALSE] \in MemberType
    BY DEF MemberType, TeamRoles
  <2>2. /\ SaveMember(v, Founder, [role |-> "ADMIN", active |-> FALSE, verified |-> FALSE])
        /\ mails' = [mails EXCEPT !.verify = visits']
    BY <1>3 DEF RegisterView
  <2>3. mails' \in [verify : Nat, reset : [People -> SUBSET Nat]] /\ mails'.reset = mails.reset
    BY <1>1, <2>2, TeamTypes
  <2> QED
    BY <1>1, <1>2, <2>1, <2>2, <2>3, MemberStep
<1>4. CASE VerifyEmailView(v)
  <2> DEFINE row == [members[Founder] EXCEPT !.verified = TRUE, !.active = TRUE]
  <2>1. members[Founder] \in MemberType
    BY <1>1, <1>4, TeamTypes DEF VerifyEmailView, TeamInv, LinksOfMembers
  <2>2. row \in MemberType
    BY <2>1 DEF MemberType
  <2>3. SaveMember(v, Founder, row) /\ mails' = [mails EXCEPT !.verify = 0]
    BY <1>4 DEF VerifyEmailView
  <2>4. mails' \in [verify : Nat, reset : [People -> SUBSET Nat]] /\ mails'.reset = mails.reset
    BY <2>3, TeamTypes
  <2> HIDE DEF row
  <2> QED
    BY <1>1, <1>2, <2>2, <2>3, <2>4, MemberStep
<1>5. CASE ResendVerificationView(v)
  <2>1. /\ mails' = [mails EXCEPT !.verify = visits'] /\ members[Founder] # Nobody
        /\ UNCHANGED <<members, visit>>
    BY <1>5 DEF ResendVerificationView
  <2>2. mails' \in [verify : Nat, reset : [People -> SUBSET Nat]] /\ mails'.reset = mails.reset
    BY <1>1, <2>1, TeamTypes
  <2>3. LinksOfMembers'
    BY <2>1, <2>2 DEF TeamInv, LinksOfMembers
  <2> QED
    BY <1>1, <1>2, <2>1, <2>2, <2>3, QuietStep
<1> QED
  BY <1>3, <1>4, <1>5

LEMMA LoginStep ==
  ASSUME TeamInv, NEW v \in Visitors, NEW p \in People, LoginView(v, p)
  PROVE  TeamInv'
<1>1. members[p] \in MemberType
  BY TeamTypes DEF LoginView
<1>2. sessions' \in [People -> TeamRoles \cup {Nobody}]
  BY <1>1, TeamTypes DEF LoginView, MemberType
<1>3. visits' \in Nat
  BY TeamTypes DEF LoginView, Begin
<1> QED
  BY <1>2, <1>3, QuietStep, LinksStay DEF LoginView

LEMMA AuthenticateStep ==
  ASSUME TeamInv, NEW v \in Visitors, NEW p \in People, Authenticate(v, p)
  PROVE  TeamInv'
<1> DEFINE x == [Gone EXCEPT !.pc = "asked", !.by = p, !.as = RoleOf(p)]
<1>1. IsActive(p) /\ members[p] \in MemberType
  BY TeamTypes DEF Authenticate, IsActive
<1>2. RoleOf(p) \in TeamRoles /\ RoleOf(p) = members[p].role
  BY <1>1 DEF RoleOf, MemberType
<1>3. /\ x \in VisitType /\ x.pc = "asked" /\ x.by = p /\ x.as = members[p].role
  BY <1>2, GoneType DEF VisitType, Authenticated
<1>4. visit' = [visit EXCEPT ![v] = x]
  BY DEF Authenticate
<1> HIDE DEF x
<1>5. HasAuthority(x) /\ HasRead(x)
  BY <1>1, <1>3 DEF HasAuthority, HasRead
<1>6. visits' \in Nat
  BY TeamTypes DEF Authenticate, Begin
<1> QED
  BY <1>3, <1>4, <1>5, <1>6, VisitStep, LinksStay, TeamTypes DEF Authenticate

(* TeamMemberDetailView and the look-ups of invites                                *)
LEMMA LookupStep ==
  ASSUME TeamInv, NEW v \in Visitors, NEW p \in People,
         \/ \E row \in MemberType : PatchMember(v, p, row)
         \/ \E role \in TeamRoles : InviteLookup(v, p, role)
         \/ RevokeLookup(v, p)
  PROVE  TeamInv'
<1> DEFINE a == visit[v]
<1>1. a \in VisitType /\ HasAuthority(a) /\ a.pc = "asked" /\ a.as = "ADMIN"
  BY TeamTypes DEF TeamInv, PatchMember, InviteLookup, RevokeLookup, IsAdmin, Visits
<1>2. UNCHANGED <<members, invites, mails, sessions, visits>>
  BY DEF PatchMember, InviteLookup, RevokeLookup
<1>3. PICK x : /\ visit' = [visit EXCEPT ![v] = x] /\ x \in VisitType
               /\ x.by = a.by /\ x.as = a.as /\ x.deposed = a.deposed /\ x.of = p
               /\ x.pc \in {"patch", "invite", "revoke"}
               /\ x.pc = "patch" => /\ members[p] # Nobody /\ x.row \in MemberType
                                    /\ ~_would_remove_last_admin(p, x.row)
               /\ x.pc = "invite" => x.grant \in TeamRoles
               /\ x.pc = "revoke" => invites[p] # Nobody
  <2>1. ASSUME NEW row \in MemberType, PatchMember(v, p, row)
        PROVE  \E x : /\ visit' = [visit EXCEPT ![v] = x] /\ x \in VisitType
                      /\ x.by = a.by /\ x.as = a.as /\ x.deposed = a.deposed /\ x.of = p
                      /\ x.pc = "patch" /\ members[p] # Nobody /\ x.row \in MemberType
                      /\ ~_would_remove_last_admin(p, x.row)
    <3> DEFINE x == [a EXCEPT !.pc = "patch", !.of = p, !.row = row, !.stale = FALSE]
    <3>1. /\ x \in VisitType /\ x.by = a.by /\ x.as = a.as /\ x.deposed = a.deposed
          /\ x.of = p /\ x.pc = "patch" /\ x.row = row
      BY <1>1 DEF VisitType, Authenticated
    <3>2. /\ visit' = [visit EXCEPT ![v] = x] /\ members[p] # Nobody
          /\ ~_would_remove_last_admin(p, row)
      BY <2>1 DEF PatchMember
    <3> HIDE DEF x
    <3> QED
      BY <3>1, <3>2
  <2>2. ASSUME NEW role \in TeamRoles, InviteLookup(v, p, role)
        PROVE  \E x : /\ visit' = [visit EXCEPT ![v] = x] /\ x \in VisitType
                      /\ x.by = a.by /\ x.as = a.as /\ x.deposed = a.deposed /\ x.of = p
                      /\ x.pc = "invite" /\ x.grant \in TeamRoles
    <3> DEFINE x == [a EXCEPT !.pc = "invite", !.of = p, !.grant = role]
    <3>1. /\ x \in VisitType /\ x.by = a.by /\ x.as = a.as /\ x.deposed = a.deposed
          /\ x.of = p /\ x.pc = "invite" /\ x.grant = role
      BY <1>1 DEF VisitType, Authenticated
    <3>2. visit' = [visit EXCEPT ![v] = x]
      BY <2>2 DEF InviteLookup
    <3> HIDE DEF x
    <3> QED
      BY <3>1, <3>2
  <2>3. ASSUME RevokeLookup(v, p)
        PROVE  \E x : /\ visit' = [visit EXCEPT ![v] = x] /\ x \in VisitType
                      /\ x.by = a.by /\ x.as = a.as /\ x.deposed = a.deposed /\ x.of = p
                      /\ x.pc = "revoke" /\ invites[p] # Nobody
    <3> DEFINE x == [a EXCEPT !.pc = "revoke", !.of = p, !.link = invites[p].no]
    <3>1. invites[p] # Nobody /\ visit' = [visit EXCEPT ![v] = x]
      BY <2>3 DEF RevokeLookup, IsPending
    <3>2. invites[p].no \in Nat
      BY <3>1, TeamTypes DEF InviteType
    <3>3. /\ x \in VisitType /\ x.by = a.by /\ x.as = a.as /\ x.deposed = a.deposed
          /\ x.of = p /\ x.pc = "revoke"
      BY <1>1, <3>2 DEF VisitType, Authenticated
    <3> HIDE DEF x
    <3> QED
      BY <3>1, <3>3
  <2> QED
    BY <2>1, <2>2, <2>3
<1>4. HasAuthority(x)
  BY <1>1, <1>3 DEF HasAuthority, Authenticated
<1>5. HasRead(x)
  BY <1>3 DEF HasRead
<1> QED
  BY <1>2, <1>3, <1>4, <1>5, VisitStep, LinksStay, TeamTypes

LEMMA SavePatchStep ==
  ASSUME TeamInv, NEW v \in Visitors, SavePatch(v)
  PROVE  TeamInv'
<1>1. /\ visit[v].of \in People /\ visit[v].row \in MemberType
      /\ SaveMember(v, visit[v].of, visit[v].row)
      /\ UNCHANGED <<invites, mails, sessions, visits>>
  BY DEF SavePatch, Visits, TeamInv, HasRead
<1> QED
  BY <1>1, MemberStep, TeamTypes

(* Invites                                                                         *)
LEMMA InviteCreateStep ==
  ASSUME TeamInv, NEW v \in Visitors, TeamInviteListCreateView(v)
  PROVE  TeamInv'
<1> DEFINE p == visit[v].of
           invite == [no |-> visits, role |-> visit[v].grant, status |-> "PENDING",
                      link |-> visits, late |-> FALSE, admitted |-> Nobody]
<1>1. p \in People /\ visit[v].grant \in TeamRoles
  BY DEF TeamInviteListCreateView, Visits, TeamInv, HasRead
<1>2. invite \in InviteType
  BY <1>1, TeamTypes DEF InviteType
<1>3. /\ invites' = IF IsPending(p) THEN invites ELSE [invites EXCEPT ![p] = invite]
      /\ Served(v) /\ UNCHANGED <<members, mails, sessions, visits>>
  BY DEF TeamInviteListCreateView
<1> HIDE DEF invite, p
<1>4. CASE IsPending(p)
  BY <1>3, <1>4, ServedStep
<1>5. CASE ~IsPending(p)
  <2>1. /\ visit' \in [Visitors -> VisitType]
        /\ \A w \in Visitors : visit'[w] = visit[w] \/ visit'[w] = Gone
    BY <1>3, GoneType, TeamTypes DEF Served
  <2> QED
    BY <1>1, <1>2, <1>3, <1>5, <2>1, InviteStep, TeamTypes
<1> QED
  BY <1>4, <1>5

LEMMA InviteResendStep ==
  ASSUME TeamInv, NEW v \in Visitors, NEW p \in People, TeamInviteResendView(v, p)
  PROVE  TeamInv'
<1> DEFINE invite == [invites[p] EXCEPT !.link = visits]
<1>1. invites[p] \in InviteType /\ visits \in Nat
  BY TeamTypes DEF TeamInviteResendView, IsPending
<1>2. invite \in InviteType
  BY <1>1 DEF InviteType
<1>3. /\ invites' = [invites EXCEPT ![p] = invite]
      /\ Served(v) /\ UNCHANGED <<members, mails, sessions, visits>>
  BY DEF TeamInviteResendView
<1> HIDE DEF invite
<1>4. /\ visit' \in [Visitors -> VisitType]
      /\ \A w \in Visitors : visit'[w] = visit[w] \/ visit'[w] = Gone
  BY <1>3, GoneType, TeamTypes DEF Served
<1> QED
  BY <1>2, <1>3, <1>4, InviteStep, TeamTypes

LEMMA RevokeStep ==
  ASSUME TeamInv, NEW v \in Visitors, TeamInviteRevokeView(v)
  PROVE  TeamInv'
<1> DEFINE p == visit[v].of
           invite == [invites[p] EXCEPT !.status = "REVOKED"]
<1>1. p \in People /\ invites[p] # Nobody
  BY DEF TeamInviteRevokeView, Visits, TeamInv, HasRead
<1>2. invites[p] \in InviteType
  BY <1>1, TeamTypes
<1>3. invite \in InviteType
  BY <1>2 DEF InviteType
<1>4. /\ \/ invites' = [invites EXCEPT ![p] = invite]
         \/ invites' = invites
      /\ Served(v) /\ UNCHANGED <<members, mails, sessions, visits>>
  BY DEF TeamInviteRevokeView
<1> HIDE DEF invite, p
<1>5. /\ visit' \in [Visitors -> VisitType]
      /\ \A w \in Visitors : visit'[w] = visit[w] \/ visit'[w] = Gone
  BY <1>4, GoneType, TeamTypes DEF Served
<1>6. CASE invites' = invites
  BY <1>4, <1>6, ServedStep
<1>7. CASE invites' = [invites EXCEPT ![p] = invite]
  BY <1>1, <1>3, <1>4, <1>5, <1>7, InviteStep, TeamTypes
<1> QED
  BY <1>4, <1>6, <1>7

LEMMA LateStep ==
  ASSUME TeamInv, NEW p \in People,
         InviteExpires(p) \/ \E v \in Visitors : CloseLateInvite(v, p)
  PROVE  TeamInv'
<1>1. invites[p] \in InviteType
  BY TeamTypes DEF InviteExpires, CloseLateInvite, IsPending
<1>2. PICK invite : invite \in InviteType /\ invites' = [invites EXCEPT ![p] = invite]
  <2>1. [invites[p] EXCEPT !.late = TRUE] \in InviteType
    BY <1>1 DEF InviteType
  <2>2. [invites[p] EXCEPT !.status = "EXPIRED"] \in InviteType
    BY <1>1 DEF InviteType
  <2> QED
    BY <2>1, <2>2 DEF InviteExpires, CloseLateInvite
<1>3. UNCHANGED <<members, mails, sessions, visit, visits>>
  BY DEF InviteExpires, CloseLateInvite
<1> QED
  BY <1>2, <1>3, InviteStep, TeamTypes

LEMMA AcceptStep ==
  ASSUME TeamInv, NEW v \in Visitors, NEW p \in People, TeamInviteAcceptView(v, p)
  PROVE  TeamInv'
<1> DEFINE row == [role |-> invites[p].role, active |-> TRUE, verified |-> TRUE]
           invite == [invites[p] EXCEPT !.status = "ACCEPTED", !.admitted = p]
<1>1. invites[p] # Nobody
  BY DEF TeamInviteAcceptView, Admits, IsPending
<1>2. invites[p] \in InviteType
  BY <1>1, TeamTypes
<1>3. invite \in InviteType /\ row \in MemberType /\ invites[p].role \in TeamRoles
  BY <1>2 DEF InviteType, MemberType
<1>4. /\ SaveMember(v, p, row) /\ invites' = [invites EXCEPT ![p] = invite]
      /\ sessions' = [sessions EXCEPT ![p] = invites[p].role] /\ mails' = mails
      /\ visits' = visits + 1
  BY DEF TeamInviteAcceptView, Begin
<1> HIDE DEF row, invite
<1>5. /\ invites' \in [People -> InviteType \cup {Nobody}]
      /\ \A q \in People : invites[q] # Nobody => invites'[q] # Nobody
      /\ sessions' \in [People -> TeamRoles \cup {Nobody}] /\ visits' \in Nat
  BY <1>3, <1>4, TeamTypes, TeamAssumption
<1> QED
  BY <1>3, <1>4, <1>5, MemberStep, TeamTypes

(* Password resets                                                                 *)
LEMMA ForgotStep ==
  ASSUME TeamInv, NEW v \in Visitors, NEW p \in People,
         ForgotPasswordView(v, p) \/ consume_password_reset_token(v, p)
  PROVE  TeamInv'
<1>1. /\ visits' \in Nat /\ UNCHANGED <<members, invites, mails, sessions>>
      /\ members[p] # Nobody
  BY TeamTypes DEF ForgotPasswordView, consume_password_reset_token, Begin, IsActive, TeamInv,
                   LinksOfMembers
<1>2. mails.reset[p] \in SUBSET Nat /\ members[p] \in MemberType
  BY <1>1, TeamTypes
<1>3. PICK x : /\ visit' = [visit EXCEPT ![v] = x] /\ x \in VisitType
               /\ x.pc \in {"forgot", "reset"} /\ x.of = p
               /\ x.pc = "reset" => x.row = members[p]
  <2>1. CASE ForgotPasswordView(v, p)
    <3> DEFINE x == [Gone EXCEPT !.pc = "forgot", !.of = p, !.link = visits',
                                 !.seen = mails.reset[p]]
    <3>1. x \in VisitType /\ x.pc = "forgot" /\ x.of = p
      BY <1>1, <1>2, GoneType DEF VisitType
    <3>2. visit' = [visit EXCEPT ![v] = x]
      BY <2>1 DEF ForgotPasswordView
    <3> HIDE DEF x
    <3> QED
      BY <3>1, <3>2
  <2>2. CASE consume_password_reset_token(v, p)
    <3> DEFINE x == [Gone EXCEPT !.pc = "reset", !.of = p, !.row = members[p]]
    <3>1. x \in VisitType /\ x.pc = "reset" /\ x.of = p /\ x.row = members[p]
      BY <1>2, GoneType DEF VisitType
    <3>2. visit' = [visit EXCEPT ![v] = x]
      BY <2>2 DEF consume_password_reset_token
    <3> HIDE DEF x
    <3> QED
      BY <3>1, <3>2
  <2> QED
    BY <2>1, <2>2
<1>4. HasAuthority(x) /\ HasRead(x)
  BY <1>1, <1>2, <1>3 DEF HasAuthority, HasRead, Authenticated
<1> QED
  BY <1>1, <1>3, <1>4, VisitStep, LinksStay, TeamTypes

LEMMA LinkStep ==
  ASSUME TeamInv, NEW v \in Visitors, create_password_reset_token(v)
  PROVE  TeamInv'
<1> DEFINE p == visit[v].of
           links == (mails.reset[p] \ visit[v].seen) \cup {visit[v].link}
<1>1. p \in People /\ members[p] # Nobody /\ visit[v] \in VisitType
  BY TeamTypes DEF create_password_reset_token, Visits, TeamInv, HasRead
<1>2. links \in SUBSET Nat
  BY <1>1, TeamTypes DEF VisitType
<1>3. /\ mails' = [mails EXCEPT !.reset[p] = links]
      /\ Served(v) /\ UNCHANGED <<members, invites, sessions, visits>>
  BY DEF create_password_reset_token
<1> HIDE DEF links, p
<1>4. /\ mails' \in [verify : Nat, reset : [People -> SUBSET Nat]]
      /\ mails'.verify = mails.verify
      /\ \A q \in People : q # p => mails'.reset[q] = mails.reset[q]
  BY <1>1, <1>2, <1>3, TeamTypes
<1>5. LinksOfMembers'
  BY <1>1, <1>3, <1>4 DEF TeamInv, LinksOfMembers
<1> QED
  BY <1>3, <1>4, <1>5, GoneType, VisitStep, TeamTypes DEF Served

LEMMA ResetStep ==
  ASSUME TeamInv, NEW v \in Visitors, reset_user_password(v)
  PROVE  TeamInv'
<1> DEFINE p == visit[v].of
<1>1. /\ p \in People /\ visit[v].row \in MemberType
      /\ SaveMember(v, p, visit[v].row) /\ mails' = [mails EXCEPT !.reset[p] = {}]
      /\ UNCHANGED <<invites, sessions, visits>>
  BY DEF reset_user_password, Visits, TeamInv, HasRead
<1>2. /\ mails' \in [verify : Nat, reset : [People -> SUBSET Nat]]
      /\ mails'.verify = mails.verify
      /\ \A q \in People : mails'.reset[q] # {} => mails'.reset[q] = mails.reset[q]
  BY <1>1, TeamTypes
<1> QED
  BY <1>1, <1>2, MemberStep, TeamTypes

LEMMA LinksExpireStep ==
  ASSUME TeamInv, LinksExpire
  PROVE  TeamInv'
<1>1. /\ mails' = [verify |-> 0, reset |-> [p \in People |-> {}]]
      /\ UNCHANGED <<members, invites, sessions, visit, visits>>
  BY DEF LinksExpire
<1>2. LinksOfMembers' /\ mails' \in [verify : Nat, reset : [People -> SUBSET Nat]]
  BY <1>1 DEF LinksOfMembers
<1> QED
  BY <1>1, <1>2, QuietStep, TeamTypes

---------------------------------------------------------------------------------
LEMMA TeamInitInv == ASSUME TeamInit PROVE TeamInv
<1>1. /\ members \in [People -> MemberType \cup {Nobody}] /\ visits = 0
      /\ sessions = [p \in People |-> IF members[p] = Nobody THEN Nobody ELSE members[p].role]
      /\ invites = [p \in People |-> Nobody]
      /\ mails = [verify |-> 0, reset |-> [p \in People |-> {}]]
      /\ visit = [v \in Visitors |-> Gone]
  BY TeamAssumption DEF TeamInit
<1>2. sessions \in [People -> TeamRoles \cup {Nobody}]
  BY <1>1 DEF MemberType
<1>3. TeamTypeOK
  BY <1>1, <1>2, GoneType DEF TeamTypeOK
<1>4. LinksOfMembers
  BY <1>1 DEF LinksOfMembers
<1> QED
  BY <1>1, <1>3, <1>4, GoneType DEF TeamInv

LEMMA TeamNextInv == ASSUME TeamInv, TeamNext PROVE TeamInv'
<1>1. ASSUME NEW v \in Visitors, NEW p \in People,
             \/ LoginView(v, p) \/ Authenticate(v, p) \/ TeamInviteResendView(v, p)
             \/ RevokeLookup(v, p) \/ CloseLateInvite(v, p) \/ TeamInviteAcceptView(v, p)
             \/ ForgotPasswordView(v, p) \/ consume_password_reset_token(v, p)
             \/ \E role \in TeamRoles : InviteLookup(v, p, role)
             \/ \E row \in MemberType : PatchMember(v, p, row)
      PROVE  TeamInv'
  BY <1>1, LoginStep, AuthenticateStep, InviteResendStep, LookupStep, LateStep, AcceptStep,
     ForgotStep
<1>2. ASSUME NEW v \in Visitors, Leave(v) PROVE TeamInv'
  BY <1>2, ServedStep DEF Leave
<1> QED
  BY <1>1, <1>2, SignUpStep, SavePatchStep, InviteCreateStep, RevokeStep, LinkStep, ResetStep,
     LateStep, LinksExpireStep DEF TeamNext

LEMMA TeamStutter == ASSUME TeamInv, UNCHANGED teamVars PROVE TeamInv'
<1>1. UNCHANGED <<members, invites, mails, sessions, visit, visits>>
  BY DEF teamVars
<1> QED
  BY <1>1, QuietStep, LinksStay, TeamTypes

---------------------------------------------------------------------------------
(* The tasks of a workspace are those of OrchestrationTasks: only who is an admin   *)
(* or an analyst asks, and the team leaves them alone.                              *)
THEOREM WorkspaceImplementsTasks == WorkspaceSpec => Spec
<1>1. WorkspaceInit => Init
  BY DEF WorkspaceInit
<1>2. ASSUME [WorkspaceNext]_workspaceVars
      PROVE  [Next]_vars
  <2>1. ASSUME NEW c \in Callers, AnswerTask(c) PROVE Next
    BY <2>1 DEF AnswerTask, Next
  <2>2. ASSUME NEW c \in Callers, NEW key \in Keys, AskTask(c, key) PROVE Next
    <3>1. visit[c].as \in Roles
      BY <2>2 DEF AskTask, MayMutate
    <3> QED
      BY <2>2, <3>1 DEF AskTask, Next
  <2>3. ASSUME TeamStep PROVE UNCHANGED vars
    BY <2>3 DEF TeamStep
  <2>4. ASSUME UNCHANGED workspaceVars PROVE UNCHANGED vars
    BY <2>4 DEF workspaceVars, vars
  <2> QED
    BY <1>2, <2>1, <2>2, <2>3, <2>4 DEF WorkspaceNext
<1> QED
  BY <1>1, <1>2, PTL DEF WorkspaceSpec, Spec

(* So the trail of every task is its history, and no analyst approves one, while    *)
(* roles change under the requests.                                                 *)
THEOREM TasksKeepTheirInvariant == WorkspaceSpec => []IInv
  BY WorkspaceImplementsTasks, Invariance, PTL

---------------------------------------------------------------------------------
(* No request to the team becomes one to the tasks, or changes the role of one.     *)
LEMMA TasksStayOut ==
  ASSUME TeamInv, TeamNext, NEW w \in Visitors, visit'[w].pc = "task"
  PROVE  visit[w].pc = "task" /\ visit'[w].as = visit[w].as
<1> DEFINE Same == visit[w].pc = visit'[w].pc /\ visit'[w].as = visit[w].as
<1>1. visit \in [Visitors -> VisitType] /\ visit[w] \in VisitType
  BY TeamTypes
<1>2. ASSUME NEW v \in Visitors, NEW p, NEW row, SaveMember(v, p, row)
      PROVE  Same
  <2> DEFINE y == [visit[w] EXCEPT !.stale = TRUE, !.deposed = visit[w].deposed \/ visit[w].by = p]
  <2>1. \/ visit'[w] = Gone \/ visit'[w] = visit[w] \/ visit'[w] = y
    BY <1>2 DEF SaveMember
  <2>2. Gone.pc # "task"
    BY DEF Gone
  <2>3. y.pc = visit[w].pc /\ y.as = visit[w].as
    BY <1>1 DEF VisitType
  <2> HIDE DEF y
  <2> QED
    BY <2>1, <2>2, <2>3
<1>3. ASSUME NEW v \in Visitors, NEW x, x.pc # "task", visit' = [visit EXCEPT ![v] = x]
      PROVE  Same
  BY <1>1, <1>3
<1>4. ASSUME NEW v \in Visitors, Served(v) PROVE Same
  <2>1. Gone.pc # "task"
    BY DEF Gone
  <2> QED
    BY <1>3, <1>4, <2>1 DEF Served
<1>5. ASSUME UNCHANGED visit PROVE Same
  BY <1>5
<1>6. ASSUME NEW v \in Visitors,
             \/ RegisterView(v) \/ VerifyEmailView(v) \/ ResendVerificationView(v)
             \/ Leave(v) \/ SavePatch(v) \/ TeamInviteListCreateView(v) \/ TeamInviteRevokeView(v)
             \/ create_password_reset_token(v) \/ reset_user_password(v)
      PROVE  Same
  <2> HIDE DEF Same
  <2> QED
    BY <1>2, <1>4, <1>5, <1>6
       DEF RegisterView, VerifyEmailView, ResendVerificationView, Leave, SavePatch,
           TeamInviteListCreateView, TeamInviteRevokeView, create_password_reset_token,
           reset_user_password
<1>7. ASSUME NEW v \in Visitors, NEW p \in People,
             \/ LoginView(v, p) \/ TeamInviteResendView(v, p) \/ CloseLateInvite(v, p)
             \/ TeamInviteAcceptView(v, p)
      PROVE  Same
  <2> HIDE DEF Same
  <2> QED
    BY <1>2, <1>4, <1>5, <1>7
       DEF LoginView, TeamInviteResendView, CloseLateInvite, TeamInviteAcceptView
<1>8. ASSUME NEW v \in Visitors, NEW p \in People,
             Authenticate(v, p) \/ ForgotPasswordView(v, p) \/ consume_password_reset_token(v, p)
      PROVE  Same
  <2>1. \E x : x.pc # "task" /\ visit' = [visit EXCEPT ![v] = x]
    BY <1>8 DEF Authenticate, ForgotPasswordView, consume_password_reset_token, Gone
  <2> HIDE DEF Same
  <2> QED
    BY <1>3, <2>1
<1>9. ASSUME NEW v \in Visitors, NEW p \in People,
             \/ RevokeLookup(v, p)
             \/ \E role \in TeamRoles : InviteLookup(v, p, role)
             \/ \E row \in MemberType : PatchMember(v, p, row)
      PROVE  Same
  <2>1. visit[v] \in VisitType
    BY TeamTypes
  <2>2. \E x : x.pc # "task" /\ visit' = [visit EXCEPT ![v] = x]
    BY <1>9, <2>1 DEF RevokeLookup, InviteLookup, PatchMember, VisitType
  <2> HIDE DEF Same
  <2> QED
    BY <1>3, <2>2
<1>10. Same
  <2> HIDE DEF Same
  <2> QED
    BY <1>5, <1>6, <1>7, <1>8, <1>9 DEF TeamNext, InviteExpires, LinksExpire
<1> QED
  BY <1>10

LEMMA AskStep ==
  ASSUME TeamInv, TasksCarryRoles, TypeOK, NEW c \in Callers, NEW key \in Keys, AskTask(c, key)
  PROVE  TeamInv' /\ TasksCarryRoles'
<1> DEFINE x == [visit[c] EXCEPT !.pc = "task"]
<1>1. /\ visit[c].pc = "asked" /\ c \in Visitors /\ visit[c] \in VisitType
      /\ HasAuthority(visit[c])
  BY TeamTypes, WorkspaceAssumption DEF AskTask, MayMutate, Visits, TeamInv
<1>2. /\ x \in VisitType /\ x.pc = "task" /\ x.as = visit[c].as /\ x.by = visit[c].by
      /\ x.deposed = visit[c].deposed
  BY <1>1 DEF VisitType, Authenticated
<1>3. /\ visit' = [visit EXCEPT ![c] = x]
      /\ UNCHANGED <<members, invites, mails, sessions, visits>>
  BY <1>1, TeamTypes DEF AskTask, Teamless
<1>4. /\ \A d \in Callers : d # c => request'[d] = request[d]
      /\ request'[c].role = visit[c].as
  <2> DEFINE asked(status) == [Idle EXCEPT !.pc = "create", !.key = key,
                                      !.to = StatusOrDefault(status), !.role = visit[c].as]
             moved(to) == [pc |-> "transition", key |-> key, to |-> to, role |-> visit[c].as,
                           seen |-> tasks[key]]
  <2>1. \/ \E status \in Statuses \cup {None} : request' = [request EXCEPT ![c] = asked(status)]
        \/ \E to \in Statuses : request' = [request EXCEPT ![c] = moved(to)]
    BY DEF AskTask, CreateLookup, TransitionLoad
  <2>2. \A status : asked(status).role = visit[c].as
    BY DEF Idle
  <2>3. \A to : moved(to).role = visit[c].as
    OBVIOUS
  <2> HIDE DEF asked, moved
  <2> QED
    BY <2>1, <2>2, <2>3 DEF TypeOK
<1> HIDE DEF x
<1>5. HasAuthority(x) /\ HasRead(x)
  BY <1>1, <1>2 DEF HasAuthority, HasRead, Authenticated
<1>6. TeamInv'
  BY <1>1, <1>2, <1>3, <1>5, VisitStep, LinksStay, TeamTypes
<1>7. TasksCarryRoles'
  BY <1>1, <1>2, <1>3, <1>4, TeamTypes, WorkspaceAssumption DEF TasksCarryRoles, Visits
<1> QED
  BY <1>6, <1>7

LEMMA AnswerTaskStep ==
  ASSUME TeamInv, TasksCarryRoles, TypeOK, NEW c \in Callers, AnswerTask(c)
  PROVE  TeamInv' /\ TasksCarryRoles'
<1>1. c \in Visitors /\ Served(c) /\ UNCHANGED <<members, invites, mails, sessions, visits>>
  BY WorkspaceAssumption DEF AnswerTask, Teamless
<1>2. \A d \in Callers : d # c => request'[d] = request[d]
  BY DEF AnswerTask, CreateInsert, Transition, Refuse, CallerDies, Answer, TypeOK
<1>3. visit'[c].pc = "idle" /\ \A d \in Callers : d # c => visit'[d] = visit[d]
  BY <1>1, TeamTypes, WorkspaceAssumption DEF Served, Gone
<1> QED
  BY <1>1, <1>2, <1>3, ServedStep DEF TasksCarryRoles, Visits

(* What the members, their invites and what a request has read are, and that a      *)
(* request to the tasks carries the role of its member.                             *)
THEOREM TeamInvariance == WorkspaceSpec => [](TeamInv /\ TasksCarryRoles)
<1>1. WorkspaceInit => TeamInv /\ TasksCarryRoles
  BY TeamInitInv, WorkspaceAssumption DEF WorkspaceInit, TeamInit, TasksCarryRoles, Visits, Gone
<1>2. ASSUME TeamInv, TasksCarryRoles, IInv, [WorkspaceNext]_workspaceVars
      PROVE  TeamInv' /\ TasksCarryRoles'
  <2>1. TypeOK
    BY <1>2 DEF IInv
  <2>2. ASSUME TeamStep PROVE TeamInv' /\ TasksCarryRoles'
    <3>1. TeamNext /\ UNCHANGED request
      BY <2>2 DEF TeamStep, vars
    <3> QED
      BY <1>2, <3>1, TeamNextInv, TasksStayOut, WorkspaceAssumption DEF TasksCarryRoles, Visits
  <2>3. ASSUME UNCHANGED workspaceVars PROVE TeamInv' /\ TasksCarryRoles'
    BY <1>2, <2>3, TeamStutter DEF workspaceVars, teamVars, TasksCarryRoles, Visits
  <2> QED
    BY <1>2, <2>1, <2>2, <2>3, AskStep, AnswerTaskStep DEF WorkspaceNext
<1> QED
  BY <1>1, <1>2, TasksKeepTheirInvariant, PTL DEF WorkspaceSpec

(* Nobody changes the team or the tasks by a role taken away before the request was *)
(* authenticated.                                                                   *)
THEOREM AuthorityIsFreshHolds == WorkspaceSpec => []AuthorityIsFresh
<1>1. TeamInv /\ TasksCarryRoles => AuthorityIsFresh
  BY WorkspaceAssumption
     DEF TeamInv, TasksCarryRoles, AuthorityIsFresh, HasAuthority, Authenticated, Visits
<1> QED
  BY <1>1, TeamInvariance, PTL

---------------------------------------------------------------------------------
(* Which steps write a member, and what.                                            *)
LEMMA MembersChange ==
  ASSUME TeamInv, TeamNext
  PROVE  \/ UNCHANGED members
         \/ \E p \in People, row \in MemberType :
              /\ members' = [members EXCEPT ![p] = row]
              /\ members[p] = Nobody /\ p = Founder /\ ~row.active
         \/ \E p \in People, row \in MemberType :
              /\ members' = [members EXCEPT ![p] = row]
              /\ members[p] = Nobody /\ Admits(p)
              /\ row.role = invites[p].role /\ invites'[p].admitted = p
         \/ \E p \in People, row \in MemberType :
              /\ members' = [members EXCEPT ![p] = row]
              /\ members[p] # Nobody /\ row.role = members[p].role /\ row.active
         \/ \E v \in Visitors :
              /\ visit[v].pc \in {"patch", "reset"} /\ visit'[v] = Gone
              /\ members' = [members EXCEPT ![visit[v].of] = visit[v].row]
<1>1. ASSUME NEW v \in Visitors, RegisterView(v)
      PROVE  \E p \in People, row \in MemberType :
               /\ members' = [members EXCEPT ![p] = row]
               /\ members[p] = Nobody /\ p = Founder /\ ~row.active
  <2> DEFINE row == [role |-> "ADMIN", active |-> FALSE, verified |-> FALSE]
  <2>1. row \in MemberType /\ ~row.active
    BY DEF MemberType, TeamRoles
  <2>2. members' = [members EXCEPT ![Founder] = row] /\ members[Founder] = Nobody
    BY <1>1 DEF RegisterView, SaveMember
  <2> HIDE DEF row
  <2> QED
    BY <2>1, <2>2, TeamAssumption
<1>2. ASSUME NEW v \in Visitors, NEW p \in People, TeamInviteAcceptView(v, p)
      PROVE  \E row \in MemberType :
               /\ members' = [members EXCEPT ![p] = row]
               /\ members[p] = Nobody /\ Admits(p)
               /\ row.role = invites[p].role /\ invites'[p].admitted = p
  <2> DEFINE row == [role |-> invites[p].role, active |-> TRUE, verified |-> TRUE]
             invite == [invites[p] EXCEPT !.status = "ACCEPTED", !.admitted = p]
  <2>1. Admits(p) /\ invites[p] # Nobody
    BY <1>2 DEF TeamInviteAcceptView, Admits, IsPending
  <2>2. invites[p] \in InviteType
    BY <2>1, TeamTypes
  <2>3. row \in MemberType /\ row.role = invites[p].role /\ invite.admitted = p
    BY <2>2 DEF InviteType, MemberType
  <2>4. /\ members' = [members EXCEPT ![p] = row] /\ members[p] = Nobody
        /\ invites' = [invites EXCEPT ![p] = invite]
    BY <1>2 DEF TeamInviteAcceptView, SaveMember
  <2> HIDE DEF row, invite
  <2>5. invites'[p] = invite
    BY <2>4, TeamTypes
  <2> QED
    BY <2>1, <2>3, <2>4, <2>5
<1>3. ASSUME NEW v \in Visitors, VerifyEmailView(v)
      PROVE  \E p \in People, row \in MemberType :
               /\ members' = [members EXCEPT ![p] = row]
               /\ members[p] # Nobody /\ row.role = members[p].role /\ row.active
  <2> DEFINE row == [members[Founder] EXCEPT !.verified = TRUE, !.active = TRUE]
  <2>1. members[Founder] # Nobody /\ Founder \in People
    BY <1>3, TeamAssumption DEF VerifyEmailView, TeamInv, LinksOfMembers
  <2>2. members[Founder] \in MemberType
    BY <2>1, TeamTypes
  <2>3. row \in MemberType /\ row.role = members[Founder].role /\ row.active
    BY <2>2 DEF MemberType
  <2>4. members' = [members EXCEPT ![Founder] = row]
    BY <1>3 DEF VerifyEmailView, SaveMember
  <2> HIDE DEF row
  <2> QED
    BY <2>1, <2>3, <2>4
<1>4. ASSUME NEW v \in Visitors, SavePatch(v) \/ reset_user_password(v)
      PROVE  /\ visit[v].pc \in {"patch", "reset"} /\ visit'[v] = Gone
             /\ members' = [members EXCEPT ![visit[v].of] = visit[v].row]
  BY <1>4 DEF SavePatch, reset_user_password, SaveMember, Visits
<1>5. ASSUME NEW v \in Visitors,
             \/ ResendVerificationView(v) \/ Leave(v) \/ TeamInviteListCreateView(v)
             \/ TeamInviteRevokeView(v) \/ create_password_reset_token(v)
      PROVE  UNCHANGED members
  BY <1>5 DEF ResendVerificationView, Leave, TeamInviteListCreateView, TeamInviteRevokeView,
              create_password_reset_token
<1>6. ASSUME NEW v \in Visitors, NEW p \in People,
             \/ LoginView(v, p) \/ Authenticate(v, p) \/ TeamInviteResendView(v, p)
             \/ RevokeLookup(v, p) \/ CloseLateInvite(v, p)
             \/ ForgotPasswordView(v, p) \/ consume_password_reset_token(v, p)
             \/ \E role \in TeamRoles : InviteLookup(v, p, role)
             \/ \E row \in MemberType : PatchMember(v, p, row)
      PROVE  UNCHANGED members
  BY <1>6 DEF LoginView, Authenticate, TeamInviteResendView, RevokeLookup, CloseLateInvite,
              ForgotPasswordView, consume_password_reset_token, InviteLookup, PatchMember
<1>7. ASSUME LinksExpire \/ \E p \in People : InviteExpires(p) PROVE UNCHANGED members
  BY <1>7 DEF LinksExpire, InviteExpires
<1> QED
  BY <1>1, <1>2, <1>3, <1>4, <1>5, <1>6, <1>7 DEF TeamNext

(* A step that is not the team's leaves the members.                                *)
LEMMA OthersLeaveMembers ==
  ASSUME [WorkspaceNext]_workspaceVars
  PROVE  TeamNext \/ UNCHANGED members
  BY DEF WorkspaceNext, TeamStep, AskTask, AnswerTask, Teamless, workspaceVars

(* Nobody joins by an invite that is revoked, expired or used.                      *)
THEOREM JoinsByALiveInviteHolds == WorkspaceSpec => JoinsByALiveInvite
<1> DEFINE Joins(p) ==
      (members[p] = Nobody /\ members'[p] # Nobody) =>
        /\ invites[p] # Nobody /\ invites[p].status = "PENDING" /\ ~invites[p].late
        /\ members'[p].role = invites[p].role /\ invites'[p].admitted = p
<1>1. ASSUME TeamInv, [WorkspaceNext]_workspaceVars, NEW p \in People \ {Founder},
             members[p] = Nobody, members'[p] # Nobody
      PROVE  /\ invites[p] # Nobody /\ invites[p].status = "PENDING" /\ ~invites[p].late
             /\ members'[p].role = invites[p].role /\ invites'[p].admitted = p
  <2>1. TeamNext /\ members' # members
    BY <1>1, OthersLeaveMembers
  <2>2. ASSUME NEW v \in Visitors, visit[v].pc \in {"patch", "reset"}
        PROVE  members[visit[v].of] # Nobody /\ visit[v].of \in People
    BY <1>1, <2>2 DEF TeamInv, HasRead
  <2>3. PICK q \in People, row \in MemberType :
          /\ members' = [members EXCEPT ![q] = row]
          /\ members[q] = Nobody /\ Admits(q)
          /\ row.role = invites[q].role /\ invites'[q].admitted = q
    BY <1>1, <2>1, <2>2, MembersChange, TeamTypes
  <2>4. p = q
    BY <1>1, <2>3, TeamTypes
  <2> QED
    BY <1>1, <2>3, <2>4, TeamTypes DEF Admits, IsPending
<1>2. TeamInv /\ [WorkspaceNext]_workspaceVars =>
        [\A p \in People \ {Founder} : Joins(p)]_teamVars
  BY <1>1
<1> QED
  BY <1>2, TeamInvariance, PTL DEF WorkspaceSpec, JoinsByALiveInvite

(* The last active admin goes only by a request that another has overtaken.         *)
THEOREM LastAdminGoesOnlyStaleHolds == WorkspaceSpec => LastAdminGoesOnlyStale
<1>1. ASSUME TeamInv, [WorkspaceNext]_workspaceVars, Admins # {}, Admins' = {}
      PROVE  \E v \in Visitors :
               visit[v].pc \in {"patch", "reset"} /\ visit[v].stale /\ visit'[v].pc = "idle"
  <2>1. TeamNext /\ members' # members
    BY <1>1, OthersLeaveMembers DEF Admins, IsActive
  <2>2. PICK a \in People : members[a] # Nobody /\ members[a].active /\ members[a].role = "ADMIN"
    BY <1>1 DEF Admins, IsActive
  <2>3. ~(members'[a] # Nobody /\ members'[a].active /\ members'[a].role = "ADMIN")
    BY <1>1 DEF Admins, IsActive
  <2>4. PICK v \in Visitors :
          /\ visit[v].pc \in {"patch", "reset"} /\ visit'[v] = Gone
          /\ members' = [members EXCEPT ![visit[v].of] = visit[v].row]
    <3>1. ASSUME NEW p \in People, NEW row \in MemberType,
                 members' = [members EXCEPT ![p] = row],
                 members[p] = Nobody \/ (row.role = members[p].role /\ row.active)
          PROVE  FALSE
      BY <1>1, <2>2, <2>3, <3>1, TeamTypes, TeamAssumption
    <3> QED
      BY <1>1, <2>1, <3>1, MembersChange
  <2>5. visit[v].of \in People /\ visit[v].row \in MemberType /\ HasRead(visit[v])
    BY <1>1, <2>4 DEF TeamInv, HasRead
  <2>6. /\ members'[visit[v].of] = visit[v].row
        /\ \A q \in People : q # visit[v].of => members'[q] = members[q]
    BY <1>1, <2>4, <2>5, TeamTypes
  <2>7. CASE visit[v].stale
    BY <2>4, <2>7 DEF Gone
  <2>8. CASE ~visit[v].stale /\ visit[v].pc = "reset"
    <3>1. visit[v].row = members[visit[v].of]
      BY <2>5, <2>8 DEF HasRead
    <3>2. members' = members
      BY <1>1, <2>4, <3>1, TeamTypes
    <3> QED
      BY <2>1, <3>2
  <2>9. CASE ~visit[v].stale /\ visit[v].pc = "patch"
    <3>1. ~_would_remove_last_admin(visit[v].of, visit[v].row)
      BY <2>5, <2>9 DEF HasRead
    <3>2. CASE visit[v].row.role = "ADMIN" /\ visit[v].row.active
      BY <1>1, <2>5, <2>6, <3>2, TeamAssumption DEF Admins, IsActive
    <3>3. CASE ~(visit[v].row.role = "ADMIN" /\ visit[v].row.active)
      <4>1. PICK q \in Admins : q # visit[v].of
        BY <3>1, <3>3 DEF _would_remove_last_admin
      <4>2. q \in People /\ members'[q] = members[q]
        BY <2>6, <4>1 DEF Admins
      <4> QED
        BY <1>1, <4>1, <4>2 DEF Admins, IsActive
    <3> QED
      BY <3>2, <3>3
  <2> QED
    BY <2>4, <2>7, <2>8, <2>9
<1>2. TeamInv /\ [WorkspaceNext]_workspaceVars =>
        [(Admins # {} /\ Admins' = {}) =>
           \E v \in Visitors :
             visit[v].pc \in {"patch", "reset"} /\ visit[v].stale /\ visit'[v].pc = "idle"]_teamVars
  BY <1>1
<1> QED
  BY <1>2, TeamInvariance, PTL DEF WorkspaceSpec, LastAdminGoesOnlyStale

=================================================================================
