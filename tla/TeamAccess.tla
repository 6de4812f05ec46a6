------------------------------- MODULE TeamAccess -------------------------------
(* Who may work in a company's workspace: sign-up and the verification of an address,    *)
(* sessions, invites, roles and password resets (tenants/team_views.py,                  *)
(* tenants/auth_views.py, tenants/auth/services.py).                                     *)
(*                                                                                       *)
(* A request keeps the row of its user as it was when it was authenticated, and what it   *)
(* reads before it writes. Read committed: a row lock is held to the end of a transaction. *)
(* Passwords, names and the answers' wording are left out: no property tells them apart.   *)
EXTENDS Integers, FiniteSets

CONSTANTS
  People,      \* e-mail addresses, each unique among all users
  Founder,     \* the address that registers the company
  Visitors,    \* requests that run at the same time
  Teams,       \* memberships a workspace may start from; the empty one is a new company
  MaxVisits,   \* bound on requests
  Nobody       \* null

TeamRoles == {"ADMIN", "ANALYST", "VIEWER"}

MemberType == [role : TeamRoles, active : BOOLEAN, verified : BOOLEAN]

InviteType ==
  [no : Nat, role : TeamRoles, status : {"PENDING", "ACCEPTED", "REVOKED", "EXPIRED"},
   link : Nat, late : BOOLEAN, admitted : People \cup {Nobody}]

ASSUME TeamAssumption ==
  /\ Founder \in People /\ MaxVisits \in Nat
  /\ Nobody \notin People /\ Nobody \notin MemberType /\ Nobody \notin InviteType
  /\ Teams \subseteq [People -> MemberType \cup {Nobody}]

VARIABLES
  members,   \* User row of each address: [role, active, verified], or Nobody
  invites,   \* newest invite of each address: [no, role, status, link, late, admitted], or Nobody
  mails,     \* links that open something: the founder's newest verification, each one's unused resets
  sessions,  \* access token of each address: the role it had at its login, or Nobody
  visit,     \* what each request works on
  visits     \* requests begun

teamVars == <<members, invites, mails, sessions, visit, visits>>

Gone == [pc |-> "idle", by |-> Nobody, as |-> Nobody, of |-> Nobody, row |-> Nobody,
         grant |-> Nobody, link |-> 0,
         seen |-> {}, deposed |-> FALSE, stale |-> FALSE]

TeamInit ==
  /\ members \in Teams
  /\ sessions = [p \in People |-> IF members[p] = Nobody THEN Nobody ELSE members[p].role]
  /\ invites = [p \in People |-> Nobody]
  /\ mails = [verify |-> 0, reset |-> [p \in People |-> {}]]
  /\ visit = [v \in Visitors |-> Gone]
  /\ visits = 0

IsActive(p) == members[p] # Nobody /\ members[p].active
Admins == {p \in People : IsActive(p) /\ members[p].role = "ADMIN"}

Begin == visits < MaxVisits /\ visits' = visits + 1
Served(v) == visit' = [visit EXCEPT ![v] = Gone]
Visits(v, pc) == visit[v].pc = pc

(* A change of members by v makes stale what the others have read (history).            *)
SaveMember(v, p, row) ==
  /\ members' = [members EXCEPT ![p] = row]
  /\ visit' = [w \in Visitors |->
       IF w = v THEN Gone
       ELSE IF visit[w].pc = "idle" \/ row = members[p] THEN visit[w]
       ELSE [visit[w] EXCEPT !.stale = TRUE, !.deposed = @ \/ visit[w].by = p]]

(* select_for_update of a member.                                                       *)
RowLocked(p) == \E v \in Visitors : Visits(v, "patch") /\ visit[v].of = p

-----------------------------------------------------------------------------
(* Sign-up and sessions                                                                *)

RegisterView(v) ==
  /\ Visits(v, "idle") /\ Begin
  /\ members[Founder] = Nobody
  /\ SaveMember(v, Founder, [role |-> "ADMIN", active |-> FALSE, verified |-> FALSE])
  /\ mails' = [mails EXCEPT !.verify = visits']
  /\ UNCHANGED <<invites, sessions>>

(* A link that is neither used nor late; who is verified already is told so.             *)
VerifyEmailView(v) ==
  /\ Visits(v, "idle") /\ Begin
  /\ mails.verify # 0
  /\ ~members[Founder].verified /\ ~RowLocked(Founder)
  /\ SaveMember(v, Founder, [members[Founder] EXCEPT !.verified = TRUE, !.active = TRUE])
  /\ mails' = [mails EXCEPT !.verify = 0]
  /\ UNCHANGED <<invites, sessions>>

(* The link before is used up.                                                          *)
ResendVerificationView(v) ==
  /\ Visits(v, "idle") /\ Begin
  /\ members[Founder] # Nobody /\ ~members[Founder].verified
  /\ mails' = [mails EXCEPT !.verify = visits']
  /\ UNCHANGED <<members, invites, sessions, visit>>

(* An inactive member is let in, and turned away at the first request.                   *)
LoginView(v, p) ==
  /\ Visits(v, "idle") /\ Begin
  /\ members[p] # Nobody /\ members[p].verified
  /\ sessions' = [sessions EXCEPT ![p] = members[p].role]
  /\ UNCHANGED <<members, invites, mails, visit>>

(* mutant: the role is one of the token's claims *)
MutantRoleOf(p) == sessions[p]

RoleOf(p) == members[p].role

(* JWTAuthentication: the row of the token's user, who must be active.                   *)
Authenticate(v, p) ==
  /\ Visits(v, "idle") /\ Begin
  /\ sessions[p] # Nobody /\ IsActive(p)
  /\ visit' = [visit EXCEPT ![v] = [Gone EXCEPT !.pc = "asked", !.by = p, !.as = RoleOf(p)]]
  /\ UNCHANGED <<members, invites, mails, sessions>>

(* Wrong role, wrong state, not found: nothing is written. A dead worker writes nothing.  *)
Leave(v) ==
  /\ ~Visits(v, "idle")
  /\ Served(v)
  /\ UNCHANGED <<members, invites, mails, sessions, visits>>

IsAdmin(v) == Visits(v, "asked") /\ visit[v].as = "ADMIN"

-----------------------------------------------------------------------------
(* TeamMemberDetailView                                                                *)

(* mutant: admins who are not active count *)
Mutant_would_remove_last_admin(target, row) ==
  /\ ~(row.role = "ADMIN" /\ row.active)
  /\ {p \in People : members[p] # Nobody /\ members[p].role = "ADMIN"} \ {target} = {}

(* The other active admins, as they are while the target's row is locked.               *)
_would_remove_last_admin(target, row) ==
  /\ ~(row.role = "ADMIN" /\ row.active)
  /\ Admins \ {target} = {}

(* Role and activity, each as asked or as it was. Locks the target, counts the admins.    *)
PatchMember(v, p, row) ==
  /\ IsAdmin(v)
  /\ members[p] # Nobody /\ ~RowLocked(p)
  /\ row.verified = members[p].verified
  /\ ~_would_remove_last_admin(p, row)
  /\ visit' = [visit EXCEPT ![v] = [@ EXCEPT !.pc = "patch", !.of = p, !.row = row, !.stale = FALSE]]
  /\ UNCHANGED <<members, invites, mails, sessions, visits>>

SavePatch(v) ==
  /\ Visits(v, "patch")
  /\ SaveMember(v, visit[v].of, visit[v].row)
  /\ UNCHANGED <<invites, mails, sessions, visits>>

-----------------------------------------------------------------------------
(* Invites                                                                             *)

IsPending(p) == invites[p] # Nobody /\ invites[p].status = "PENDING"

(* No user and no pending invite of this address: looked up, ...                         *)
InviteLookup(v, p, role) ==
  /\ IsAdmin(v)
  /\ members[p] = Nobody /\ ~IsPending(p)
  /\ visit' = [visit EXCEPT ![v] = [@ EXCEPT !.pc = "invite", !.of = p, !.grant = role]]
  /\ UNCHANGED <<members, invites, mails, sessions, visits>>

(* ... and created, unless a pending one came first (uniq_invites_tenant_email_pending).  *)
TeamInviteListCreateView(v) ==
  LET p == visit[v].of
  IN /\ Visits(v, "invite")
     /\ invites' = IF IsPending(p) THEN invites
                   ELSE [invites EXCEPT ![p] =
                          [no |-> visits, role |-> visit[v].grant, status |-> "PENDING", link |-> visits,
                           late |-> FALSE, admitted |-> Nobody]]
     /\ Served(v)
     /\ UNCHANGED <<members, mails, sessions, visits>>

(* Under the invite's lock: a new link, and time anew. The old link opens nothing.       *)
TeamInviteResendView(v, p) ==
  /\ IsAdmin(v)
  /\ IsPending(p) /\ ~invites[p].late
  /\ invites' = [invites EXCEPT ![p].link = visits]
  /\ Served(v)
  /\ UNCHANGED <<members, mails, sessions, visits>>

(* Reads without a lock, ...                                                            *)
RevokeLookup(v, p) ==
  /\ IsAdmin(v)
  /\ IsPending(p) /\ ~invites[p].late
  /\ visit' = [visit EXCEPT ![v] = [@ EXCEPT !.pc = "revoke", !.of = p, !.link = invites[p].no]]
  /\ UNCHANGED <<members, invites, mails, sessions, visits>>

(* ... and writes the status of that invite, whatever it is by now.                      *)
TeamInviteRevokeView(v) ==
  LET p == visit[v].of
  IN /\ Visits(v, "revoke")
     /\ invites' = IF invites[p].no = visit[v].link THEN [invites EXCEPT ![p].status = "REVOKED"] ELSE invites
     /\ Served(v)
     /\ UNCHANGED <<members, mails, sessions, visits>>

(* Who follows a link of an invite that is pending and late closes it.                   *)
CloseLateInvite(v, p) ==
  /\ Visits(v, "idle")
  /\ IsPending(p) /\ invites[p].late
  /\ invites' = [invites EXCEPT ![p].status = "EXPIRED"]
  /\ UNCHANGED <<members, mails, sessions, visit, visits>>

(* mutant: only the link is looked up *)
MutantAdmits(p) == invites[p] # Nobody

Admits(p) == IsPending(p) /\ ~invites[p].late

(* Under the invite's lock, for an address that is free: the user and the invite at once, *)
(* and a session.                                                                      *)
TeamInviteAcceptView(v, p) ==
  /\ Visits(v, "idle") /\ Begin
  /\ Admits(p) /\ members[p] = Nobody
  /\ SaveMember(v, p, [role |-> invites[p].role, active |-> TRUE, verified |-> TRUE])
  /\ invites' = [invites EXCEPT ![p] = [@ EXCEPT !.status = "ACCEPTED", !.admitted = p]]
  /\ sessions' = [sessions EXCEPT ![p] = invites[p].role]
  /\ UNCHANGED mails

-----------------------------------------------------------------------------
(* Password resets                                                                     *)

(* Who is active asks for a link; the unused ones that are there by then are used up.     *)
ForgotPasswordView(v, p) ==
  /\ Visits(v, "idle") /\ Begin
  /\ IsActive(p)
  /\ visit' = [visit EXCEPT ![v] = [Gone EXCEPT !.pc = "forgot", !.of = p, !.link = visits', !.seen = mails.reset[p]]]
  /\ UNCHANGED <<members, invites, mails, sessions>>

create_password_reset_token(v) ==
  LET p == visit[v].of
  IN /\ Visits(v, "forgot")
     /\ mails' = [mails EXCEPT !.reset[p] = (@ \ visit[v].seen) \cup {visit[v].link}]
     /\ Served(v)
     /\ UNCHANGED <<members, invites, sessions, visits>>

(* Reads the link and its user, whoever that is by now, ...                              *)
consume_password_reset_token(v, p) ==
  /\ Visits(v, "idle") /\ Begin
  /\ mails.reset[p] # {}
  /\ visit' = [visit EXCEPT ![v] = [Gone EXCEPT !.pc = "reset", !.of = p, !.row = members[p]]]
  /\ UNCHANGED <<members, invites, mails, sessions>>

(* ... and saves the whole row that was read, role and activity with it.                 *)
reset_user_password(v) ==
  LET p == visit[v].of
  IN /\ Visits(v, "reset") /\ ~RowLocked(p)
     /\ SaveMember(v, p, visit[v].row)
     /\ mails' = [mails EXCEPT !.reset[p] = {}]
     /\ UNCHANGED <<invites, sessions, visits>>

-----------------------------------------------------------------------------
(* Time                                                                                *)

InviteExpires(p) ==
  /\ IsPending(p) /\ ~invites[p].late
  /\ invites' = [invites EXCEPT ![p].late = TRUE]
  /\ UNCHANGED <<members, mails, sessions, visit, visits>>

LinksExpire ==
  /\ mails # [verify |-> 0, reset |-> [p \in People |-> {}]]
  /\ mails' = [verify |-> 0, reset |-> [p \in People |-> {}]]
  /\ UNCHANGED <<members, invites, sessions, visit, visits>>

TeamNext ==
  \/ \E v \in Visitors :
       \/ RegisterView(v) \/ VerifyEmailView(v) \/ ResendVerificationView(v)
       \/ Leave(v) \/ SavePatch(v) \/ TeamInviteListCreateView(v) \/ TeamInviteRevokeView(v)
       \/ create_password_reset_token(v) \/ reset_user_password(v)
       \/ \E p \in People :
            \/ LoginView(v, p) \/ Authenticate(v, p) \/ TeamInviteResendView(v, p)
            \/ RevokeLookup(v, p) \/ CloseLateInvite(v, p) \/ TeamInviteAcceptView(v, p)
            \/ ForgotPasswordView(v, p) \/ consume_password_reset_token(v, p)
            \/ \E role \in TeamRoles : InviteLookup(v, p, role)
            \/ \E row \in MemberType : PatchMember(v, p, row)
  \/ \E p \in People : InviteExpires(p)
  \/ LinksExpire

TeamSpec == TeamInit /\ [][TeamNext]_teamVars

-----------------------------------------------------------------------------
(* A workspace loses its last active admin only by a request whose reading is out of date: *)
(* one that another change of members has overtaken (_would_remove_last_admin counts        *)
(* without a lock on the admins, a reset saves the row it read). Without such a race no     *)
(* series of patches, resets, invites and verifications does.                            *)
LastAdminGoesOnlyStale ==
  [][(Admins # {} /\ Admins' = {}) =>
       \E v \in Visitors : visit[v].pc \in {"patch", "reset"} /\ visit[v].stale /\ visit'[v].pc = "idle"]_teamVars

(* Nobody joins by an invite that is revoked, expired or used, however revocations, new      *)
(* links and acceptances race: but for the founder, who becomes a member does so with the    *)
(* role of an invite that was pending and in time, which then names that person.           *)
JoinsByALiveInvite ==
  [][\A p \in People \ {Founder} :
       (members[p] = Nobody /\ members'[p] # Nobody) =>
         /\ invites[p] # Nobody /\ invites[p].status = "PENDING" /\ ~invites[p].late
         /\ members'[p].role = invites[p].role /\ invites'[p].admitted = p]_teamVars
-----------------------------------------------------------------------------
(* What makes these provable: types, ...                                                *)
Authenticated == {"asked", "patch", "invite", "revoke", "task"}

VisitType ==
  [pc : {"idle", "forgot", "reset"} \cup Authenticated, by : People \cup {Nobody},
   as : TeamRoles \cup {Nobody}, of : People \cup {Nobody},
   row : MemberType \cup {Nobody}, grant : TeamRoles \cup {Nobody}, link : Nat, seen : SUBSET Nat,
   deposed : BOOLEAN, stale : BOOLEAN]

TeamTypeOK ==
  /\ members \in [People -> MemberType \cup {Nobody}]
  /\ invites \in [People -> InviteType \cup {Nobody}]
  /\ mails \in [verify : Nat, reset : [People -> SUBSET Nat]]
  /\ sessions \in [People -> TeamRoles \cup {Nobody}]
  /\ visit \in [Visitors -> VisitType]
  /\ visits \in Nat

(* ... what a request has read and not yet written, ...                                  *)
HasAuthority(x) ==
  x.pc \in Authenticated =>
    /\ x.by \in People
    /\ ~x.deposed => IsActive(x.by) /\ members[x.by].role = x.as
    /\ x.pc \in {"patch", "invite", "revoke"} => x.as = "ADMIN"

HasRead(x) ==
  /\ x.pc \in {"patch", "invite", "revoke", "forgot", "reset"} => x.of \in People
  /\ x.pc \in {"patch", "forgot", "reset"} => members[x.of] # Nobody
  /\ x.pc \in {"patch", "reset"} => x.row \in MemberType
  /\ x.pc = "invite" => x.grant \in TeamRoles
  /\ x.pc = "revoke" => invites[x.of] # Nobody
  /\ x.pc = "patch" /\ ~x.stale => ~_would_remove_last_admin(x.of, x.row)
  /\ x.pc = "reset" /\ ~x.stale => x.row = members[x.of]

(* ... and links that only members have.                                                *)
LinksOfMembers ==
  /\ mails.verify # 0 => members[Founder] # Nobody
  /\ \A p \in People : mails.reset[p] # {} => members[p] # Nobody

TeamInv ==
  /\ TeamTypeOK
  /\ \A v \in Visitors : HasAuthority(visit[v]) /\ HasRead(visit[v])
  /\ LinksOfMembers

=================================================================================
