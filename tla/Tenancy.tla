------------------------------- MODULE Tenancy -------------------------------
(***************************************************************************)
(* One organisation of the platform: its members and their roles,          *)
(* invitations, its courses against the plan's caps, and what a platform   *)
(* owner may do to it.                                                     *)
(*                                                                         *)
(* A request resolves the organisation and the caller's role, starts its   *)
(* statement (which judges row security and the quota on the rows          *)
(* committed by then), waits for its rows, writes them and commits.        *)
(***************************************************************************)
EXTENDS Naturals, FiniteSets, Sequences

CONSTANTS
    Users,
    PlatformOwners,
    Invites,
    To, As,       \* invitation -> the user it is addressed to, and the role
    Plans,
    Seeded,       \* plan -> its row at the start: a set of at most one record
    Limits,       \* the limits an administrator may give a plan
    NoPlan,
    Members,      \* user -> role when the organisation exists at the start
    Titles,       \* bound: courses
    Requests,     \* bound: members' requests at a time
    Handlers      \* the sets of handlers that run together in a behaviour

Roles == {"owner", "teacher", "moderator", "learner"}

ASSUME TenancyAssumption ==
    /\ PlatformOwners \subseteq Users
    /\ To \in [Invites -> Users] /\ As \in [Invites -> Roles \ {"owner"}]
    /\ Members \in [Users -> Roles \union {"none"}]
    /\ Users \intersect Invites = {} /\ Titles \intersect (Users \union Invites) = {}
    /\ NoPlan \notin Plans /\ Seeded \in [Plans -> SUBSET [courses : Nat, members : Nat, default : BOOLEAN]]
    /\ \A p, q \in Plans : \A x \in Seeded[p], y \in Seeded[q] : p = q => x = y
    /\ \A p, q \in Plans : \A x \in Seeded[p], y \in Seeded[q] : x.default /\ y.default => p = q
    /\ Limits \subseteq [courses : Nat, members : Nat] /\ IsFiniteSet(Users)

VARIABLES
    team,       \* the handlers of this behaviour
    org,        \* "absent", "open", "closed" (deactivated) or "gone"
    role,       \* user -> role of the membership, "none" without one
    invite,     \* invitation -> status of its row, "none" before it exists
    expired,    \* invitations whose seven days are over
    courses,    \* courses of the organisation
    suspended,  \* users an administrator has suspended
    plans,      \* plan -> its row, {} before it exists
    assigned,   \* plan of the organisation, or NoPlan
    req         \* members' requests: what their transaction has done so far

rows == <<org, role, invite, expired, courses>>
tenancyVars == <<team, rows, suspended, plans, assigned, req>>

-----------------------------------------------------------------------------
(* Who may do what                                                         *)

IsMember(u) == role[u] # "none"
Owners == {u \in Users : role[u] = "owner"}

\* ResolveOrg: a platform owner passes without a membership, and passes into
\* an organisation that is closed to its own members.
Resolves(u) ==
    /\ u \notin suspended
    /\ org = "open" \/ (org = "closed" /\ u \in PlatformOwners)
    /\ IsMember(u) \/ u \in PlatformOwners

HasRole(u, allowed) == Resolves(u) /\ (IsMember(u) => role[u] \in allowed)

\* Row security of what teachers write asks for a membership, too.
Authors == {u \in Users : IsMember(u) /\ HasRole(u, {"owner", "teacher"})}

\* resolveOrgBySlugForCourseCreation has its own checks.
MayAuthor(u) == org \in {"open", "closed"} /\ role[u] \in {"owner", "teacher"}

-----------------------------------------------------------------------------
(* Plans and quotas                                                        *)

Default == {p \in Plans : \E x \in plans[p] : x.default}

\* ResolveForOrg: the assigned plan, else the default one; there may be none.
PlanOf == UNION {plans[p] : p \in IF assigned # NoPlan THEN {assigned} ELSE Default}

Usage == [courses |-> Cardinality(courses), members |-> Cardinality({u \in Users : IsMember(u)})]

\* mutant: what is there is compared, not what will be
CheckUsed(dim) ==
    \E x \in PlanOf : x[dim] = 0 \/ Usage[dim] <= x[dim]

\* Check: a limit of 0 (or NULL) is none; without a plan the request fails.
Check(dim) ==
    \E x \in PlanOf : x[dim] = 0 \/ Usage[dim] + 1 <= x[dim]

\* Report: the dimensions of which nothing more may be added.
Exceeded ==
    {dim \in {"courses", "members"} :
        \E x \in PlanOf : x[dim] > 0 /\ Usage[dim] >= x[dim]}

-----------------------------------------------------------------------------
(* A request arrives and its role is read                                  *)

Idle == [kind |-> "idle", who |-> NoPlan, on |-> NoPlan, to |-> "none",
         phase |-> "none", overtaken |-> FALSE]

Arrive(r, handler, u, target, to) ==
    /\ handler \in team
    /\ req[r].kind = "idle"
    /\ req' = [req EXCEPT ![r] = [Idle EXCEPT !.kind = handler, !.who = u, !.on = target,
                                               !.to = to, !.phase = "resolved"]]
    /\ UNCHANGED <<team, rows, suspended, plans, assigned>>

CreateOrg(r, u) == org = "absent" /\ Arrive(r, "CreateOrg", u, u, "owner")
DeleteOrg(r, u) == HasRole(u, {"owner"}) /\ Arrive(r, "DeleteOrg", u, u, "gone")

ChangeMemberRole(r, u) ==
    /\ HasRole(u, {"owner"})
    /\ \E m \in Users, to \in Roles : Arrive(r, "ChangeMemberRole", u, m, to)

RemoveMember(r, u) ==
    /\ HasRole(u, {"owner"})
    /\ \E m \in Users : Arrive(r, "RemoveMember", u, m, "none")

CreateInvitation(r, u) ==
    /\ HasRole(u, {"owner"})
    /\ \E i \in Invites : invite[i] = "none" /\ Arrive(r, "CreateInvitation", u, i, "pending")

RevokeInvitation(r, u) ==
    /\ HasRole(u, {"owner"})
    /\ \E i \in Invites : Arrive(r, "RevokeInvitation", u, i, "revoked")

\* By token: no organisation to resolve. Expiry is compared with the start of
\* the transaction.
Known(u) == {i \in Invites \ expired : To[i] = u /\ invite[i] # "none"}
AcceptInvitation(r, u) ==
    \E i \in Known(u) : Arrive(r, "AcceptInvitation", u, i, "accepted")
DeclineInvitation(r, u) ==
    \E i \in Known(u) : Arrive(r, "DeclineInvitation", u, i, "declined")

CreateCourse(r, u) ==
    MayAuthor(u) /\ \E t \in Titles \ courses : Arrive(r, "CreateCourse", u, t, "draft")

-----------------------------------------------------------------------------
(* Its statement starts                                                    *)

\* mutant: no row security, only the role read when the request arrived
AllowedOnce(e) ==
    /\ e.kind = "CreateInvitation" => Check("members")
    /\ e.kind = "CreateCourse" => Check("courses")

\* Row security: is_org_owner for memberships, invitations and the
\* organisation (a platform owner without membership is none), is_org_member
\* for courses. create_organization and the invitee's functions bypass it.
Allowed(e) ==
    /\ e.kind \in {"DeleteOrg", "ChangeMemberRole", "RemoveMember", "CreateInvitation",
                   "RevokeInvitation"} => e.who \in Owners
    /\ e.kind = "CreateInvitation" => Check("members")
    /\ e.kind = "CreateCourse" => Check("courses") /\ IsMember(e.who)

Start(r) ==
    /\ req[r].phase = "resolved" /\ Allowed(req[r])
    /\ req' = [req EXCEPT ![r].phase = "started"]
    /\ UNCHANGED <<team, rows, suspended, plans, assigned>>

-----------------------------------------------------------------------------
(* It finds and locks its rows                                             *)

\* Rows the request writes: users stand for their membership.
Takes(e) ==
    IF e.kind = "AcceptInvitation" THEN {e.on, To[e.on]}
    ELSE IF e.kind \in {"CreateOrg", "DeleteOrg"} THEN Users \union Invites \union Titles
    ELSE {e.on}

Locked == UNION {Takes(req[o]) : o \in {x \in Requests : req[x].phase = "wrote"}}

\* mutant: the invitation's status is not looked at again
FoundAnyway(e) ==
    CASE e.kind = "CreateOrg" -> org = "absent"
      [] e.kind \in {"ChangeMemberRole", "RemoveMember"} -> IsMember(e.on)
      [] e.kind \in {"AcceptInvitation", "DeclineInvitation", "RevokeInvitation"} ->
           invite[e.on] # "none"
      [] e.kind = "CreateInvitation" -> invite[e.on] = "none" /\ org # "gone"
      [] OTHER -> org \in {"open", "closed"}

\* A locked row is judged as it is once the lock is free: an invitation is
\* answered or revoked while pending, a slug is unique, and a deleted
\* organisation takes everything with it.
Found(e) ==
    CASE e.kind = "CreateOrg" -> org = "absent"
      [] e.kind = "CreateCourse" -> e.on \notin courses /\ org \in {"open", "closed"}
      [] e.kind \in {"ChangeMemberRole", "RemoveMember"} -> IsMember(e.on)
      [] e.kind \in {"AcceptInvitation", "DeclineInvitation", "RevokeInvitation"} ->
           invite[e.on] = "pending"
      [] e.kind = "CreateInvitation" -> invite[e.on] = "none" /\ org # "gone"
      [] OTHER -> org \in {"open", "closed"}

Write(r) ==
    /\ req[r].phase = "started" /\ Takes(req[r]) \intersect Locked = {} /\ Found(req[r])
    /\ req' = [req EXCEPT ![r].phase = "wrote"]
    /\ UNCHANGED <<team, rows, suspended, plans, assigned>>

-----------------------------------------------------------------------------
(* It commits, or fails and leaves nothing                                 *)

\* The other requests whose statement has started did not see this commit.
Passed(q) == [o \in Requests |-> IF q[o].phase \in {"started", "wrote"}
                                 THEN [q[o] EXCEPT !.overtaken = TRUE] ELSE q[o]]
End(r) == [Passed(req) EXCEPT ![r] = Idle]

OrgAfter(e) ==
    CASE e.kind = "CreateOrg" -> "open" [] e.kind = "DeleteOrg" -> "gone" [] OTHER -> org

RoleAfter(e, u) ==
    CASE e.kind = "DeleteOrg" -> "none"
      [] e.kind \in {"CreateOrg", "ChangeMemberRole", "RemoveMember"} /\ e.on = u -> e.to
      [] e.kind = "AcceptInvitation" /\ e.who = u -> As[e.on]      \* ON CONFLICT DO UPDATE
      [] OTHER -> role[u]

InviteAfter(e, i) ==
    CASE e.kind = "DeleteOrg" /\ invite[i] # "none" -> "revoked"
      [] e.kind # "DeleteOrg" /\ e.on = i -> e.to
      [] OTHER -> invite[i]

CoursesAfter(e) ==
    CASE e.kind = "DeleteOrg" -> {}
      [] e.kind = "CreateCourse" -> courses \union {e.on}
      [] OTHER -> courses

Commit(r) ==
    LET e == req[r]
    IN  /\ e.phase = "wrote"
        /\ org' = OrgAfter(e)
        /\ role' = [u \in Users |-> RoleAfter(e, u)]
        /\ invite' = [i \in Invites |-> InviteAfter(e, i)]
        /\ courses' = CoursesAfter(e)
        /\ req' = End(r)
        /\ UNCHANGED <<team, expired, suspended, plans, assigned>>

Fail(r) ==
    /\ req[r].phase \in {"resolved", "started", "wrote"}
    /\ req' = [req EXCEPT ![r] = Idle]
    /\ UNCHANGED <<team, rows, suspended, plans, assigned>>

-----------------------------------------------------------------------------
(* The platform owner's requests are single statements; time passes        *)

Overtaking(handler) ==
    handler \in team /\ req' = Passed(req) /\ UNCHANGED <<team, rows>>

\* One default plan at most: plans_single_default_idx.
PutPlan(handler, p) ==
    \E x \in Limits, default \in BOOLEAN :
        /\ Overtaking(handler)
        /\ default => Default \subseteq {p}
        /\ plans' = [plans EXCEPT ![p] =
                       {[courses |-> x.courses, members |-> x.members, default |-> default]}]
        /\ UNCHANGED <<suspended, assigned>>

CreatePlan(p) == plans[p] = {} /\ PutPlan("CreatePlan", p)
UpdatePlan(p) == plans[p] # {} /\ PutPlan("UpdatePlan", p)

AssignOrgPlan ==
    /\ Overtaking("AssignOrgPlan") /\ org \in {"open", "closed"}
    /\ assigned' \in {NoPlan} \union {p \in Plans : plans[p] # {}}
    /\ UNCHANGED <<suspended, plans>>

SuspendUser(u) ==
    /\ "SuspendUser" \in team /\ u \notin PlatformOwners
    /\ suspended' = suspended \union {u}
    /\ UNCHANGED <<team, rows, plans, assigned, req>>
ReactivateUser(u) ==
    /\ "ReactivateUser" \in team
    /\ suspended' = suspended \ {u}
    /\ UNCHANGED <<team, rows, plans, assigned, req>>

SetOrgActive(handler, from, to) ==
    /\ handler \in team /\ org \in {"open", "closed"}
    /\ org = from /\ org' = to
    /\ UNCHANGED <<team, role, invite, expired, courses, suspended, plans, assigned, req>>
DeactivateOrg == SetOrgActive("DeactivateOrg", "open", "closed")
ReactivateOrg == SetOrgActive("ReactivateOrg", "closed", "open")

Expire(i) ==
    /\ invite[i] = "pending" /\ "RevokeInvitation" \in team
    /\ expired' = expired \union {i}
    /\ UNCHANGED <<team, org, role, invite, courses, suspended, plans, assigned, req>>

-----------------------------------------------------------------------------
TenancyInit ==
    /\ team \in Handlers
    /\ org = IF "CreateOrg" \in team THEN "absent" ELSE "open"
    /\ role = IF org = "open" THEN Members ELSE [u \in Users |-> "none"]
    /\ invite = [i \in Invites |-> IF "AcceptInvitation" \in team /\ "CreateInvitation" \notin team
                                   THEN "pending" ELSE "none"]
    /\ expired = {} /\ courses = {} /\ suspended = {}
    /\ plans = Seeded /\ assigned = NoPlan
    /\ req = [r \in Requests |-> Idle]

Request(r, u) ==
    \/ CreateOrg(r, u) \/ DeleteOrg(r, u) \/ ChangeMemberRole(r, u) \/ RemoveMember(r, u)
    \/ CreateInvitation(r, u) \/ RevokeInvitation(r, u) \/ AcceptInvitation(r, u)
    \/ DeclineInvitation(r, u) \/ CreateCourse(r, u)

TenancyNext ==
    \/ \E r \in Requests : (\E u \in Users : Request(r, u)) \/ Start(r) \/ Write(r) \/ Commit(r) \/ Fail(r)
    \/ \E p \in Plans : CreatePlan(p) \/ UpdatePlan(p)
    \/ \E u \in Users : SuspendUser(u) \/ ReactivateUser(u)
    \/ \E i \in Invites : Expire(i)
    \/ AssignOrgPlan \/ DeactivateOrg \/ ReactivateOrg

TenancySpec == TenancyInit /\ [][TenancyNext]_tenancyVars

-----------------------------------------------------------------------------
(* Properties                                                              *)

Commits(r) == req[r].phase = "wrote" /\ req'[r] = Idle /\ rows' # rows

\* Somebody becomes a member by founding the organisation or by accepting an
\* invitation addressed to him that nobody answered or revoked before, with
\* the role it offers; an answer is final. Two answers and a revocation may
\* be under way together.
JoinedByInvitation ==
    [][/\ \A u \in Users :
             ~IsMember(u) /\ role'[u] # "none" =>
                 \/ org = "absent" /\ role'[u] = "owner"
                 \/ \E i \in Invites : /\ To[i] = u /\ role'[u] = As[i]
                                       /\ invite[i] = "pending" /\ invite'[i] = "accepted"
       /\ \A i \in Invites :
             invite[i] \notin {"none", "pending"} => invite'[i] = invite[i] \/ org' = "gone"]_tenancyVars

\* An organisation is left without an owner only by its last owner (who
\* changes his own role, or accepts an invitation to a lower one), or by a
\* request that another commit overtook, as when two owners remove each
\* other. The role a request found when it arrived is not enough.
LastOwnerStepsDown ==
    [][Owners # {} /\ Owners' = {} /\ org' # "gone" =>
          \E r \in Requests : Commits(r) /\ (req[r].overtaken \/ Owners = {req[r].who})]_tenancyVars

\* Nothing is added to what the quota report shows as exhausted, unless
\* another commit overtook the request after its check.
NothingBeyondReport ==
    [][\A r \in Requests :
          Commits(r) /\ ~req[r].overtaken =>
              /\ req[r].kind = "CreateCourse" => "courses" \notin Exceeded
              /\ req[r].kind = "CreateInvitation" => "members" \notin Exceeded]_tenancyVars
=============================================================================
