------------------------------- MODULE Approvers -------------------------------
(***************************************************************************)
(* Who may decide an approval request: the roles of a workspace, how the   *)
(* request is routed to some of them, the fallback to the project's owner, *)
(* and the delegations written on the request.                             *)
(*                                                                         *)
(* Everything is an operator of the request and of the members of the      *)
(* workspace: the code resolves approvers anew at every use, and the       *)
(* snapshot it stores on the request is only shown and notified.           *)
(***************************************************************************)

CONSTANTS
  Users,        \* users of the system
  ProjectOwner  \* the owner of the project the requests belong to

ASSUME ApproversAssumption == ProjectOwner \in Users

Role == { "owner", "admin", "builder", "operator", "approver", "viewer" }

\* Members of the workspace: the role of each active membership.
NoRole == "none"
Members == [Users -> Role \cup {NoRole}]

\* The permissions that matter here.
Permissions(role) ==
  CASE role \in { "owner", "admin" } -> { "approval:decide", "workspace:admin" }
    [] role = "approver" -> { "approval:decide" }
    [] OTHER -> { }

RoleHasPermission(role, permission) ==
  { permission, "workspace:admin" } \cap Permissions(role) # { }

CanDecide(role) == RoleHasPermission(role, "approval:decide")

ROLES_WITH_DECIDE == { "owner", "admin", "approver" }
HIGH_RISK_ROLES == { "owner", "admin" }

Delegation == [from : Users, to : Users]

\* What of an approval request decides about its approvers.
Routing ==
  [ approvers   : SUBSET Users,   \* explicit approver ids of the payload
    roles       : SUBSET Role,    \* explicit approver roles of the payload
    highRisk    : BOOLEAN,        \* by risk level, or a mail or message to be sent
    escalated   : SUBSET Role,    \* the roles it was escalated to, { } if it was not
    delegations : SUBSET Delegation ]

\* Escalation narrows only what no payload has fixed.
MatchedRoles(r) ==
  CASE r.roles # { } -> r.roles
    [] r.roles = { } /\ r.approvers # { } -> ROLES_WITH_DECIDE
    [] r.roles = { } /\ r.approvers = { } /\ r.escalated # { } -> r.escalated
    [] r.roles = { } /\ r.approvers = { } /\ r.escalated = { } ->
         IF r.highRisk THEN HIGH_RISK_ROLES ELSE ROLES_WITH_DECIDE

DelegatedAway(r) == { d.from : d \in r.delegations }
DelegateTargets(r) == { d.to : d \in r.delegations }

\* The owner is added when no role has found them.
Resolved(r, member) ==
  { u \in Users : member[u] \in MatchedRoles(r) }
    \cup { u \in r.approvers : CanDecide(member[u]) }
    \cup { ProjectOwner }

\* A target is added back even if it has delegated in its turn.
Eligible(r, member) ==
  (Resolved(r, member) \ DelegatedAway(r))
    \cup { u \in DelegateTargets(r) : CanDecide(member[u]) }

\* Mutant: any active member may become the delegate.
CanDelegateToMember(r, member, from, to) ==
  /\ from # to
  /\ from \in Eligible(r, member)
  /\ member[to] # NoRole
  /\ from \notin DelegatedAway(r)
  /\ to \notin DelegateTargets(r)

\* delegate_approval's guards on a pending request.
CanDelegate(r, member, from, to) ==
  /\ from # to
  /\ from \in Eligible(r, member)
  /\ CanDecide(member[to])
  /\ from \notin DelegatedAway(r)
  /\ to \notin DelegateTargets(r)

Delegate(r, from, to) ==
  [r EXCEPT !.delegations = @ \cup { [from |-> from, to |-> to] }]

==============================================================================
