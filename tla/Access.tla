------------------------------- MODULE Access ---------------------------------
(***************************************************************************)
(* The members of one organization: sign-in, the guards of a request, and  *)
(* the requests that manage members.                                       *)
(*                                                                         *)
(* Every request passes the guards once, which read the caller's role.  A  *)
(* change or removal of a member then works in a transaction that locks    *)
(* the organization; additions, sign-ins from GoHighLevel and sessions of  *)
(* the embedded dashboard write the table without that lock.               *)
(***************************************************************************)
EXTENDS Integers, FiniteSets

CONSTANTS
  User,
  Dashboard,     \* the identity of the embedded dashboard, a user
  Manager,       \* overlapping requests that manage members
  NoManager,
  MaxAccess      \* bound on requests and sign-ins

ASSUME AccessAssumption ==
  /\ Dashboard \in User /\ NoManager \notin Manager /\ MaxAccess \in Nat

Role == {"owner", "capere_admin", "office_manager", "marketing_manager",
         "seo_specialist"}
Manageable == Role \ {"capere_admin"}
NotMember == "none"

VARIABLES
  member,       \* organization_members: the role of each user
  orgActive,    \* status of the organization
  manager,      \* where each request is
  orgLock,      \* the request that holds the organization's row
  promoted,     \* the dashboard's identity was made an owner
  accesses

accessVars == <<member, orgActive, manager, orgLock, promoted, accesses>>

NoRequest == [at |-> "idle"]

AccessTypeOK ==
  /\ member \in [User -> Role \union {NotMember}]
  /\ orgActive \in BOOLEAN /\ promoted \in BOOLEAN
  /\ \A m \in Manager : manager[m].at \in {"idle", "admitted", "checked"}
  /\ orgLock \in Manager \union {NoManager}
  /\ accesses \in 0..MaxAccess
  /\ \A m \in Manager : manager[m].at = "checked" <=> orgLock = m

(* The creator is the first owner; Capere's administrators are written by  *)
(* operators.                                                              *)
AccessInit ==
  /\ member \in [User -> {"owner", "capere_admin", NotMember}]
  /\ member[Dashboard] = NotMember /\ \E u \in User : member[u] = "owner"
  /\ orgActive = TRUE /\ manager = [m \in Manager |-> NoRequest]
  /\ orgLock = NoManager /\ promoted = FALSE /\ accesses = 0

AccessCounted == accesses < MaxAccess /\ accesses' = accesses + 1
Owners == {u \in User : member[u] = "owner"}
ManagerGoes(m, to) == manager' = [manager EXCEPT ![m] = to]

-----------------------------------------------------------------------------
(* The guards: the role of a member of an active organization, and the     *)
(* roles the endpoint names.                                               *)
RoleFor(u) == IF orgActive THEN member[u] ELSE NotMember
Admitted(u) == RoleFor(u) \in {"owner", "capere_admin"}

ManageMember(m, u, target, role) ==
  /\ manager[m].at = "idle" /\ Admitted(u) /\ AccessCounted
  /\ ManagerGoes(m, [at |-> "admitted", target |-> target, role |-> role])
  /\ UNCHANGED <<member, orgActive, orgLock, promoted>>

LockFree == orgLock = NoManager

(* updateMember and removeMember, under the lock: a missing member and a   *)
(* Capere administrator are refused, and so is the last owner.  (The code  *)
(* also misses a member who left and came back, under another id.)         *)
Permitted(target, role) ==
  /\ member[target] \notin {NotMember, "capere_admin"}
  /\ member[target] = "owner" /\ role # "owner" => Owners \ {target} # {}

CheckMember(m) ==
  LET q == manager[m] IN
  /\ q.at = "admitted" /\ LockFree
  /\ IF Permitted(q.target, q.role)
     THEN orgLock' = m /\ ManagerGoes(m, [q EXCEPT !.at = "checked"])
     ELSE UNCHANGED orgLock /\ ManagerGoes(m, NoRequest)
  /\ UNCHANGED <<member, orgActive, promoted, accesses>>

(* The role is written, or the row deleted.                                *)
WriteMember(m) ==
  LET q == manager[m] IN
  /\ q.at = "checked"
  /\ member' = [member EXCEPT ![q.target] = q.role]
  /\ orgLock' = IF orgLock = m THEN NoManager ELSE orgLock
  /\ ManagerGoes(m, NoRequest)
  /\ promoted' = (promoted \/ member'[Dashboard] = "owner")
  /\ UNCHANGED <<orgActive, accesses>>

ManagerDies(m) ==
  /\ manager[m].at # "idle" /\ ManagerGoes(m, NoRequest)
  /\ orgLock' = IF orgLock = m THEN NoManager ELSE orgLock
  /\ UNCHANGED <<member, orgActive, promoted, accesses>>

-----------------------------------------------------------------------------
(* addMember: a member already is refused by the unique key.               *)
AddMember(u, target, role) ==
  /\ Admitted(u) /\ member[target] = NotMember /\ AccessCounted
  /\ member' = [member EXCEPT ![target] = role]
  /\ promoted' = (promoted \/ member'[Dashboard] = "owner")
  /\ UNCHANGED <<orgActive, manager, orgLock>>

Entered(old, role) == IF old = NotMember THEN role ELSE old

(* exchange: a GoHighLevel user enters the organization of the active      *)
(* location, as administrator there or not.                                *)
SignIn(u, role) ==
  /\ orgActive /\ u # Dashboard /\ AccessCounted
  /\ role \in {"office_manager", "marketing_manager"}
  /\ member' = [member EXCEPT ![u] = Entered(@, role)]
  /\ UNCHANGED <<orgActive, manager, orgLock, promoted>>

(* Rows a transaction holds: its target's, and every owner's when it has   *)
(* looked for another one.                                                 *)
RowLocked(u) ==
  \E m \in Manager :
    LET q == manager[m] IN
    /\ q.at = "checked"
    /\ \/ q.target = u
       \/ member[q.target] = "owner" /\ q.role # "owner" /\ member[u] = "owner"

(* The embedded dashboard signs in as the user of its location, whose role *)
(* is reset every time.                                                    *)
EmbedSignIn ==
  /\ orgActive /\ AccessCounted /\ ~ RowLocked(Dashboard)
  /\ member' = [member EXCEPT ![Dashboard] = "seo_specialist"]
  /\ UNCHANGED <<orgActive, manager, orgLock, promoted>>

ChangeStatus ==
  /\ AccessCounted /\ orgActive' = ~ orgActive
  /\ UNCHANGED <<member, manager, orgLock, promoted>>

-----------------------------------------------------------------------------
AccessNext ==
  \/ \E m \in Manager :
       \/ \E u, target \in User, role \in Manageable \union {NotMember} :
            ManageMember(m, u, target, role)
       \/ CheckMember(m) \/ WriteMember(m) \/ ManagerDies(m)
  \/ \E u, target \in User, role \in Manageable : AddMember(u, target, role)
  \/ \E u \in User, role \in Role : SignIn(u, role)
  \/ EmbedSignIn \/ ChangeStatus

AccessSpec == AccessInit /\ [][AccessNext]_accessVars

-----------------------------------------------------------------------------
(* "Two owners cannot both observe the other and leave the organization    *)
(* ownerless" - unless the dashboard's identity was made an owner, whose   *)
(* role the next session resets.                                           *)
OwnerRemains == promoted \/ Owners # {}

(* "Existing Capere roles are never overwritten" by a sign-in, and those   *)
(* of Capere's administrators by no one: a role changes in the transaction *)
(* of a request that manages members.                                      *)
RolesAreManaged ==
  [][\A u \in User \ {Dashboard} :
       member[u] # NotMember /\ member'[u] # member[u] =>
         member[u] # "capere_admin" /\ orgLock # NoManager]_accessVars
=============================================================================
