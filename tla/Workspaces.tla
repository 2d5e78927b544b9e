------------------------------ MODULE Workspaces ------------------------------
(***************************************************************************)
(* Members and invites of one workspace: workspace_admin_service.py,       *)
(* workspace_invite_service.py, what platform_admin_service.py and the     *)
(* start of a process (core/bootstrap.py) do to them.                      *)
(*                                                                         *)
(* The endpoints run in a thread pool, each with a database session of its *)
(* own.  A request is two steps: one snapshot read, in which the principal *)
(* is resolved and everything is checked, and one transaction that writes  *)
(* the columns whose value differs from the copies it has read.  Unique    *)
(* indexes are the only things that look at the rows again: one active     *)
(* founder, one membership per user, one pending invite per email.         *)
(***************************************************************************)
EXTENDS AccessPolicy, Sequences

CONSTANTS
    Users,        \* people, each with an email address
    Founder, Admin,  \* the members the workspace has at first
    Platform,     \* a platform administrator who is not a member
    Nobody,
    Invites, NoInvite,
    Slots,        \* requests that may be in flight at once
    MaxRequests   \* bound: requests begun

ASSUME UsersAssumption == /\ {Founder, Admin} \subseteq Users /\ Founder # Admin
                          /\ Platform \notin Users /\ Nobody \notin Users \union {Platform}
ASSUME InvitesAssumption == NoInvite \notin Invites
ASSUME RequestsAssumption == MaxRequests \in Nat

VARIABLES
    default,      \* is_default: the workspace that bootstrap looks after
    archived,
    member,       \* user -> membership row
    tenant,       \* users with an active tenant membership
    accounts,     \* users with a row in users
    invite,       \* invite -> row
    due,          \* invites whose expires_at has passed
    request,      \* slot -> the request in flight, or None
    (* history and bounds *)
    by,           \* user -> the authority behind the role in its row
    granted,      \* invite -> how often it has made somebody a member
    contested,    \* invites written by a request that had read another row
    overwritten,  \* a request that had read a member has written over a founder
    requests

tables      == <<default, archived, member, tenant, accounts, invite>>
historyVars == <<by, granted, contested, overwritten>>
vars == <<tables, due, request, historyVars, requests>>

-----------------------------------------------------------------------------
NoRow  == [role |-> "none", status |-> "none"]
Member(role)  == [role |-> role, status |-> "active"]
Removed(role) == [role |-> role, status |-> "removed"]

NoInviteRow == [email |-> Nobody, role |-> "none", status |-> "none", by |-> "none"]

ActiveFounders(m) == {u \in Users : m[u] = Member("founder")}
Pending(e) == {i \in Invites : invite[i].email = e /\ invite[i].status = "pending"}

(* get_current_principal: the membership in the workspace that the token    *)
(* names, which must not be archived.                                       *)
Authority(a) == IF a = Platform THEN "platform"
                ELSE IF member[a].status = "active" THEN member[a].role ELSE "none"

Managers == {"platform", "founder", "admin"}

(* Mutant: an admin may hand out any role but the founder's. *)
AssignableByAnyManager(auth, role) == role # "founder" /\ auth \in Managers

(* Mutant: the founder's role is handed out like any other. *)
AssignableWithFounder(auth, role) ==
    auth \in {"platform", "founder"} \/ (auth = "admin" /\ role \in {"member", "guest"})

(* _assert_assignable_role, _assert_invite_role_allowed *)
Assignable(auth, role) ==
    /\ role # "founder"
    /\ auth \in {"platform", "founder"} \/ (auth = "admin" /\ role \in {"member", "guest"})

(* _assert_manageable_target *)
Manageable(auth, row, role) == /\ row.role # "founder"
                               /\ Assignable(auth, role)
                               /\ auth = "admin" => row.role \in {"member", "guest"}

(* Mutant: only the date of an invite is looked at. *)
DatedStatus(i) == IF invite[i] = NoInviteRow THEN "none"
                  ELSE IF i \in due THEN "expired" ELSE "pending"

(* _effective_status *)
EffectiveStatus(i) ==
    IF invite[i].status = "pending" /\ i \in due THEN "expired" ELSE invite[i].status

None == [op |-> "none", auth |-> "none", who |-> Nobody, new |-> NoRow, copy |-> NoRow,
         from |-> Nobody, invite |-> NoInvite, old |-> NoInviteRow]

(* The read of a request, in a free slot. *)
Begin(s, r) ==
    /\ request[s] = None /\ requests < MaxRequests
    /\ requests' = requests + 1
    /\ request' = [request EXCEPT ![s] = r]
    /\ UNCHANGED <<tables, due, historyVars>>

Done(s) == request' = [request EXCEPT ![s] = None]

-----------------------------------------------------------------------------
(* create_workspace_member *)
AddMember(s, auth, u, role) ==
    /\ ~archived /\ auth \in Managers /\ Assignable(auth, role)
    /\ u \in accounts /\ u \in tenant
    /\ member[u] # NoRow => Manageable(auth, member[u], role) /\ member[u].status # "active"
    /\ Begin(s, [None EXCEPT !.op = "member", !.auth = auth, !.who = u,
                             !.new = Member(role), !.copy = member[u]])

(* update_workspace_member: role, status or both *)
UpdateMember(s, auth, u, role, status) ==
    /\ ~archived /\ auth \in Managers
    /\ member[u] # NoRow /\ Manageable(auth, member[u], role)
    /\ Begin(s, [None EXCEPT !.op = "member", !.auth = auth, !.who = u, !.copy = member[u],
                             !.new = [role |-> role, status |-> status]])

(* remove_workspace_member *)
RemoveMember(s, auth, u) ==
    /\ member[u].status = "active"
    /\ UpdateMember(s, auth, u, member[u].role, "removed")

(* transfer_workspace_founder *)
TransferFounder(s, auth, u) ==
    /\ ~archived /\ auth \in {"platform", "founder"}
    /\ Cardinality(ActiveFounders(member)) = 1
    /\ member[u].status = "active" /\ member[u].role # "founder"
    /\ \E f \in ActiveFounders(member) :
          Begin(s, [None EXCEPT !.op = "transfer", !.auth = auth, !.who = u, !.from = f,
                                !.copy = member[u], !.new = Member("founder")])

(* archive_workspace, archive_platform_workspace *)
Archive(s, auth) ==
    /\ ~archived /\ ~default /\ auth \in {"platform", "founder"}
    /\ Begin(s, [None EXCEPT !.op = "archive", !.auth = auth])

(* create_workspace_invite; a pending invite that is due is expired on the  *)
(* way, any other one refuses the request.                                  *)
CreateInvite(s, auth, e, role) ==
    /\ ~archived /\ auth \in Managers /\ Assignable(auth, role)
    /\ Pending(e) \subseteq due
    /\ LET old == IF Pending(e) = {} THEN NoInvite ELSE CHOOSE i \in Pending(e) : TRUE
       IN Begin(s, [None EXCEPT !.op = "invite", !.auth = auth, !.who = e, !.new = Member(role),
                                !.invite = old,
                                !.old = IF old = NoInvite THEN NoInviteRow ELSE invite[old]])

(* accept_workspace_invite by a user whose email is the invite's, and       *)
(* claim_workspace_invite, which makes the account (branch B).              *)
OpenInvite(s, i, op) ==
    /\ EffectiveStatus(i) = "pending" /\ ~archived
    /\ member[invite[i].email].status # "active"
    /\ Begin(s, [None EXCEPT !.op = op, !.auth = invite[i].by, !.who = invite[i].email,
                             !.new = Member(invite[i].role), !.copy = member[invite[i].email],
                             !.invite = i, !.old = invite[i]])

AcceptInvite(s, i) == invite[i].email \in accounts /\ OpenInvite(s, i, "accept")
ClaimInvite(s, i)  == invite[i].email \in Users \ accounts /\ OpenInvite(s, i, "claim")

(* Accepting, claiming or revoking an invite that is due persists that. *)
ExpireInvite(s, i) ==
    /\ invite[i].status = "pending" /\ i \in due
    /\ Begin(s, [None EXCEPT !.op = "expired", !.invite = i, !.old = invite[i]])

(* revoke_workspace_invite *)
RevokeInvite(s, auth, i) ==
    /\ ~archived /\ auth \in Managers
    /\ auth = "admin" => invite[i].role \in {"member", "guest"}
    /\ EffectiveStatus(i) = "pending"
    /\ Begin(s, [None EXCEPT !.op = "revoked", !.auth = auth, !.invite = i, !.old = invite[i]])

(* create_platform_user: account, tenant and default workspace membership *)
CreatePlatformUser(s, u) ==
    /\ default /\ ~archived /\ u \notin accounts
    /\ Begin(s, [None EXCEPT !.op = "claim", !.auth = "platform", !.who = u,
                             !.new = Member("member"), !.copy = member[u]])

(* _default_workspace_role_for_user *)
BootstrapRole ==
    IF ActiveFounders(member) \subseteq {Founder} THEN "founder" ELSE "admin"

(* init_db: _ensure_default_workspace_membership of the bootstrap user *)
Bootstrap(s) ==
    /\ default
    /\ Begin(s, [None EXCEPT !.op = "member", !.auth = "platform", !.who = Founder,
                             !.new = Member(BootstrapRole), !.copy = member[Founder]])

-----------------------------------------------------------------------------
(* The UPDATE or INSERT of a membership row. *)
Written(u, copy, new) ==
    [role   |-> IF new.role = copy.role THEN member[u].role ELSE new.role,
     status |-> IF new.status = copy.status THEN member[u].status ELSE new.status]

(* uq_workspace_memberships_active_founder_workspace_id *)
Indexed(m) == Cardinality(ActiveFounders(m)) <= 1

(* The membership that r writes over the one it has read. *)
Upsert(r) ==
    /\ r.copy = NoRow => member[r.who] = NoRow
    /\ LET row == Written(r.who, r.copy, r.new)
           m   == [member EXCEPT ![r.who] = row]
       IN /\ Indexed(m)
          /\ member' = m
          /\ by' = IF r.new.role # r.copy.role THEN [by EXCEPT ![r.who] = r.auth] ELSE by
          /\ overwritten' = (overwritten
                 \/ (member[r.who] = Member("founder") /\ row # Member("founder")))

(* The status column of the invite that r has read. *)
SetInvite(r, status) ==
    /\ invite' = [invite EXCEPT ![r.invite].status = status]
    /\ contested' = IF invite[r.invite] # r.old THEN contested \union {r.invite} ELSE contested

CommitMember(s) ==
    LET r == request[s] IN
    /\ r.op = "member"
    /\ Upsert(r) /\ Done(s)
    /\ UNCHANGED <<default, archived, tenant, accounts, invite, due, granted, contested, requests>>

(* Mutant: nobody looks whether the transfer has left a founder. *)
AnyFounders(m, u) == TRUE

(* founders_after, read in the transaction: the rows it wrote as they are   *)
(* now, the others as of its snapshot, with no founder but the old one.     *)
FoundersAfter(m, u) == u \in ActiveFounders(m)

CommitTransfer(s) ==
    LET r == request[s]
        m == [member EXCEPT ![r.from].role = "admin", ![r.who].role = "founder"]
    IN
    /\ r.op = "transfer"
    /\ Indexed(m) /\ FoundersAfter(m, r.who)
    /\ member' = m
    /\ by' = [by EXCEPT ![r.from] = r.auth, ![r.who] = r.auth]
    /\ Done(s)
    /\ UNCHANGED <<default, archived, tenant, accounts, invite, due, granted, contested,
                   overwritten, requests>>

CommitArchive(s) ==
    /\ request[s].op = "archive"
    /\ archived' = TRUE /\ Done(s)
    /\ UNCHANGED <<default, member, tenant, accounts, invite, due, historyVars, requests>>

CommitInvite(s, i) ==
    LET r == request[s]
        rest == IF r.invite = NoInvite THEN invite ELSE [invite EXCEPT ![r.invite].status = "expired"]
    IN
    /\ r.op = "invite" /\ invite[i] = NoInviteRow
    /\ \A j \in Invites : ~(rest[j].email = r.who /\ rest[j].status = "pending")
    /\ invite' = [rest EXCEPT ![i] = [email |-> r.who, role |-> r.new.role,
                                      status |-> "pending", by |-> r.auth]]
    /\ contested' = IF r.invite # NoInvite /\ invite[r.invite] # r.old
                    THEN contested \union {r.invite} ELSE contested
    /\ Done(s)
    /\ UNCHANGED <<default, archived, member, tenant, accounts, due, by, granted, overwritten,
                   requests>>

(* Mutant: the tenant membership of a new member is left to somebody else. *)
CommitJoinWithoutTenant(s) ==
    LET r == request[s] IN
    /\ r.op \in {"accept", "claim"}
    /\ Upsert(r)
    /\ r.op = "claim" => r.who \notin accounts
    /\ accounts' = accounts \union {r.who}
    /\ IF r.invite = NoInvite THEN UNCHANGED <<invite, contested, granted>>
       ELSE /\ SetInvite(r, "accepted")
            /\ granted' = [granted EXCEPT ![r.invite] = @ + 1]
    /\ Done(s)
    /\ UNCHANGED <<default, archived, tenant, due, requests>>

(* Account, tenant membership, workspace membership and invite. *)
CommitJoin(s) ==
    LET r == request[s] IN
    /\ r.op \in {"accept", "claim"}
    /\ Upsert(r)
    /\ r.op = "claim" => r.who \notin accounts
    /\ accounts' = accounts \union {r.who}
    /\ tenant' = tenant \union {r.who}
    /\ IF r.invite = NoInvite THEN UNCHANGED <<invite, contested, granted>>
       ELSE /\ SetInvite(r, "accepted")
            /\ granted' = [granted EXCEPT ![r.invite] = @ + 1]
    /\ Done(s)
    /\ UNCHANGED <<default, archived, due, requests>>

CommitEnd(s) ==
    LET r == request[s] IN
    /\ r.op \in {"expired", "revoked"}
    /\ SetInvite(r, r.op) /\ Done(s)
    /\ UNCHANGED <<default, archived, member, tenant, accounts, due, by, granted, overwritten,
                   requests>>

(* An index refuses, the re-check rolls back, or the client's request is    *)
(* torn down before its commit.                                             *)
Refuse(s) ==
    /\ request[s] # None /\ Done(s)
    /\ UNCHANGED <<tables, due, historyVars, requests>>

FallsDue(i) ==
    /\ invite[i].status = "pending" /\ i \notin due
    /\ due' = due \union {i}
    /\ UNCHANGED <<tables, request, historyVars, requests>>

-----------------------------------------------------------------------------
(* create_workspace and the default workspace of bootstrap start with a     *)
(* founder; an admin has been added since, and others perhaps removed.      *)
Init ==
    /\ default \in BOOLEAN /\ archived = FALSE
    /\ accounts \in {A \in SUBSET Users : {Founder, Admin} \subseteq A} /\ tenant = accounts
    /\ member = [u \in Users |-> CASE u = Founder -> Member("founder")
                                   [] u = Admin -> Member("admin")
                                   [] u \in accounts \ {Founder, Admin} -> Removed("guest")
                                   [] OTHER -> NoRow]
    /\ invite = [i \in Invites |-> NoInviteRow] /\ due = {}
    /\ request = [s \in Slots |-> None]
    /\ by = [u \in Users |-> "platform"]
    /\ granted = [i \in Invites |-> 0]
    /\ contested = {} /\ overwritten = FALSE /\ requests = 0

Commit(s) ==
    \/ CommitMember(s) \/ CommitTransfer(s) \/ CommitArchive(s) \/ CommitJoin(s) \/ CommitEnd(s)
    \/ \E i \in Invites : CommitInvite(s, i)

(* A principal's request on the workspace. *)
Manage(s, auth) ==
    \/ Archive(s, auth)
    \/ \E i \in Invites : RevokeInvite(s, auth, i)
    \/ \E u \in Users :
         \/ TransferFounder(s, auth, u) \/ RemoveMember(s, auth, u)
         \/ \E role \in {r \in Roles : Assignable(auth, r)} :
              \/ AddMember(s, auth, u, role) \/ CreateInvite(s, auth, u, role)
              \/ \E st \in {"active", "removed"} : UpdateMember(s, auth, u, role, st)

Read(s) ==
    \/ Bootstrap(s)
    \/ \E i \in Invites : AcceptInvite(s, i) \/ ClaimInvite(s, i) \/ ExpireInvite(s, i)
    \/ \E u \in Users : CreatePlatformUser(s, u)
    \/ \E auth \in {Authority(a) : a \in Users \union {Platform}} : Manage(s, auth)

Free == {s \in Slots : request[s] = None /\ requests < MaxRequests}

Next ==
    \/ \E s \in Free : Read(s)
    \/ \E s \in Slots \ Free : Commit(s) \/ Refuse(s)
    \/ \E i \in Invites : FallsDue(i)

Spec == Init /\ [][Next]_vars

-----------------------------------------------------------------------------
TypeOK ==
    /\ default \in BOOLEAN /\ archived \in BOOLEAN /\ overwritten \in BOOLEAN
    /\ member \in [Users -> {NoRow} \union [role : Roles, status : {"active", "removed"}]]
    /\ tenant \subseteq Users /\ accounts \subseteq Users
    /\ invite \in [Invites -> {NoInviteRow} \union
                     [email : Users, role : Roles \ {"founder"}, by : Managers,
                      status : {"pending", "accepted", "revoked", "expired"}]]
    /\ due \subseteq Invites /\ contested \subseteq Invites
    /\ by \in [Users -> Managers] /\ granted \in [Invites -> Nat]
    /\ requests \in 0..MaxRequests

(* The documentation's rule: every active workspace has exactly one active  *)
(* founder (spec/.../workspace_access_control.md).                          *)
OneActiveFounder == ~archived => Cardinality(ActiveFounders(member)) = 1

(* The founder is never lost or doubled: transfers that overlap with other  *)
(* transfers, with removals of their target and with bootstrap leave one    *)
(* active founder, unless a request that had read a plain member has        *)
(* written over the row of the founder it has become.                       *)
FounderStands == /\ Cardinality(ActiveFounders(member)) <= 1
                 /\ ~overwritten => Cardinality(ActiveFounders(member)) = 1

(* Nobody becomes an admin on an admin's word: not by an invite created,    *)
(* accepted and re-accepted later, nor by updates that cross.               *)
NoEscalation == \A u \in Users : member[u].role = "admin" => by[u] \in {"platform", "founder"}

(* An invite has one outcome: accepted, it has made its user a member once; *)
(* revoked or expired, it never has.  Excepted are invites that two         *)
(* requests wrote, the second over what it had not read.                    *)
InviteSettles ==
    \A i \in Invites \ contested :
        granted[i] = IF invite[i].status = "accepted" THEN 1 ELSE 0

(* Whoever is active in a workspace has an account and belongs to its tenant,     *)
(* without which no token of theirs resolves.                               *)
MembersInTenant ==
    \A u \in Users : member[u].status = "active" => u \in tenant /\ u \in accounts

=============================================================================
