------------------------------- MODULE Portraits -------------------------------
(***************************************************************************)
(* What the workspaces of a tenant look like from three sides: to a        *)
(* principal (workspace_admin_service.py, workspace_invite_service.py), in *)
(* the lists of the platform administrator (platform_admin_service.py) and *)
(* in the portraits that explain somebody's access                         *)
(* (access_portrait_service.py).  The rows d are those of Principals, with *)
(* the invites and the resources of the workspaces.                        *)
(***************************************************************************)
EXTENDS Principals

-----------------------------------------------------------------------------
(* A principal p and the workspaces.                                        *)

(* list_accessible_workspaces: archived ones are listed too *)
Accessible(d, p) == {r \in RowsOf(d, p.user) : d.spaces[r.space].tenant = p.tenant}

(* _is_platform_admin_actor: not with a key *)
PlatformActor(d, p) == p.kind = "session" /\ d.users[p.user].platform

(* _require_member_management_actor, _require_invite_management_actor,      *)
(* _require_founder_transfer_actor, _require_archive_actor                  *)
Needs == [can_manage_members   |-> {"founder", "admin"}, can_manage_invites    |-> {"founder", "admin"},
          can_transfer_founder |-> {"founder"},          can_archive_workspace |-> {"founder"}]

Acts(d, p, c) == PlatformActor(d, p) \/ (p.row.role \in Needs[c] /\ p.may[c])

(* _get_workspace_for_admin_operation, _get_workspace_for_invite_admin *)
Administered(d, p, w) ==
    /\ w \in DOMAIN d.spaces /\ d.spaces[w].open
    /\ w = p.space \/ PlatformActor(d, p)

(* _require_workspace_create_actor *)
MayCreateSpace(d, p) == p.kind = "session" /\ (d.users[p.user].platform \/ d.users[p.user].creator)

(* update_workspace_metadata: it does not ask if the workspace is open *)
SlugFree(d, w, slug) ==
    \A x \in DOMAIN d.spaces \ {w} :
        ~(d.spaces[x].tenant = d.spaces[w].tenant /\ d.spaces[x].slug = slug)

Rename(d, p, w, slug) ==
    IF /\ w \in DOMAIN d.spaces
       /\ PlatformActor(d, p) \/ (w = p.space /\ p.may["can_edit_workspace_metadata"])
       /\ SlugFree(d, w, slug)
    THEN [d EXCEPT !.spaces[w].slug = slug] ELSE d

(* list_workspace_members, _list_workspace_members: of any status *)
MembersOf(d, w) == {r \in d.rows : r.space = w}

(* _effective_status *)
InviteStatus(i) == IF i.status = "pending" /\ i.due THEN "expired" ELSE i.status

InvitesOf(d, w) == {i \in DOMAIN d.invites : d.invites[i].space = w}

(* list_workspace_invites *)
ListInvites(d, p, w) ==
    IF Administered(d, p, w) /\ Acts(d, p, "can_manage_invites")
    THEN [i \in InvitesOf(d, w) |-> InviteStatus(d.invites[i])] ELSE <<>>

(* preview_workspace_invite: whoever has the link *)
Preview(d, i) ==
    IF i \in DOMAIN d.invites /\ InviteStatus(d.invites[i]) = "pending"
    THEN [valid |-> TRUE, role |-> d.invites[i].role] ELSE [valid |-> FALSE, role |-> NoId]

(* accept_workspace_invite in one piece: the tenant and the workspace are   *)
(* joined, the login moves to that tenant, the answer is the new context.   *)
Joinable(d, u, i) ==
    /\ i \in DOMAIN d.invites /\ InviteStatus(d.invites[i]) = "pending"
    /\ d.spaces[d.invites[i].space].open
    /\ d.users[u].email # NoId /\ d.users[u].email = d.invites[i].email
    /\ \A r \in RowsOf(d, u) : r.space # d.invites[i].space

(* _ensure_active_tenant_membership *)
JoinTenant(d, u, t) ==
    LET S == {s \in d.seats : s.tenant = t /\ s.user = u}
    IN  [d EXCEPT !.seats = IF S = {} THEN @ \union {NewSeat(d, t, u, "member")}
                            ELSE (@ \ S) \union {[s EXCEPT !.status = "active"] : s \in S}]

(* _upsert_workspace_membership *)
JoinSpace(d, u, w, role) ==
    LET R == {r \in d.rows : r.space = w /\ r.user = u}
    IN  [d EXCEPT !.rows = IF R = {} THEN @ \union {NewRow(d, w, u, role)}
                           ELSE (@ \ R) \union {[r EXCEPT !.role = role, !.status = "active"] : r \in R}]

Join(d, u, i) ==
    LET w == d.invites[i].space
        t == d.spaces[w].tenant
        e == [JoinSpace(JoinTenant(d, u, t), u, w, d.invites[i].role)
                EXCEPT !.invites[i].status = "accepted", !.users[u].home = t]
    IN  IF Joinable(d, u, i) THEN Answer(e, AuthContext(e, u, t, w))
        ELSE Answer(IF i \in DOMAIN d.invites /\ InviteStatus(d.invites[i]) = "expired"
                    THEN [d EXCEPT !.invites[i].status = "expired"] ELSE d, Refused("invite"))

-----------------------------------------------------------------------------
(* The platform administrator's lists.                                      *)

(* list_platform_users, _serialize_platform_user_detail *)
UserSummary(d, u) == [seats |-> Cardinality({s.tenant : s \in {x \in d.seats : x.user = u}}),
                      rows  |-> Cardinality({r.space : r \in {x \in d.rows : x.user = u}})]
UserDetail(d, u) == [seats |-> {s \in d.seats : s.user = u}, rows |-> {r \in d.rows : r.user = u}]

(* _load_active_founder_map, list_active_founder_memberships *)
FoundersOf(d, w) == {r \in MembersOf(d, w) : r.role = "founder" /\ r.status = "active"}
FounderOf(d, w)  == IF FoundersOf(d, w) = {} THEN NoId ELSE Eldest(FoundersOf(d, w)).user

(* list_platform_workspaces, _load_workspace_member_counts *)
SpaceSummary(d, w) ==
    [founder |-> FounderOf(d, w), members |-> Cardinality(MembersOf(d, w)),
     active  |-> Cardinality({r \in MembersOf(d, w) : r.status = "active"})]

(* list_platform_tenants, get_platform_tenant_detail *)
TenantSummary(d, t) ==
    [users  |-> Cardinality({s.user : s \in {x \in d.seats : x.tenant = t /\ x.status = "active"}}),
     spaces |-> Cardinality({w \in DOMAIN d.spaces : d.spaces[w].tenant = t})]
TenantUsers(d, t) == {s \in d.seats : s.tenant = t}

-----------------------------------------------------------------------------
(* Portraits.  A table is a function of its ids; counts are of those rows   *)
(* of the workspace that have a value.                                      *)
InSpace(table, t, w) == {x \in DOMAIN table : table[x].tenant = t /\ table[x].space = w}
HowMany(table, S, field, v) == Cardinality({x \in S : table[x][field] = v})

ActiveRun == {"accepted", "queued", "retrieving", "answering"}

(* Providers count by the workspace they are stored with, whatever their    *)
(* sharing says and whether they are enabled.                               *)
ProviderCounts(d, t, w) ==
    LET P == {p \in DOMAIN d.providers : d.providers[p].tenant = t}
        shared == HowMany(d.providers, P, "space", NoId)
        bound  == HowMany(d.providers, P, "space", w)
    IN  [total |-> Cardinality(P), shared |-> shared, bound |-> bound, accessible |-> shared + bound]

VisibilityCounts(table, S) == [v \in Visibilities |-> HowMany(table, S, "visibility", v)]

(* Counts(table) of what somebody, or anybody, has in the workspace *)
RunCounts(d, t, w, who) ==
    LET R == {r \in InSpace(d.runs, t, w) : d.runs[r].owner \in who}
        S == {s \in InSpace(d.sessions, t, w) : d.sessions[s].owner \in who}
    IN  [sessions |-> Cardinality(S), runs |-> Cardinality(R),
         active |-> Cardinality({r \in R : d.runs[r].status \in ActiveRun})]

(* _build_workspace_resource_scope; the rules of a user add what it owns *)
SpaceRules(d, t, w) ==
    LET K == InSpace(d.keys, t, w)
        B == InSpace(d.kbs, t, w)
        S == InSpace(d.skills, t, w)
    IN  [providers |-> ProviderCounts(d, t, w),
         keys      |-> [total |-> Cardinality(K), active |-> HowMany(d.keys, K, "live", TRUE)],
         kbs       |-> [total |-> Cardinality(B), by |-> VisibilityCounts(d.kbs, B)],
         skills    |-> [total |-> Cardinality(S), by |-> VisibilityCounts(d.skills, S),
                        active |-> HowMany(d.skills, S, "active", TRUE)],
         runs      |-> RunCounts(d, t, w, DOMAIN d.users)]

(* _build_user_resource_rules *)
UserRules(d, u, t, w) ==
    [scope |-> SpaceRules(d, t, w),
     keys  |-> HowMany(d.keys, InSpace(d.keys, t, w), "owner", u),
     kbs   |-> HowMany(d.kbs, InSpace(d.kbs, t, w), "owner", u),
     skills |-> HowMany(d.skills, InSpace(d.skills, t, w), "owner", u),
     runs  |-> RunCounts(d, t, w, {u})]

(* _build_user_flag_explainability: each is a reason for or against *)
Facts == {"active", "platform", "creates", "password"}

FlagsFor(d, u) ==
    LET a == d.users[u]
    IN  {f \in Facts : \/ f = "active" /\ a.active
                       \/ f = "platform" /\ a.platform
                       \/ f = "creates" /\ (a.creator \/ a.platform)
                       \/ f = "password" /\ ~a.mustChange}

(* get_platform_user_access_portrait: the context is looked for whether or  *)
(* not the account is active.                                               *)
UserPortrait(d, u, t, w) ==
    LET c == AuthContext(d, u, t, w)
    IN  [raw     |-> UserDetail(d, u),
         control |-> d.users[u].active /\ d.users[u].platform,
         creates |-> d.users[u].active /\ (d.users[u].creator \/ d.users[u].platform),
         context |-> c,
         source  |-> IF t # NoId \/ w # NoId THEN "explicit" ELSE "login_default",
         allowed |-> FlagsFor(d, u) \union (IF c.ok THEN {"context"} ELSE {}),
         denied  |-> (Facts \ FlagsFor(d, u)) \union (IF c.ok THEN {} ELSE {c.why}),
         rules   |-> IF c.ok THEN {UserRules(d, u, c.tenant, c.space)} ELSE {}]

(* get_platform_workspace_access_portrait: a member is shown with what its  *)
(* role may do even when it has been removed.                               *)
SpacePortrait(d, w) ==
    LET M == MembersOf(d, w)
        A == {r \in M : r.status = "active"}
    IN  [founder |-> FounderOf(d, w),
         total   |-> Cardinality(M),
         active  |-> Cardinality(A),
         byRole  |-> [role \in Roles |-> Cardinality({r \in A : r.role = role})],
         sound   |-> Cardinality(FoundersOf(d, w)) = 1,
         members |-> {[user |-> r.user, status |-> r.status,
                       may |-> ResolveCapabilities(r.role, r.override)] : r \in M},
         invites |-> [s \in {"pending", "accepted", "expired", "revoked"} |->
                        Cardinality({i \in InvitesOf(d, w) : InviteStatus(d.invites[i]) = s})],
         rules   |-> SpaceRules(d, d.spaces[w].tenant, w)]

=============================================================================
