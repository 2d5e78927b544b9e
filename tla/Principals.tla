------------------------------ MODULE Principals ------------------------------
(***************************************************************************)
(* Who a request acts for (core/auth.py, workspace_membership_service.py,  *)
(* api/deps.py, routers/auth.py), what a platform administrator does to    *)
(* accounts (platform_admin_service.py) and what the start of a process    *)
(* makes of them (core/bootstrap.py).                                      *)
(*                                                                         *)
(* Each is a function of the rows d that the request reads; one that       *)
(* writes gives the rows it leaves and its answer.  Workspaces has the     *)
(* requests that overlap.                                                  *)
(***************************************************************************)
EXTENDS AccessPolicy

NoId == "none"

Refused(why) == [ok |-> FALSE, why |-> why]

Answer(d, a) == [rows |-> d, answer |-> a]

(* Rows come in the order of created_at and id. *)
Eldest(S) == CHOOSE r \in S : \A x \in S : r.at <= x.at
Later(S)  == 1 + Cardinality(S)

Put(f, k, v) == [x \in DOMAIN f \union {k} |-> IF x = k THEN v ELSE f[x]]

-----------------------------------------------------------------------------
(* The tenant and the workspace of a request.                               *)

(* _get_active_tenant_membership; seats are tenant memberships *)
SeatsOf(d, u)   == {s \in d.seats : s.user = u /\ s.status = "active"}
SeatIn(d, u, t) == {s \in SeatsOf(d, u) : s.tenant = t}

(* resolve_active_tenant_membership: only a fallback may give way *)
SeatFor(d, u, t, fallback) ==
    IF t # NoId THEN SeatIn(d, u, t)
    ELSE IF SeatIn(d, u, fallback) # {} THEN SeatIn(d, u, fallback) ELSE SeatsOf(d, u)

(* resolve_workspace_tenant_id_hint *)
TenantHint(d, t, w) == IF t = NoId /\ w \in DOMAIN d.spaces THEN d.spaces[w].tenant ELSE t

(* resolve_auth_tenant_membership: users.tenant_id counts only when nothing *)
(* is asked for.                                                            *)
AuthSeat(d, u, t, w) ==
    SeatFor(d, u, TenantHint(d, t, w), IF t = NoId /\ w = NoId THEN d.users[u].home ELSE NoId)

(* _get_active_workspace_membership; rows are workspace memberships *)
RowsOf(d, u) == {r \in d.rows : r.user = u /\ r.status = "active"}

OpenIn(d, t) == {w \in DOMAIN d.spaces : d.spaces[w].tenant = t /\ d.spaces[w].open}

(* _resolve_explicit_workspace_membership_context *)
ExplicitRow(d, u, t, w) == {r \in RowsOf(d, u) : r.space = w /\ w \in OpenIn(d, t)}

(* _get_default_workspace *)
DefaultSpace(d, t) ==
    LET D == {w \in OpenIn(d, t) : d.spaces[w].default}
    IN  {w \in D : \A x \in D : d.spaces[w].at <= d.spaces[x].at}

DefaultRow(d, u, t) == {r \in RowsOf(d, u) : r.space \in DefaultSpace(d, t)}

(* resolve_active_workspace_membership_context *)
RowFor(d, u, t, w) ==
    IF w # NoId THEN ExplicitRow(d, u, t, w)
    ELSE IF DefaultRow(d, u, t) # {} THEN DefaultRow(d, u, t)
    ELSE {r \in RowsOf(d, u) : r.space \in OpenIn(d, t)}

(* resolve_auth_context *)
ContextIn(u, seat, row) ==
    [ok |-> TRUE, kind |-> "session", user |-> u, seat |-> seat, row |-> row,
     tenant |-> seat.tenant, space |-> row.space,
     may |-> ResolveCapabilities(row.role, row.override)]

AuthContext(d, u, t, w) ==
    LET S == AuthSeat(d, u, t, w)
        R == IF S = {} THEN {} ELSE RowFor(d, u, Eldest(S).tenant, w)
    IN  IF S = {} THEN Refused("no tenant membership")
        ELSE IF R = {} THEN Refused("no workspace membership")
        ELSE ContextIn(u, Eldest(S), Eldest(R))

-----------------------------------------------------------------------------
(* Passwords.  A stored one is a hash or, from older versions, plain text.  *)

HashOf(p) == [kind |-> "pbkdf2", of |-> p]
Verifies(h, p) == h.of = p
IsLegacy(h) == h.kind # "pbkdf2"

IsLegacyAdmin(d, u) == u = "user_default" /\ d.users[u].name = d.settings.name

(* verify_legacy_bootstrap_admin_password: the configured one will do too *)
LegacyAdminPassword(d, u, p) ==
    IsLegacyAdmin(d, u) /\ IsLegacy(d.users[u].hash) /\ p \in {d.users[u].hash.of, d.settings.password}

SetPassword(d, u, p, forced) ==
    [d EXCEPT !.users[u].hash = HashOf(p), !.users[u].mustChange = forced]

(* verify_login *)
LoginUsers(d, name, p) ==
    {u \in DOMAIN d.users : /\ d.users[u].name = name /\ d.users[u].active
                            /\ Verifies(d.users[u].hash, p) \/ LegacyAdminPassword(d, u, p)}

(* login: a plain text is replaced by the hash of what was accepted, also   *)
(* if no context is found.                                                  *)
Login(d, name, p) ==
    IF LoginUsers(d, name, p) = {} THEN Answer(d, Refused("credentials"))
    ELSE LET u == CHOOSE x \in LoginUsers(d, name, p) : TRUE
             e == IF IsLegacy(d.users[u].hash)
                  THEN SetPassword(d, u, p, d.users[u].mustChange) ELSE d
         IN  Answer(e, AuthContext(e, u, NoId, NoId))

-----------------------------------------------------------------------------
(* Tokens and API keys.                                                     *)

(* create_access_token: what the later requests use of it; good until it    *)
(* expires.                                                                 *)
Token(c, jti) == [sub |-> c.user, tenant |-> c.tenant, space |-> c.space, jti |-> jti, good |-> TRUE]
NoToken == [sub |-> NoId, tenant |-> NoId, space |-> NoId, jti |-> NoId, good |-> FALSE]

(* require_user *)
RequireUser(d, token) ==
    IF token = NoToken THEN Refused("no token")
    ELSE IF ~token.good \/ token.jti \in d.revoked THEN Refused("token")
    ELSE IF token.sub \notin DOMAIN d.users THEN Refused("no user")
    ELSE IF ~d.users[token.sub].active THEN Refused("no user")
    ELSE [ok |-> TRUE, user |-> token.sub]

(* resolve_session_auth_context *)
SessionContext(d, token) ==
    LET s == RequireUser(d, token)
    IN  IF s.ok THEN AuthContext(d, s.user, token.tenant, token.space) ELSE s

(* require_api_key_owner *)
KeyWorks(d, k) == /\ k \in DOMAIN d.keys /\ d.keys[k].live
                  /\ d.keys[k].owner \in DOMAIN d.users /\ d.users[d.keys[k].owner].active

KeyContext(d, k) ==
    IF ~KeyWorks(d, k) THEN Refused("key")
    ELSE LET c == AuthContext(d, d.keys[k].owner, d.keys[k].tenant, d.keys[k].space)
         IN  IF c.ok THEN [c EXCEPT !.kind = "api_key"] ELSE c

(* require_principal: a token that fails does not give way to the key *)
Principal(d, token, k) ==
    IF token # NoToken THEN SessionContext(d, token)
    ELSE IF k # NoId THEN KeyContext(d, k) ELSE Refused("no credentials")

(* require_active_tenant_context: a key needs no workspace *)
TenantUser(d, token, k) ==
    IF token # NoToken THEN SessionContext(d, token)
    ELSE IF k = NoId THEN Refused("no credentials")
    ELSE IF ~KeyWorks(d, k) THEN Refused("key")
    ELSE IF SeatIn(d, d.keys[k].owner, d.keys[k].tenant) = {} THEN Refused("no tenant membership")
    ELSE [ok |-> TRUE, user |-> d.keys[k].owner]

(* change_password: written before the login context is looked for *)
ChangePassword(d, token, current, new) ==
    LET s == RequireUser(d, token)
    IN  IF ~s.ok THEN Answer(d, s)
        ELSE IF ~Verifies(d.users[s.user].hash, current) THEN Answer(d, Refused("password"))
        ELSE LET e == SetPassword(d, s.user, new, FALSE)
             IN  Answer(e, AuthContext(e, s.user, NoId, NoId))

(* switch_context *)
SwitchContext(d, token, w) ==
    LET c == SessionContext(d, token)
    IN  IF c.ok THEN AuthContext(d, c.user, c.tenant, w) ELSE c

(* logout, revoke_token *)
Logout(d, token, k) ==
    LET c == TenantUser(d, token, k)
    IN  IF ~c.ok THEN Answer(d, c)
        ELSE IF token = NoToken THEN Answer(d, Refused("no token"))
        ELSE Answer([d EXCEPT !.revoked = @ \union {token.jti}], c)

(* create_api_key, list_api_keys, revoke_api_key_endpoint *)
ManagesKeys(p) == p.ok /\ p.may["can_manage_api_keys"]

KeysOf(d, p) == {k \in DOMAIN d.keys : d.keys[k].tenant = p.tenant /\ d.keys[k].space = p.space}

CreateKey(d, p, k) ==
    IF ~ManagesKeys(p) THEN d
    ELSE [d EXCEPT !.keys = Put(@, k, [tenant |-> p.tenant, space |-> p.space,
                                       owner |-> p.user, live |-> TRUE])]

RevokeKey(d, p, k) ==
    IF ManagesKeys(p) /\ k \in KeysOf(d, p) THEN [d EXCEPT !.keys[k].live = FALSE] ELSE d

-----------------------------------------------------------------------------
(* The platform administrator.                                              *)

(* require_platform_admin_session *)
IsPlatformAdmin(d, token, k) ==
    LET s == RequireUser(d, token) IN s.ok /\ d.users[s.user].platform

NewSeat(d, t, u, role) ==
    [tenant |-> t, user |-> u, role |-> role, status |-> "active", at |-> Later(d.seats)]
NewRow(d, w, u, role) ==
    [space |-> w, user |-> u, role |-> role, status |-> "active", override |-> <<>>,
     at |-> Later(d.rows)]

(* create_platform_user: in the tenant of the administrator's own account *)
HomeFor(d, t) == IF DefaultSpace(d, t) # {} THEN DefaultSpace(d, t)
                 ELSE {w \in OpenIn(d, t) : \A x \in OpenIn(d, t) : d.spaces[w].at <= d.spaces[x].at}

Taken(d, field, v) == v # NoId /\ \E u \in DOMAIN d.users : d.users[u][field] = v

CreateUser(d, actor, u, account) ==
    LET t == d.users[actor].home
    IN  IF Taken(d, "name", account.name) \/ Taken(d, "email", account.email) \/ HomeFor(d, t) = {}
        THEN d
        ELSE [d EXCEPT !.users = Put(@, u, [account EXCEPT !.home = t]),
                       !.seats = @ \union {NewSeat(d, t, u, "member")},
                       !.rows  = @ \union {NewRow(d, CHOOSE w \in HomeFor(d, t) : TRUE, u, "member")}]

(* patch_platform_user: the flags given, whoever's they are *)
PatchUser(d, u, active, creator, platform) ==
    [d EXCEPT !.users[u].active = active, !.users[u].creator = creator,
              !.users[u].platform = platform]

(* reset_platform_user_password *)
ResetPassword(d, u, temporary) == SetPassword(d, u, temporary, TRUE)

-----------------------------------------------------------------------------
(* init_db, in the order of the code.                                       *)
Home == "tenant_default"

Named(d) == {u \in DOMAIN d.users : d.users[u].name = d.settings.name}

(* The administrator that is configured is not there and its id is taken.   *)
CannotStart(d) == Named(d) = {} /\ "user_default" \in DOMAIN d.users

EnsureAdmin(d) ==
    IF Named(d) = {}
    THEN [d EXCEPT !.users = Put(@, "user_default",
            [name |-> d.settings.name, email |-> NoId, home |-> Home, active |-> TRUE,
             creator |-> TRUE, platform |-> TRUE, mustChange |-> FALSE,
             hash |-> HashOf(d.settings.password)])]
    ELSE LET u == CHOOSE x \in Named(d) : TRUE IN PatchUser(d, u, TRUE, TRUE, TRUE)

(* _ensure_default_workspace: by its flag, its id, its slug *)
HomeSpaces(d) ==
    LET W == {w \in DOMAIN d.spaces : d.spaces[w].tenant = Home}
        F == {w \in W : d.spaces[w].default}
        I == W \intersect {"workspace_default_tenant_default"}
        S == {w \in W : d.spaces[w].slug = "default"}
    IN  IF F # {} THEN F ELSE IF I # {} THEN I ELSE S

HomeSpace(d) == IF HomeSpaces(d) = {} THEN "workspace_default_tenant_default"
                ELSE CHOOSE w \in HomeSpaces(d) : TRUE

EnsureSpace(d) ==
    LET w == HomeSpace(d)
    IN  IF HomeSpaces(d) # {} THEN [d EXCEPT !.spaces[w].open = TRUE, !.spaces[w].default = TRUE]
        ELSE [d EXCEPT !.spaces = Put(@, w,
                [tenant |-> Home, default |-> TRUE, open |-> TRUE, slug |-> "default",
                 provider |-> NoId, at |-> Later(DOMAIN d.spaces)])]

(* _ensure_membership *)
EnsureSeat(d, u) ==
    LET S == {s \in d.seats : s.tenant = Home /\ s.user = u}
    IN  [d EXCEPT !.seats = IF S = {} THEN @ \union {NewSeat(d, Home, u, "owner")}
                            ELSE (@ \ S) \union {[s EXCEPT !.role = "owner", !.status = "active"] : s \in S}]

(* _ensure_default_workspace_membership: admin beside another founder *)
StartRole(d, w, u) ==
    LET F == {r \in d.rows : r.space = w /\ r.role = "founder" /\ r.status = "active"}
    IN  IF F = {} THEN "founder" ELSE IF Eldest(F).user = u THEN "founder" ELSE "admin"

EnsureRow(d, w, u) ==
    LET R == {r \in d.rows : r.space = w /\ r.user = u}
        role == StartRole(d, w, u)
    IN  [d EXCEPT !.rows = IF R = {} THEN @ \union {NewRow(d, w, u, role)}
                           ELSE (@ \ R) \union {[r EXCEPT !.role = role, !.status = "active"] : r \in R}]

(* The provider the environment configures, and                             *)
(* _normalize_provider_workspace_scope.                                     *)
HomeProviders(d) == {p \in DOMAIN d.providers : d.providers[p].tenant = Home}
SystemProviders(d) == {p \in HomeProviders(d) : d.providers[p].system}
SharedDefaults(d) == {p \in HomeProviders(d) : d.providers[p].space = NoId /\ d.providers[p].default}

Normalized(d) ==
    [d EXCEPT !.providers = [p \in DOMAIN @ |->
        IF p \in SystemProviders(d) THEN [@[p] EXCEPT !.space = NoId, !.share = "none"] ELSE @[p]]]

SystemProvider(d) == IF SystemProviders(d) = {} THEN "provider_system_default"
                     ELSE CHOOSE p \in SystemProviders(d) : TRUE

WithSystem(d) ==
    [d EXCEPT !.providers = Put(@, SystemProvider(d),
        [tenant |-> Home, space |-> NoId, system |-> TRUE, enabled |-> TRUE, share |-> "none",
         default |-> IF SystemProviders(d) = {} THEN SharedDefaults(d) = {}
                     ELSE d.providers[SystemProvider(d)].default])]

(* The workspace's default provider: never the system's; if there is none,  *)
(* the tenant's.                                                            *)
SpaceProvider(d, w) ==
    LET own   == IF d.spaces[w].provider = SystemProvider(d) THEN NoId ELSE d.spaces[w].provider
        other == IF SharedDefaults(d) = {} THEN NoId ELSE CHOOSE p \in SharedDefaults(d) : TRUE
    IN  IF own = NoId /\ other # SystemProvider(d) THEN other ELSE own

EnsureProviders(d, w) ==
    IF ~d.settings.llm THEN Normalized(d)
    ELSE [Normalized(WithSystem(d)) EXCEPT !.spaces[w].provider = SpaceProvider(d, w)]

Start(d) ==
    LET e == EnsureSpace(EnsureAdmin([d EXCEPT !.tenants = Put(@, Home, "active")]))
        u == CHOOSE x \in Named(e) : TRUE
        w == HomeSpace(e)
    IN  EnsureProviders(EnsureRow(EnsureSeat(e, u), w, u), w)

=============================================================================
