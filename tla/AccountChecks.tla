----------------------------- MODULE AccountChecks -----------------------------
(***************************************************************************)
(* What Principals and Portraits promise, over small sets of rows: three   *)
(* workspaces in two tenants, a user with every kind of membership in      *)
(* them, the administrator and a key.  TLC evaluates each assumption when  *)
(* it reads the module.                                                    *)
(***************************************************************************)
EXTENDS Portraits

LOCAL Tenants == {"tenant_default", "t2"}
LOCAL Hints   == Tenants \union {NoId}
LOCAL Wanted  == {"w1", "w2", "w3", "gone", NoId}

LOCAL Space(t, default, open, slug, at) ==
    [tenant |-> t, default |-> default, open |-> open, slug |-> slug, provider |-> NoId, at |-> at]

(* w1 is the default of the first tenant, w2 another one there, w3 the      *)
(* default of the second.                                                   *)
LOCAL Spaces(open) == [w1 |-> Space("tenant_default", TRUE, TRUE, "default", 1),
                       w2 |-> Space("tenant_default", FALSE, "w2" \in open, "two", 2),
                       w3 |-> Space("t2", TRUE, "w3" \in open, "three", 3)]

LOCAL Account(name, email, home, flags) ==
    [name |-> name, email |-> email, home |-> home, active |-> "active" \in flags,
     creator |-> "creator" \in flags, platform |-> "platform" \in flags,
     mustChange |-> "must" \in flags, hash |-> HashOf(name)]

LOCAL Admin0 == Account("admin", NoId, "tenant_default", {"active", "creator", "platform"})

LOCAL SeatStates == {"none", "active", "removed"}
LOCAL RowStates  == {"none", "member", "admin", "left"}

LOCAL Seats(st, firstIsNewer) ==
    {[tenant |-> t, user |-> "u", role |-> "member", status |-> st[t],
      at |-> IF (t = "t2") = firstIsNewer THEN 1 ELSE 2] : t \in {x \in Tenants : st[x] # "none"}}

LOCAL RowOf(w, at, s) == [space |-> w, user |-> "u", role |-> IF s = "admin" THEN "admin" ELSE "member",
                          status |-> IF s = "left" THEN "removed" ELSE "active",
                          override |-> <<>>, at |-> at]

LOCAL Order == [w1 |-> 3, w2 |-> 2, w3 |-> 1]
LOCAL Rows(st) == {RowOf(w, Order[w], st[w]) : w \in {x \in DOMAIN Order : st[x] # "none"}}

LOCAL World(home, seats, rows, open) ==
    [settings |-> [name |-> "admin", password |-> "configured", llm |-> TRUE],
     tenants |-> [t \in Tenants |-> "active"],
     users   |-> [u |-> Account("u", "u@x", home, {"active"}), user_default |-> Admin0],
     spaces  |-> Spaces(open), seats |-> seats, rows |-> rows,
     keys |-> <<>>, revoked |-> {}, providers |-> <<>>, invites |-> <<>>,
     kbs |-> <<>>, skills |-> <<>>, sessions |-> <<>>, runs |-> <<>>]

LOCAL Worlds ==
    {World(h, Seats(s, n), Rows(r), o) :
        h \in Tenants, s \in [Tenants -> SeatStates], n \in BOOLEAN,
        r \in [{"w1", "w2", "w3"} -> RowStates], o \in {{}, {"w2"}, {"w2", "w3"}}}

(* Fewer of them, where two are compared. *)
LOCAL Few ==
    {World(h, Seats(s, TRUE), Rows(r), o) :
        h \in Tenants, s \in [Tenants -> {"none", "active"}],
        r \in [{"w1", "w2", "w3"} -> {"none", "member", "left"}], o \in {{}, {"w2", "w3"}}}

LOCAL Holds(d, u, c) ==
    /\ [c.row EXCEPT !.override = <<>>] \in d.rows /\ c.seat \in d.seats
    /\ c.row.user = u /\ c.seat.user = u
    /\ c.row.status = "active" /\ c.seat.status = "active"
    /\ d.spaces[c.space].open /\ d.spaces[c.space].tenant = c.tenant

(* A context is always held: an active membership in the tenant and one in  *)
(* an open workspace of that tenant; and what was asked for is what is      *)
(* given, never another workspace or tenant in its place                    *)
(* (resolve_auth_context).                                                  *)
ASSUME ContextsAreHeld ==
    \A d \in Worlds, t \in Hints, w \in Wanted :
        LET c == AuthContext(d, "u", t, w)
        IN  c.ok => /\ Holds(d, "u", c)
                    /\ t # NoId => c.tenant = t
                    /\ w # NoId => c.space = w

(* Asking for a workspace finds it exactly when it is held, in whatever     *)
(* tenant it is.                                                            *)
ASSUME AskedForIsFound ==
    \A d \in Worlds, w \in {"w1", "w2", "w3"} :
        AuthContext(d, "u", NoId, w).ok <=>
            \E r \in RowsOf(d, "u"), s \in SeatsOf(d, "u") :
                r.space = w /\ s.tenant = d.spaces[w].tenant /\ d.spaces[w].open

(* A login settles on a tenant first and does not look further: somebody    *)
(* who could enter a workspace of another tenant by its name may have no    *)
(* login, and no token to name it with.                                     *)
ASSUME LoginLooksInOneTenant ==
    /\ \A d \in Worlds :
         LET home   == d.users["u"].home
             chosen == IF SeatIn(d, "u", home) # {} THEN SeatIn(d, "u", home) ELSE SeatsOf(d, "u")
         IN  Login(d, "u", "u").answer.ok <=>
                chosen # {} /\ \E r \in RowsOf(d, "u") : r.space \in OpenIn(d, Eldest(chosen).tenant)
    /\ \E d \in Worlds : /\ ~Login(d, "u", "u").answer.ok
                         /\ \E w \in Wanted : AuthContext(d, "u", NoId, w).ok

(* A token means its workspace for as long as it lives: whatever has become *)
(* of the memberships, a later request acts there, with the role the user   *)
(* has by then, or not at all.                                              *)
ASSUME TokensKeepTheirWorkspace ==
    \A d \in Few : LET c == Login(d, "u", "u").answer
                   IN  c.ok => \A e \in Few :
                          LET s == SessionContext(e, Token(c, "j"))
                          IN  s.ok => Holds(e, "u", s) /\ s.space = c.space /\ s.tenant = c.tenant

(* Who has left a workspace can neither switch away from it nor log the     *)
(* token out, and the token is good again with the membership.              *)
ASSUME LeftTokensSleep ==
    \A d \in Few : LET c == Login(d, "u", "u").answer
                       k == Token(c, "j")
                   IN  c.ok => \A e \in Few : ~SessionContext(e, k).ok =>
                          /\ \A w \in Wanted : ~SwitchContext(e, k, w).ok
                          /\ Logout(e, k, NoId).rows = e
                          /\ LET back == [e EXCEPT !.seats = d.seats, !.rows = d.rows, !.spaces = d.spaces]
                             IN  /\ SessionContext(back, k).ok
                                 /\ ~SessionContext(Logout(back, k, NoId).rows, k).ok

(* A new password is in force even if the answer is a refusal, and no token *)
(* of the old one is put out: the flag that a reset leaves stops nothing.   *)
ASSUME PasswordsAndTokens ==
    /\ \A d \in Few, w \in {"w1", "w2", "w3"} :
         LET c == AuthContext(d, "u", NoId, w)
             k == Token(c, "j")
             e == ChangePassword(d, k, "u", "new")
         IN  c.ok => /\ ~ChangePassword(d, k, "other", "new").answer.ok
                     /\ LoginUsers(e.rows, "u", "new") = {"u"} /\ LoginUsers(e.rows, "u", "u") = {}
                     /\ SessionContext(e.rows, k) = c
                     /\ SessionContext(ResetPassword(d, "u", "tmp"), k) = c
    /\ \E d \in Few : LET c == AuthContext(d, "u", NoId, "w3")
                      IN  c.ok /\ ~ChangePassword(d, Token(c, "j"), "u", "new").answer.ok

(* A stored plain text is gone after the first login it lets in, and from   *)
(* then on only the password of that login is good.  The administrator's    *)
(* account is let in with the configured password as well.                  *)
ASSUME PlainTextOnce ==
    \A d \in {World("tenant_default", {}, {}, {})}, name \in {"u", "admin"},
       p \in {"plain", "configured", "other"} :
        LET old == [d EXCEPT !.users = [x \in DOMAIN @ |->
                       [@[x] EXCEPT !.hash = [kind |-> "plain", of |-> "plain"]]]]
            new == Login(old, name, p).rows
        IN  IF LoginUsers(old, name, p) = {}
            THEN new = old /\ p # "plain" /\ (p = "configured" => name = "u")
            ELSE /\ p = "configured" => name = "admin"
                 /\ \A q \in {"plain", "configured", "other"} :
                       (LoginUsers(new, name, q) # {}) <=> (q = p)

-----------------------------------------------------------------------------
LOCAL Keyed(d) ==
    LET c == AuthContext(d, "u", NoId, "w1") IN CreateKey(d, c, "k1")

(* A key works in the workspace it was made in and nowhere else, with what  *)
(* its owner may do there by now; and whoever manages keys there revokes    *)
(* it.  A key made with a key outlives it.                                  *)
ASSUME KeysStayInTheirWorkspace ==
    /\ \A d \in Few, e \in Few :
         LET f == [e EXCEPT !.keys = Keyed(d).keys]
             c == KeyContext(f, "k1")
         IN  /\ c.ok => c.space = "w1" /\ c.user = "u" /\ Holds(f, "u", c)
             /\ "k1" \in DOMAIN f.keys =>
                    /\ c.ok <=> AuthContext(e, "u", NoId, "w1").ok
                    /\ TenantUser(f, NoToken, "k1").ok <=> SeatIn(e, "u", "tenant_default") # {}
             /\ ~KeyContext(RevokeKey(f, c, "k1"), "k1").ok
    /\ \E d \in Few : LET c == KeyContext(Keyed(d), "k1")
                      IN  c.ok /\ KeyContext(RevokeKey(CreateKey(Keyed(d), c, "k2"), c, "k1"), "k2").ok
    /\ \A d \in Few, w \in {"w2", "w3"} :
         LET p == AuthContext(d, "u", NoId, w) IN p.ok => RevokeKey(Keyed(d), p, "k1") = Keyed(d)

(* A token that fails is not made up for by a key; and a key is no way to   *)
(* the platform's endpoints.                                                *)
ASSUME CredentialsDoNotMix ==
    \A d \in Few :
        LET bad == [sub |-> "u", tenant |-> NoId, space |-> NoId, jti |-> "j", good |-> FALSE]
        IN  /\ ~Principal(Keyed(d), bad, "k1").ok /\ ~TenantUser(Keyed(d), bad, "k1").ok
            /\ Principal(Keyed(d), NoToken, "k1") = KeyContext(Keyed(d), "k1")
            /\ ~IsPlatformAdmin(PatchUser(Keyed(d), "u", TRUE, TRUE, TRUE), NoToken, "k1")

-----------------------------------------------------------------------------
LOCAL Flags == [active : BOOLEAN, creator : BOOLEAN, platform : BOOLEAN]

LOCAL AdminRows == {{}} \union
    {{[space |-> "w1", user |-> a, role |-> "founder", status |-> s, override |-> <<>>, at |-> 9]} :
        a \in {"u", "user_default"}, s \in {"active", "removed"}}

LOCAL LeftSeat == {[tenant |-> Home, user |-> "user_default", role |-> "member",
                    status |-> "removed", at |-> 7]}

LOCAL Started ==
    {[World(h, LeftSeat \union Seats([t \in Tenants |-> "active"], TRUE), r, {"w2", "w3"}) EXCEPT
        !.users["user_default"] = [Admin0 EXCEPT !.active = f.active, !.creator = f.creator,
                                                 !.platform = f.platform],
        !.settings.llm = llm,
        !.providers = p, !.spaces["w1"].provider = q, !.spaces["w1"].open = open] :
        h \in {"t2"}, r \in AdminRows, f \in Flags, llm \in BOOLEAN, open \in BOOLEAN,
        p \in {<<>>,
               [own |-> [tenant |-> Home, space |-> NoId, system |-> FALSE, enabled |-> TRUE,
                         share |-> "all", default |-> TRUE]],
               [sys |-> [tenant |-> Home, space |-> "w1", system |-> TRUE, enabled |-> FALSE,
                         share |-> "all", default |-> TRUE]]},
        q \in {NoId, "own", "sys"}}

(* Whatever the platform administrators have done to each other, the next   *)
(* start gives the configured one an account, the platform and the default  *)
(* workspace back; it changes nothing that it has changed before; and       *)
(* nobody else's membership is touched.                                     *)
ASSUME TheNextStartRestores ==
    \A d \in Started :
        LET e == Start(d)
            c == AuthContext(e, "user_default", NoId, NoId)
        IN  /\ ~CannotStart(d) /\ Start(e) = e
            /\ c.ok /\ c.space = HomeSpace(e) /\ c.row.role \in {"founder", "admin"}
            /\ e.users["user_default"].platform /\ e.users["user_default"].active
            /\ {r \in e.rows : r.user # "user_default"} = {r \in d.rows : r.user # "user_default"}
            /\ Cardinality(FoundersOf(e, "w1")) = 1

(* The system's provider is the tenant's and nobody's own, enabled again    *)
(* however it was left; a workspace that has no default takes the tenant's, *)
(* also one that had been cleared by hand.                                  *)
ASSUME TheNextStartSetsProviders ==
    \A d \in Started :
        LET e == Start(d)
        IN  /\ \A p \in SystemProviders(e) : e.providers[p].space = NoId /\ e.providers[p].share = "none"
            /\ d.settings.llm =>
                 /\ \A p \in SystemProviders(e) : e.providers[p].enabled
                 /\ Cardinality(SystemProviders(e)) = 1
                 /\ e.spaces["w1"].provider \notin SystemProviders(e)
                 /\ "own" \in DOMAIN d.providers /\ d.spaces["w1"].provider = NoId
                      => e.spaces["w1"].provider = "own"
                 /\ Cardinality(SharedDefaults(e)) = 1

(* A process whose configured administrator has another name than the one   *)
(* it was first started with does not come up.                              *)
ASSUME RenamedAdministrator ==
    LET d == Start([World("t2", {}, {}, {}) EXCEPT !.users = <<>>])
    IN  /\ ~CannotStart(d) /\ AuthContext(d, "user_default", NoId, NoId).ok
        /\ CannotStart([d EXCEPT !.settings.name = "root"])

(* An account that is made lands where its maker's own account is, in the   *)
(* default workspace if there is one, and may log in at once.               *)
ASSUME NewAccountsMayLogIn ==
    \A d \in Few \union {[x EXCEPT !.spaces["w1"].default = FALSE] : x \in Few} :
        LET a == Account("new", "new@x", NoId, {"active"})
            e == CreateUser(d, "u", "n", a)
        IN  /\ e # d => LET c == Login(e, "new", "new").answer
                        IN  /\ c.ok /\ c.tenant = d.users["u"].home /\ c.row.role = "member"
                            /\ e.users["n"].home = c.tenant
            /\ e = d <=> OpenIn(d, d.users["u"].home) = {}
            /\ CreateUser(d, "u", "n", [a EXCEPT !.email = "u@x"]) = d
            /\ CreateUser(d, "u", "n", [a EXCEPT !.name = "admin"]) = d

-----------------------------------------------------------------------------
LOCAL Invited(d, w, role, st, due) ==
    [d EXCEPT !.invites = [i |-> [space |-> w, email |-> "u@x", role |-> role, status |-> st, due |-> due]]]

(* The user has been removed from the tenants. *)
LOCAL Lapsed == {[d EXCEPT !.seats = {[s EXCEPT !.status = "removed"] : s \in @}] : d \in Few}

(* Who accepts an invite enters its workspace with its role, and from then  *)
(* on every login goes to that tenant; it is accepted once; and what the    *)
(* preview calls valid may still be refused, by a workspace that has been   *)
(* archived.  A refusal changes nothing but an invite that has fallen due.  *)
ASSUME InviteesEnter ==
    /\ \A d \in Few \union Lapsed, w \in {"w1", "w2", "w3"}, due \in BOOLEAN :
         LET x == Invited(d, w, "admin", "pending", due)
             j == Join(x, "u", "i")
         IN  /\ ~j.answer.ok => j.rows = [x EXCEPT !.invites.i.status = IF due THEN "expired" ELSE @]
             /\ j.answer.ok => /\ Preview(x, "i").valid /\ ~Preview(j.rows, "i").valid
                               /\ ~due /\ \A r \in RowsOf(d, "u") : r.space # w
                               /\ j.answer.space = w /\ j.answer.row.role = "admin"
                               /\ Login(j.rows, "u", "u").answer.tenant = d.spaces[w].tenant
                               /\ ~Join(j.rows, "u", "i").answer.ok
    /\ \E d \in Few : LET x == Invited(d, "w2", "member", "pending", FALSE)
                      IN  Preview(x, "i").valid /\ RowsOf(x, "u") = {} /\ ~Join(x, "u", "i").answer.ok

(* The workspaces a user is shown are those it can switch to and archived   *)
(* ones, which it cannot.                                                   *)
ASSUME ListedAreOpenOrArchived ==
    \A d \in Few : LET c == Login(d, "u", "u").answer
                   IN  c.ok => \A w \in {"w1", "w2", "w3"} :
                          SwitchContext(d, Token(c, "j"), w).ok
                             <=> d.spaces[w].open /\ \E r \in Accessible(d, c) : r.space = w

(* Only a session makes its user the platform's administrator: with a key   *)
(* the same user has its role in the workspace and no more.                 *)
ASSUME KeysAreNotThePlatform ==
    \A d \in Few :
        LET e == PatchUser(Keyed(d), "u", TRUE, TRUE, TRUE)
            p == KeyContext(e, "k1")
        IN  p.ok => /\ \A w \in {"w2", "w3"} : ~Administered(e, p, w) /\ Rename(e, p, w, "new") = e
                    /\ ~MayCreateSpace(e, p) /\ ~Acts(e, p, "can_manage_invites")
                    /\ Administered(e, [p EXCEPT !.kind = "session"], "w2") <=> d.spaces["w2"].open

(* A rename never gives two workspaces of a tenant one slug; the archived   *)
(* ones keep theirs.                                                        *)
ASSUME SlugsStayApart ==
    \A d \in Few, w \in {"w1", "w2", "w3"}, slug \in {"default", "two", "new"} :
        LET p == [AuthContext(Start(d), "user_default", NoId, NoId) EXCEPT !.kind = "session"]
            e == Rename(Start(d), p, w, slug)
        IN  \A x, y \in DOMAIN e.spaces :
                x # y /\ e.spaces[x].tenant = e.spaces[y].tenant => e.spaces[x].slug # e.spaces[y].slug

-----------------------------------------------------------------------------
LOCAL Stocked(d) ==
    LET In(t, w, who) == [tenant |-> t, space |-> w, owner |-> who]
        Kb(w, who, v) == [tenant |-> d.spaces[w].tenant, space |-> w, owner |-> who, visibility |-> v]
        Skill(w, who, v, a) == [tenant |-> d.spaces[w].tenant, space |-> w, owner |-> who,
                                visibility |-> v, active |-> a]
        Run(w, who, s) == [tenant |-> d.spaces[w].tenant, space |-> w, owner |-> who, status |-> s]
    IN  [d EXCEPT
          !.kbs = <<Kb("w1", "u", "private"), Kb("w1", "user_default", "workspace_read"), Kb("w3", "u", "private")>>,
          !.skills = <<Skill("w1", "u", "workspace_edit", TRUE), Skill("w1", "u", "private", FALSE),
                       Skill("w2", "u", "private", TRUE)>>,
          !.sessions = <<In("tenant_default", "w1", "u"), In("tenant_default", "w1", "user_default"),
                         In("t2", "w3", "u")>>,
          !.runs = <<Run("w1", "u", "queued"), Run("w1", "u", "completed"), Run("w1", "user_default", "answering"),
                     Run("w2", "u", "failed")>>,
          !.keys = <<[tenant |-> "tenant_default", space |-> "w1", owner |-> "u", live |-> TRUE],
                     [tenant |-> "tenant_default", space |-> "w1", owner |-> "u", live |-> FALSE],
                     [tenant |-> "tenant_default", space |-> "w1", owner |-> "user_default", live |-> FALSE]>>,
          !.providers = [sys |-> [tenant |-> Home, space |-> NoId, system |-> TRUE, enabled |-> FALSE,
                                  share |-> "none", default |-> TRUE],
                         two |-> [tenant |-> Home, space |-> "w2", system |-> FALSE, enabled |-> TRUE,
                                  share |-> "all", default |-> FALSE],
                         own |-> [tenant |-> Home, space |-> "w1", system |-> FALSE, enabled |-> FALSE,
                                  share |-> "all", default |-> FALSE]],
          !.invites = <<[space |-> "w1", email |-> "a@x", role |-> "member", status |-> "pending", due |-> TRUE],
                        [space |-> "w1", email |-> "b@x", role |-> "member", status |-> "pending", due |-> FALSE],
                        [space |-> "w1", email |-> "c@x", role |-> "member", status |-> "accepted", due |-> TRUE],
                        [space |-> "w3", email |-> "d@x", role |-> "member", status |-> "revoked", due |-> TRUE]>>]

LOCAL Total(f) == f["founder"] + f["admin"] + f["member"] + f["guest"]

(* The portrait of a workspace adds up, says what the lists say, and calls  *)
(* the workspace sound exactly when its founder is the only one.            *)
ASSUME PortraitsAddUp ==
    \A d \in {Stocked(x) : x \in Few}, w \in {"w1", "w2", "w3"} :
        LET e == Start(d)
            p == SpacePortrait(e, w)
            s == SpaceSummary(e, w)
            v == p.rules
        IN  /\ Total(p.byRole) = p.active /\ p.active <= p.total
            /\ s = [founder |-> p.founder, members |-> p.total, active |-> p.active]
            /\ p.sound => p.byRole["founder"] = 1 /\ p.founder # NoId
            /\ p.invites["pending"] + p.invites["accepted"] + p.invites["expired"] + p.invites["revoked"]
                 = Cardinality(InvitesOf(e, w))
            /\ w = "w1" => p.invites["pending"] = 1 /\ p.invites["expired"] = 1
            /\ v.kbs.by["private"] + v.kbs.by["workspace_read"] + v.kbs.by["workspace_edit"] = v.kbs.total
            /\ v.runs.active <= v.runs.runs /\ v.keys.active <= v.keys.total
            /\ v.providers.accessible <= v.providers.total

(* What a user owns in the workspaces makes up what they hold, and the      *)
(* lists of accounts count the memberships that the details show, left ones *)
(* included, while a tenant counts its active users only.                   *)
ASSUME ListsAgree ==
    \A d \in {Stocked(x) : x \in Few \union Lapsed} :
        /\ \A w \in {"w1", "w2", "w3"} :
             LET t == d.spaces[w].tenant
                 Mine(u) == UserRules(d, u, t, w)
             IN  /\ Mine("u").kbs + Mine("user_default").kbs = SpaceRules(d, t, w).kbs.total
                 /\ Mine("u").keys + Mine("user_default").keys = SpaceRules(d, t, w).keys.total
                 /\ Mine("u").skills = SpaceRules(d, t, w).skills.total
                 /\ Mine("u").runs.runs + Mine("user_default").runs.runs = SpaceRules(d, t, w).runs.runs
        /\ \A u \in {"u", "user_default"} :
             UserSummary(d, u) = [seats |-> Cardinality(UserDetail(d, u).seats),
                                  rows  |-> Cardinality(UserDetail(d, u).rows)]
        /\ \A t \in Tenants :
             TenantSummary(d, t).users = Cardinality({x \in TenantUsers(d, t) : x \in SeatsOf(d, x.user)})

(* The portrait of a user says what a request would find, for an account    *)
(* that is active; for one that is not it still shows a context, and the    *)
(* capabilities of a member that has been removed: what denies is among the *)
(* reasons only.                                                            *)
ASSUME PortraitsOfTheAbsent ==
    /\ \A d \in Few, w \in Wanted :
         LET p == UserPortrait(d, "u", NoId, w)
             off == PatchUser(d, "u", FALSE, TRUE, TRUE)
             q == UserPortrait(off, "u", NoId, w)
         IN  /\ p.allowed \intersect p.denied = {}
             /\ p.context.ok <=> p.rules # {}
             /\ q.context = p.context /\ "active" \in q.denied
             /\ ~q.control /\ ~q.creates
             /\ p.context.ok => ~SessionContext(off, Token(p.context, "j")).ok
             /\ LoginUsers(off, "u", "u") = {}
             /\ w = NoId => p.source = "login_default" /\ p.context = Login(d, "u", "u").answer
    /\ \E d \in Few : \E m \in SpacePortrait(d, "w1").members :
         m.status = "removed" /\ m.may["can_run_skills"]

=============================================================================
