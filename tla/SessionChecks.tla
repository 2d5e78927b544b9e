----------------------------- MODULE SessionChecks -----------------------------
(***************************************************************************)
(* What Sessions promises, over two tenants of which one has two           *)
(* workspaces, five skills, every role, and up to four messages recorded   *)
(* in two sessions.                                                        *)
(***************************************************************************)
EXTENDS Sessions

LOCAL INSTANCE SequencesExt

LOCAL Places == {<<"t1", "w1">>, <<"t1", "w2">>, <<"t2", "w3">>}   \* w1 and w3 are defaults

LOCAL Skill(t, w, u, v) == [tenant |-> t, workspace |-> w, owner |-> u, visibility |-> v]

LOCAL Skills == [private |-> Skill("t1", "w1", "ann", "private"),
                 open    |-> Skill("t1", "w1", "ann", "workspace_read"),
                 shared  |-> Skill("t1", "w1", "bob", "workspace_edit"),
                 second  |-> Skill("t1", "w2", "bob", "workspace_read"),
                 other   |-> Skill("t2", "w3", "ann", "workspace_read")]

LOCAL SkillIds == DOMAIN Skills \union {NoId}

LOCAL Principals == {[tenant |-> x[1], workspace |-> x[2], user |-> u, role |-> r, override |-> o] :
                       x \in Places, u \in {"ann", "bob"}, r \in Roles,
                       o \in {<<>>, [can_run_skills |-> FALSE], [can_run_skills |-> TRUE]}}

(* old is a session from before there were workspaces *)
LOCAL Empty == [defaults |-> {<<"t1", "w1">>, <<"t2", "w3">>}, skills |-> Skills, clock |-> 1,
                messages |-> <<>>,
                sessions |-> [old |-> [tenant |-> "t1", workspace |-> NoId, user |-> "ann",
                                       skill |-> NoId, updated |-> 1]]]

LOCAL Created == {CreateSession(Empty, p, "new", k) : p \in Principals, k \in SkillIds}

(* Whoever has made a session finds it again, alone and in the list of its  *)
(* skill, and may ask in it with that skill.                                *)
ASSUME OwnSessionsAreFound ==
    \A p \in Principals, k \in SkillIds :
        LET d == CreateSession(Empty, p, "new", k)
        IN  \/ d = Empty
            \/ SessionFound(d, p, "new") /\ "new" \in Listed(d, p, k) /\ SessionForRun(d, p, "new", k)

(* The lists and the single session agree: what is listed can be opened,    *)
(* and what can be opened is in one list, that of its skill.                *)
ASSUME ListedSessionsOpen ==
    \A d \in Created : \A p \in Principals, s \in DOMAIN d.sessions :
        /\ SessionFound(d, p, s) <=> \E k \in SkillIds : s \in Listed(d, p, k)
        /\ \A k \in SkillIds : s \in Listed(d, p, k) => d.sessions[s].skill = k
        /\ \A k \in DOMAIN Skills : SkillSessionFound(d, p, k, s) <=> s \in Listed(d, p, k)

(* No session is found from two workspaces, one from before there were      *)
(* workspaces neither, and none from another tenant.                        *)
ASSUME SessionsHaveOneWorkspace ==
    \A d \in Created : \A p, q \in Principals, s \in DOMAIN d.sessions :
        SessionFound(d, p, s) /\ SessionFound(d, q, s) =>
            p.workspace = q.workspace /\ d.sessions[s].tenant = p.tenant

(* A session is as visible as its skill: when the skill becomes private a   *)
(* member loses the sessions it had with it, its own messages included.     *)
ASSUME HiddenSkillsHideSessions ==
    LET bob == [tenant |-> "t1", workspace |-> "w1", user |-> "bob", role |-> "member", override |-> <<>>]
        d == CreateSession(Empty, bob, "new", "open")
        e == [d EXCEPT !.skills.open.visibility = "private"]
    IN  /\ SessionFound(d, bob, "new")
        /\ ~SessionFound(e, bob, "new") /\ Listed(e, bob, "open") = {}
        /\ SessionFound(e, [bob EXCEPT !.role = "admin"], "new")

-----------------------------------------------------------------------------
(* Each letter records one message; lag is how many of the latest messages  *)
(* its recorder does not see.                                               *)
LOCAL Ann == [tenant |-> "t1", workspace |-> "w1", user |-> "ann", role |-> "member", override |-> <<>>]
LOCAL Start == CreateSession(Empty, Ann, "new", NoId)

LOCAL Moves == [s : {"old", "new"}, run : {"r1", "r2"}, role : {"user", "assistant"}, lag : {0, 1}]

LOCAL Step(d, m) ==
    LET n == Len(d.messages) - m.lag
    IN  AppendMessage(d, SubSeq(d.messages, 1, IF n < 0 THEN 0 ELSE n), m.s, "t1", m.run, m.role)

LOCAL After(ms) == FoldLeft(Step, Start, ms)
LOCAL Scripts == UNION {[1..n -> Moves] : n \in 0..3}
LOCAL InTurn  == {ms \in Scripts : \A i \in DOMAIN ms : ms[i].lag = 0}

LOCAL SameMessage(m, q) == m.session = q.session /\ m.run = q.run /\ m.role = q.role

(* One recorder after the other: each run has its message of each role once, *)
(* those of a session are numbered 1, 2, 3, ... in the order in which they   *)
(* were stored, which is then the only order they are listed in.            *)
ASSUME RecordedOnceInOrder ==
    \A ms \in InTurn :
        LET d == After(ms)
        IN  /\ \A i, j \in DOMAIN d.messages : SameMessage(d.messages[i], d.messages[j]) => i = j
            /\ \A i \in DOMAIN ms : \E j \in DOMAIN d.messages :
                 d.messages[j].session = ms[i].s /\ d.messages[j].run = ms[i].run /\ d.messages[j].role = ms[i].role
            /\ \A s \in DOMAIN d.sessions :
                 LET own == InSession(d.messages, s)
                 IN  (\A i \in DOMAIN own : own[i].number = i) /\ Listings(own) = {own}

(* A run that is executed again records nothing that is there already, and  *)
(* its session does not move in the list.                                   *)
ASSUME RetriesRecordNothing ==
    \A ms \in InTurn : \A i \in DOMAIN ms : Step(After(ms), ms[i]) = After(ms)

(* Recorders that overlap break both: two messages of a session get one     *)
(* number and are listed in either order, the answer before its question    *)
(* even; two executions of one run record its message twice.  The numbers   *)
(* still leave no gap.                                                      *)
ASSUME OverlapsShareNumbers ==
    LET both == {After(ms) : ms \in Scripts}
    IN  /\ \E d \in both : \E i, j \in DOMAIN d.messages :
              i < j /\ d.messages[i].run # d.messages[j].run /\ Cardinality(Listings(InSession(d.messages, "new"))) > 1
        /\ \E d \in both : \E l \in Listings(InSession(d.messages, "new")) : \E i, j \in DOMAIN l :
              i < j /\ l[i].run = l[j].run /\ l[i].role = "assistant" /\ l[j].role = "user"
        /\ \E d \in both : \E i, j \in DOMAIN d.messages :
              i < j /\ SameMessage(d.messages[i], d.messages[j])
        /\ \A d \in both : LET own == InSession(d.messages, "new")
                           IN  {own[i].number : i \in DOMAIN own} = 1..(NextNumber(own) - 1)

(* Who opens a session sees all of its messages, and so does the executor,  *)
(* in sessions from before there were workspaces as in others.              *)
ASSUME SessionsAreSeenWhole ==
    \A ms \in InTurn : \A s \in {"old", "new"} :
        LET d == After(ms)
            own == InSession(d.messages, s)
        IN  /\ Held(d, "t1", d.sessions[s].workspace, s) = own
            /\ \A p \in Principals : SessionFound(d, p, s) => Visible(d, p, s) = own

(* The session whose message was recorded last is the first of the list,    *)
(* and the messages the client asks for are its last.                       *)
ASSUME LastUsedFirst ==
    \A ms \in InTurn : LET d == After(ms) IN
        /\ d.messages # <<>> /\ Last(d.messages).session = "old" => Before(d, "old", "new")
        /\ \A n \in 0..2 : LET own == InSession(d.messages, "new")
                           IN  /\ Len(Latest(own, n)) <= (IF n = 0 THEN Len(own) ELSE n)
                               /\ own # <<>> => Last(Latest(own, n)) = Last(own)
=============================================================================
