------------------------------- MODULE Sessions -------------------------------
(***************************************************************************)
(* Chat sessions and their messages (session_service.py): which of them a  *)
(* principal p finds, and what recording a message makes of the messages   *)
(* that the recorder has read.  ChatRuns has the runs of a session and     *)
(* the moments at which their messages are recorded.                       *)
(*                                                                         *)
(* The rows d are the workspaces that are the default one of their tenant, *)
(* skills and sessions (functions of their ids), messages (in the order in *)
(* which they were stored) and a clock.                                    *)
(***************************************************************************)
EXTENDS AccessPolicy, Naturals, Sequences

NoId == "none"

-----------------------------------------------------------------------------
(* What belongs to a workspace.                                             *)

(* _is_default_workspace *)
IsDefault(d, p) == <<p.tenant, p.workspace>> \in d.defaults

(* _session_workspace_filter, _message_workspace_filter: rows from before   *)
(* there were workspaces belong to the default one.                         *)
InWorkspace(d, p, row) ==
    /\ row.tenant = p.tenant
    /\ row.workspace = p.workspace \/ (row.workspace = NoId /\ IsDefault(d, p))

(* _validate_skill_scope *)
SkillFound(d, p, skill) ==
    /\ skill \in DOMAIN d.skills
    /\ d.skills[skill].tenant = p.tenant /\ CanRead(p, d.skills[skill])

SkillAllows(d, p, skill) == skill = NoId \/ SkillFound(d, p, skill)

-----------------------------------------------------------------------------
(* Sessions.  They are the workspace's: nothing asks whose they are.        *)

(* create_session *)
CreateSession(d, p, id, skill) ==
    IF skill # NoId /\ ~(May(p.role, p.override, "can_run_skills") /\ SkillFound(d, p, skill)) THEN d
    ELSE [d EXCEPT !.clock = @ + 1,
                   !.sessions = [s \in DOMAIN @ \union {id} |->
                       IF s # id THEN @[s]
                       ELSE [tenant |-> p.tenant, workspace |-> p.workspace, user |-> p.user,
                             skill |-> skill, updated |-> d.clock + 1]]]

(* get_session_or_404 *)
SessionFound(d, p, s) ==
    /\ s \in DOMAIN d.sessions /\ InWorkspace(d, p, d.sessions[s])
    /\ SkillAllows(d, p, d.sessions[s].skill)

(* get_skill_session_or_404 *)
SkillSessionFound(d, p, skill, s) ==
    SkillFound(d, p, skill) /\ SessionFound(d, p, s) /\ d.sessions[s].skill = skill

(* _resolve_session_for_run: one that is bound to a skill takes no other *)
SessionForRun(d, p, s, skill) == SessionFound(d, p, s) /\ d.sessions[s].skill \in {NoId, skill}

(* list_sessions: those of one skill or of none, the last used first *)
Listed(d, p, skill) ==
    IF ~SkillAllows(d, p, skill) THEN {}
    ELSE {s \in DOMAIN d.sessions : InWorkspace(d, p, d.sessions[s]) /\ d.sessions[s].skill = skill}

Before(d, s, q) == d.sessions[s].updated > d.sessions[q].updated

-----------------------------------------------------------------------------
(* Messages.                                                                *)
InSession(messages, s) == SelectSeq(messages, LAMBDA m : m.session = s)

NextNumber(messages) ==
    1 + (IF messages = <<>> THEN 0
         ELSE CHOOSE n \in {messages[i].number : i \in DOMAIN messages} :
                 \A i \in DOMAIN messages : messages[i].number <= n)

(* append_message: `read` is the snapshot the recorder looks for its own    *)
(* message and for the largest number in.                                   *)
Recorded(read, s, run, role) ==
    run # NoId /\ \E i \in DOMAIN read :
        read[i].session = s /\ read[i].run = run /\ read[i].role = role

AppendMessage(d, read, s, tenant, run, role) ==
    IF s \notin DOMAIN d.sessions THEN d
    ELSE IF d.sessions[s].tenant # tenant \/ Recorded(read, s, run, role) THEN d
    ELSE [d EXCEPT !.clock = @ + 1, !.sessions[s].updated = d.clock + 1,
                   !.messages = Append(@,
                       [session |-> s, tenant |-> tenant, workspace |-> d.sessions[s].workspace,
                        run |-> run, role |-> role, number |-> NextNumber(InSession(read, s))])]

(* list_session_messages for a principal, and for an executor that knows    *)
(* the session's tenant and workspace; in the order of their numbers.       *)
Visible(d, p, s)  == SelectSeq(InSession(d.messages, s), LAMBDA m : InWorkspace(d, p, m))
Held(d, t, w, s)  == SelectSeq(InSession(d.messages, s), LAMBDA m : m.tenant = t /\ m.workspace = w)
InOrder(messages) == \A i, j \in DOMAIN messages : i < j => messages[i].number <= messages[j].number

(* Messages of one number come in any order. *)
Listings(messages) ==
    {[i \in DOMAIN messages |-> messages[f[i]]] :
        f \in {g \in [DOMAIN messages -> DOMAIN messages] :
                 /\ \A i, j \in DOMAIN messages : g[i] = g[j] => i = j
                 /\ InOrder([i \in DOMAIN messages |-> messages[g[i]]])}}

Latest(listing, limit) ==
    IF limit = 0 THEN listing
    ELSE SubSeq(listing, IF Len(listing) > limit THEN Len(listing) - limit + 1 ELSE 1, Len(listing))
=============================================================================
