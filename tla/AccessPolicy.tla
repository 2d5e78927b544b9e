----------------------------- MODULE AccessPolicy -----------------------------
(***************************************************************************)
(* What a member of a workspace may do (workspace_access_service.py): the  *)
(* capabilities of a role, overrides of them that are stored with the      *)
(* membership, and who may read or edit a knowledge base or a skill.       *)
(* These are functions of their arguments; Workspaces has the states.      *)
(***************************************************************************)
EXTENDS Naturals, FiniteSets

Roles == {"founder", "admin", "member", "guest"}

Capabilities ==
    {"can_view_workspace", "can_edit_workspace_metadata", "can_manage_members",
     "can_manage_invites", "can_transfer_founder", "can_archive_workspace",
     "can_manage_api_keys", "can_manage_providers", "can_manage_knowledge_bases",
     "can_manage_skills", "can_run_skills", "can_view_runs"}

FounderOnly == {"can_transfer_founder", "can_archive_workspace"}
GuestMay    == {"can_view_workspace", "can_run_skills", "can_view_runs"}
MemberMay   == GuestMay \union {"can_manage_api_keys", "can_manage_knowledge_bases",
                                "can_manage_skills"}

(* WORKSPACE_ROLE_CAPABILITY_MATRIX; an unknown role has none. *)
Granted(role) == CASE role = "founder" -> Capabilities
                   [] role = "admin"   -> Capabilities \ FounderOnly
                   [] role = "member"  -> MemberMay
                   [] role = "guest"   -> GuestMay
                   [] OTHER            -> {}

RoleCapabilities(role) == [c \in Capabilities |-> c \in Granted(role)]

(* An override gives some capabilities TRUE or FALSE. *)
Overrides(S) == UNION {[D -> BOOLEAN] : D \in SUBSET (S \intersect Capabilities)}

(* validate_workspace_permissions_override *)
ValidOverride(o, role) ==
    \A c \in DOMAIN o : ~(c \in FounderOnly /\ o[c] /\ role # "founder")

(* What resolve_workspace_capabilities makes of one stored override entry:  *)
(* a founder-only grant that the role does not have itself is skipped.      *)
Ignored(role, o, c) == c \in FounderOnly /\ o[c] /\ ~RoleCapabilities(role)[c]

ResolveCapabilities(role, o) ==
    [c \in Capabilities |->
        IF c \in DOMAIN o /\ ~Ignored(role, o, c) THEN o[c] ELSE RoleCapabilities(role)[c]]

May(role, o, c) == ResolveCapabilities(role, o)[c]

(* Knowledge bases and skills: a principal is its workspace, user, role and *)
(* override, a resource its workspace, owner and visibility.                *)
Visibilities == {"private", "workspace_read", "workspace_edit"}

EffectiveVisibility(v) == IF v \in Visibilities THEN v ELSE "private"

ResourceAdmin(p) == p.role \in {"founder", "admin"}

CanRead(p, r) ==
    /\ p.workspace = r.workspace
    /\ \/ ResourceAdmin(p) \/ p.user = r.owner
       \/ EffectiveVisibility(r.visibility) \in {"workspace_read", "workspace_edit"}

CanEdit(p, r, manage) ==
    /\ p.workspace = r.workspace
    /\ \/ ResourceAdmin(p) \/ p.user = r.owner
       \/ /\ May(p.role, p.override, manage)
          /\ EffectiveVisibility(r.visibility) = "workspace_edit"

=============================================================================
