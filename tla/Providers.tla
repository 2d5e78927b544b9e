----------------------------- MODULE Providers -----------------------------
(***************************************************************************)
(* Model providers of a tenant (services/provider_service.py): which       *)
(* workspace may use which, which one is meant when none is named, what a  *)
(* request to create, change, import or delete one does, and from which    *)
(* endpoint a question gets its chat, rerank and embedding models.         *)
(*                                                                         *)
(* A tenant's providers are a function of their identities.  A request is  *)
(* one transaction, so it is an operator on that function: a request that  *)
(* is refused is Refused.  Secrets, headers and names are left out.        *)
(***************************************************************************)
EXTENDS Integers, Sequences, FiniteSets, SequencesExt

CONSTANTS
  NoWorkspace,   \* of a provider of the whole tenant or of the system
  NoProvider,    \* nothing is named, or nothing found
  Refused        \* a request that is refused

Modes4 == {"auto", "off", "provider", "system"}

-----------------------------------------------------------------------------
(* A model is [name, kind]: the kind is read off its name.                   *)

(* The default model first, each once. *)
ModelsOf(p) ==
  LET all == <<p.model>> \o p.supported
      first == SelectSeq([i \in DOMAIN all |-> [at |-> i, model |-> all[i]]],
                         LAMBDA e : \A j \in 1..(e.at - 1) : all[j] # e.model)
  IN [i \in DOMAIN first |-> first[i].model]

Capable(p, kind) == SelectSeq(ModelsOf(p), LAMBDA m : m.kind = kind)

(* The model of a request must be one of the provider's; none named means the *)
(* default one.                                                               *)
ModelSelection(p, asked) ==
  IF asked = NoProvider THEN p.model
  ELSE IF asked \in Range(ModelsOf(p)) THEN asked ELSE Refused

-----------------------------------------------------------------------------
(* Who may use a provider. *)

ScopeOf(p) == IF p.system THEN "system" ELSE IF p.workspace # NoWorkspace THEN "workspace" ELSE "tenant"

SharedTo(p, ws) ==
  \/ ws = NoWorkspace
  \/ ScopeOf(p) = "workspace" /\ p.workspace = ws
  \/ /\ ScopeOf(p) = "tenant"
     /\ p.share = "all" \/ (p.share = "selected" /\ ws \in p.shares)

AvailableTo(p, ws) == p.enabled /\ SharedTo(p, ws)
Bindable(p, ws) == ScopeOf(p) # "system" /\ AvailableTo(p, ws)

BindableCatalog(catalog, ws) == {id \in DOMAIN catalog : Bindable(catalog[id], ws)}

(* With two defaults, either may come first. *)
TenantDefaults(catalog, ws) == {id \in BindableCatalog(catalog, ws) : catalog[id].default}

(* A workspace whose default is out of reach by now has none.  The default    *)
(* exists: a foreign key holds it.                                            *)
WorkspaceDefault(catalog, defaults, ws) ==
  IF ws = NoWorkspace THEN NoProvider
  ELSE IF defaults[ws] = NoProvider THEN NoProvider
  ELSE IF Bindable(catalog[defaults[ws]], ws) THEN defaults[ws] ELSE NoProvider

DefaultsFor(catalog, defaults, ws) ==
  LET own == WorkspaceDefault(catalog, defaults, ws)
  IN IF own # NoProvider THEN {own}
     ELSE IF TenantDefaults(catalog, ws) = {} THEN {NoProvider} ELSE TenantDefaults(catalog, ws)

(* The providers a question may be answered by: the one it names, else its    *)
(* skill's, else a default, else the system's.  A named one that is out of    *)
(* reach is refused, never replaced.                                          *)
Resolve(catalog, defaults, named, bound, ws) ==
  LET meant == IF named # NoProvider THEN {named} ELSE IF bound # NoProvider THEN {bound}
               ELSE DefaultsFor(catalog, defaults, ws)
      reach(id) == id \in DOMAIN catalog /\ (ws = NoWorkspace \/ Bindable(catalog[id], ws))
  IN {IF id = NoProvider \/ reach(id) THEN id ELSE Refused : id \in meant}

-----------------------------------------------------------------------------
(* Requests.  A draft is what the request says of the provider.              *)

ClearDefaults(catalog, keep) ==
  [id \in DOMAIN catalog |-> IF id = keep THEN catalog[id] ELSE [catalog[id] EXCEPT !.default = FALSE]]

ShareRefused(scope, share, shares) ==
  \/ scope = "workspace" /\ share # "none"
  \/ scope = "tenant" /\ share = "selected" /\ shares = {}

(* The endpoints of a request, one for a capability, replace those of the     *)
(* provider, unless it lists none; one that was there keeps its health.       *)
SyncEndpoints(endpoints, listed) ==
  IF listed = <<>> THEN endpoints
  ELSE [c \in DOMAIN listed |->
          [listed[c] EXCEPT !.health = IF c \in DOMAIN endpoints THEN endpoints[c].health ELSE "unknown"]]

Create(catalog, id, scope, ws, draft) ==
  IF \/ scope \notin {"tenant", "workspace"}
     \/ ShareRefused(scope, draft.share, draft.shares)
     \/ scope = "workspace" /\ (ws = NoWorkspace \/ draft.default)
  THEN Refused
  ELSE LET own == scope = "workspace"
           p == [draft EXCEPT !.system = FALSE, !.workspace = IF own THEN ws ELSE NoWorkspace,
                              !.shares = IF draft.share = "selected" THEN draft.shares ELSE {},
                              !.supported = ModelsOf(draft), !.endpoints = SyncEndpoints(<<>>, draft.endpoints)]
           before == IF p.default THEN ClearDefaults(catalog, NoProvider) ELSE catalog
       IN [i \in DOMAIN catalog \cup {id} |-> IF i = id THEN p ELSE before[i]]

(* A change names some fields; one of the sharing keeps the workspaces it was *)
(* shared with when it names none, and forgets them when it is not selective. *)
Update(catalog, id, change) ==
  IF id \notin DOMAIN catalog \/ catalog[id].system THEN Refused
  ELSE LET p == catalog[id]
           own == ScopeOf(p) = "workspace"
           given(field) == IF field \in DOMAIN change THEN change[field] ELSE p[field]
           selected == given("share") = "selected"
           default == "default" \in DOMAIN change /\ change.default
           models == ModelsOf([model |-> given("model"), supported |-> given("supported")])
           next == [p EXCEPT !.enabled = given("enabled"), !.default = ~own /\ given("default"),
                             !.model = given("model"), !.supported = models,
                             !.endpoints = IF "endpoints" \in DOMAIN change THEN SyncEndpoints(@, change.endpoints) ELSE @,
                             !.share = IF own THEN p.share ELSE given("share"),
                             !.shares = IF own THEN p.shares ELSE IF selected THEN given("shares") ELSE {}]
       IN IF own /\ default THEN Refused
          ELSE IF ~own /\ ShareRefused("tenant", given("share"), given("shares")) THEN Refused
          ELSE [(IF default THEN ClearDefaults(catalog, id) ELSE catalog) EXCEPT ![id] = next]

(* A copy of a provider of the tenant, for one workspace, without endpoints.  *)
Import(catalog, id, copy, ws) ==
  IF \/ id \notin DOMAIN catalog
     \/ ScopeOf(catalog[id]) # "tenant"
     \/ ~Bindable(catalog[id], ws)
  THEN Refused
  ELSE [i \in DOMAIN catalog \cup {copy} |->
          IF i = copy THEN [catalog[id] EXCEPT !.workspace = ws, !.default = FALSE, !.share = "none",
                                               !.shares = {}, !.endpoints = <<>>]
          ELSE catalog[i]]

(* Refused while a skill, a chat run or a workspace's default refers to it.   *)
Delete(catalog, id, referred) ==
  IF id \notin DOMAIN catalog \/ catalog[id].system \/ id \in referred THEN Refused
  ELSE [i \in DOMAIN catalog \ {id} |-> catalog[i]]

(* update_workspace_default_provider. *)
SetWorkspaceDefault(catalog, defaults, ws, id) ==
  IF id = NoProvider THEN [defaults EXCEPT ![ws] = NoProvider]
  ELSE IF id \notin DOMAIN catalog \/ ~Bindable(catalog[id], ws) THEN Refused
  ELSE [defaults EXCEPT ![ws] = id]

(* The models the endpoint lists replace the supported ones; the default one  *)
(* stays.                                                                     *)
ProbeModels(catalog, id, listed) ==
  IF listed = <<>> THEN Refused
  ELSE [catalog EXCEPT ![id].supported = ModelsOf([model |-> catalog[id].model, supported |-> listed])]

(* Every endpoint asked of is probed by itself: a failure is a result.        *)
ProbeRuntime(catalog, id, capability, healthy) ==
  LET found(c) == IF c \in healthy THEN "healthy" ELSE "unhealthy"
  IN [catalog EXCEPT ![id].endpoints =
        [c \in DOMAIN @ |-> IF c = capability \/ capability = NoProvider THEN [@[c] EXCEPT !.health = found(c)] ELSE @[c]]]

-----------------------------------------------------------------------------
(* Models for a question, from the provider it resolved to.                  *)

Serving(catalog, id, capability) ==
  IF id = NoProvider THEN {}
  ELSE {catalog[id].endpoints[c] : c \in {d \in DOMAIN catalog[id].endpoints \cap {capability} :
                                           catalog[id].endpoints[d].enabled}}

(* An endpoint of the provider, else one of the default provider.  An         *)
(* unhealthy one counts as well.                                              *)
EndpointsFor(catalog, defaults, id, capability, ws) ==
  IF Serving(catalog, id, capability) # {} THEN Serving(catalog, id, capability)
  ELSE UNION {Serving(catalog, d, capability) : d \in DefaultsFor(catalog, defaults, ws) \ {id}}

Disabled(why) == [enabled |-> FALSE, from |-> why, model |-> NoProvider]
Served(endpoints) == {[enabled |-> TRUE, from |-> "provider_endpoint", model |-> e.model] : e \in endpoints}

ChatConfig(catalog, defaults, id, ws) ==
  LET endpoints == EndpointsFor(catalog, defaults, id, "chat", ws)
  IN IF endpoints # {} THEN Served(endpoints)
     ELSE {[enabled |-> TRUE, from |-> "provider", model |-> IF id = NoProvider THEN NoProvider ELSE catalog[id].model]}

(* The provider's endpoint, else its models of the kind, else the system's.   *)
CapabilityConfig(catalog, defaults, id, ws, kind, mode, system) ==
  LET endpoints == EndpointsFor(catalog, defaults, id, kind, ws)
      models == IF id = NoProvider THEN <<>> ELSE Capable(catalog[id], kind)
      own == mode \in {"auto", "provider"}
  IN IF mode = "off" THEN {Disabled("off")}
     ELSE IF own /\ endpoints # {} THEN Served(endpoints)
     ELSE IF own /\ models # <<>> THEN {[enabled |-> TRUE, from |-> "provider", model |-> Head(models)]}
     ELSE IF mode \in {"auto", "system"} /\ system.enabled
     THEN {[enabled |-> TRUE, from |-> "system", model |-> system.model]}
     ELSE {Disabled(IF mode = "auto" THEN "fallback_none" ELSE mode)}

(* A mode that is no mode means "auto" for reranking ... *)
RerankConfig(catalog, defaults, id, ws, mode, system) ==
  CapabilityConfig(catalog, defaults, id, ws, "rerank", IF mode \in Modes4 THEN mode ELSE "auto", system)

(* ... and "off" for embeddings. *)
EmbeddingConfig(catalog, defaults, id, ws, mode, system) ==
  CapabilityConfig(catalog, defaults, id, ws, "embedding", IF mode \in Modes4 THEN mode ELSE "off", system)
=============================================================================
