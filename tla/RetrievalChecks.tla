-------------------------- MODULE RetrievalChecks --------------------------
(***************************************************************************)
(* The pure functions of answering a question, checked against what they   *)
(* are to compute, for all inputs up to a small size; and the requests of  *)
(* Providers, whose models a question is answered with, checked for every  *)
(* sound catalog of two providers and two workspaces, one request after    *)
(* the other: each is a transaction, and two that read the same catalog    *)
(* are not covered.  TLC evaluates these assumptions once, before it       *)
(* explores Retrieval.                                                     *)
(***************************************************************************)
EXTENDS Retrieval, Providers

LOCAL Sum(numbers) == FoldSeq(LAMBDA n, sum : sum + n, 0, numbers)
LOCAL Lists(S, n) == UNION {[1..k -> S] : k \in 0..n}

-----------------------------------------------------------------------------

LOCAL Standings ==
  LET standing == [key : {0}, score : {0, 22, 23, 28, 40, 52}, signals : {0, 2}, nodes : {1}]
  IN {ranked \in [1..2 -> standing] \cup [1..3 -> standing] :
        \A i \in 1..(Len(ranked) - 1) : ranked[i].score >= ranked[i + 1].score}

(* The gate always keeps a manual, and leaves one out only when the last kept *)
(* is ahead of it by the margin and has been heard of in two ways             *)
(* (decide_manual_gate).                                                      *)
ASSUME GateKeepsTheLeaders ==
  \A ranked \in Standings :
    LET kept == Decision(ranked).count
    IN /\ kept \in 1..Len(ranked)
       /\ kept < Len(ranked) =>
            /\ ranked[kept].score - ranked[kept + 1].score >= 6 * (3 - kept)
            /\ ranked[kept].signals >= 2

(* The mode that counts is live only when both the caller and the deployment  *)
(* say so, and a word that is no mode never turns the gate on                 *)
(* (resolve_manual_gate_mode).                                                *)
ASSUME LiveByConsent ==
  \A requested, default \in {"", "off", "shadow", "live", "loud"}, allow \in BOOLEAN :
    LET mode == ResolveMode(requested, default, allow)
    IN /\ mode.effective = "live" => allow /\ "live" \in {requested, default}
       /\ requested = "loud" => mode.effective = "off" /\ mode.reason = "invalid_mode_disabled"

(* What the citations say of the prediction: among the first one implies among *)
(* the first two, and no citation says nothing (finalize_manual_gate_shadow_eval). *)
ASSUME ShadowIsMonotone ==
  \A predicted \in Lists(1..3, 3), cited \in SUBSET (1..3) :
    LET eval == ShadowEval([GateError(3) EXCEPT !.predicted = predicted], cited)
    IN (eval.top1 => eval.top2) /\ (cited = {} => ~eval.top2)

-----------------------------------------------------------------------------

(* A reranked list has no candidate twice and keeps the order the reranker     *)
(* gave; a generic endpoint that repeats itself yields a prefix of what it     *)
(* should have (rerank_candidates; the adapter cuts before it drops repeats).  *)
ASSUME RerankIsAChoice ==
  \A places \in Lists(0..4, 4), k \in 1..3 :
    LET candidates == <<"a", "b", "c">>
        ranked == Rerank(candidates, places, k)
        generic == RerankGeneric(candidates, places, k)
    IN /\ IsInjective(ranked.list) /\ Len(ranked.list) <= k
       /\ ~ranked.applied => Len(ranked.list) = k
       /\ generic.applied => ranked.applied /\ IsPrefix(generic.list, ranked.list)

(* Excerpts of the PDF: within both budgets, no page range twice, and one that *)
(* is too long does not keep a later one out (build_answer_context).           *)
ASSUME AnswerContextFits ==
  \A spans \in Lists([range : {1, 2, 3}, pages : {1, 2}, tokens : {1, 4}], 3), pages, tokens \in {NoLimit, 2, 4} :
    LET c == AnswerContext(spans, pages, tokens)
        kept == Range(c.kept)
    IN /\ Within(c.pages, pages) /\ Within(c.tokens, tokens)
       /\ \A i, j \in kept : i # j => spans[i].range # spans[j].range
       /\ (pages = NoLimit) =>
            \A i \in DOMAIN spans \ kept :
              \/ \E j \in 1..(i - 1) : spans[j].range = spans[i].range
              \/ ~Within(c.tokens + spans[i].tokens, tokens)

-----------------------------------------------------------------------------

LOCAL Dialogues ==
  {messages \in Lists([role : {"user", "assistant"}, text : {"this", "that"}, tokens : {1, 3}], 3) :
     \A m \in Range(messages) : m.role = "assistant" => m.text = "that"}

(* The history is the longest end of the last turns that the budget allows;    *)
(* only the last message may break it, and the question itself is not in it    *)
(* (_load_session_history).                                                    *)
ASSUME HistoryIsALatestPart ==
  \A messages \in Dialogues, turns \in 1..2, budget \in {1, 4}, assistant \in BOOLEAN :
    LET limits == [history |-> TRUE, turns |-> turns, budget |-> budget, assistant |-> assistant]
        cost(s) == Sum([i \in DOMAIN s |-> s[i].tokens])
        window == TurnWindow(Turns(messages, "this", assistant), turns)
        history == History(messages, "this", limits)
        ends == {SubSeq(window, i, Len(window)) : i \in DOMAIN window}
    IN /\ window = <<>> <=> history = <<>>
       /\ window # <<>> =>
            /\ history \in ends
            /\ cost(history) <= budget \/ Len(history) = 1
            /\ \A e \in ends : Len(e) > Len(history) => cost(e) > budget
       /\ messages # <<>> /\ Last(messages).role = "user" /\ Last(messages).text = "this"
            => history = History(Front(messages), "other", limits)
       /\ Cardinality({i \in DOMAIN window : window[i].role = "user"}) <= turns

-----------------------------------------------------------------------------

(* A build that fails in the middle leaves the index as it was; a version      *)
(* whose sections were all taken can be read back section by section, and      *)
(* another revision's texts are still there (sync_artifact_to_es).             *)
ASSUME SyncThenRead ==
  \A n \in 0..3, size \in 1..2, accepted \in SUBSET (1..3) :
    LET sections == [i \in 1..n |-> [id |-> i, tokens |-> i]]
        before == Texts(2, 1, 1)
    IN \A failing \in 0..BatchCount(n, size) :
         LET bundle == BuildBundle(sections, size, failing)
             after == Upsert(before, bundle, 1, 2, accepted)
         IN /\ before \subseteq after
            /\ failing # 0 => after = before
            /\ Synced(bundle, accepted) =>
                 \A i \in 1..n : SectionText(after, 1, i, 2, TRUE).text = i
            /\ CompleteBundle(bundle) => GetOrBuild(bundle, [bundle EXCEPT !.status = "failed"], FALSE, TRUE, TRUE) = bundle

(* A text is ready only as the revision and the checksum that were asked for   *)
(* (ElasticsearchSectionTextProvider).                                         *)
ASSUME ReadyIsFresh ==
  \A revision, text, routing, checksum \in 0..2 :
    LET result == TextOf([version |-> revision, text |-> text], routing, checksum)
    IN result.status = "ready" =>
         revision # Absent /\ text # Absent /\ routing \in {Absent, revision} /\ checksum \in {Absent, text}

-----------------------------------------------------------------------------

(* The cache of read PDFs keeps the ones used last and never more than its     *)
(* limit (_bounded_cache_put).                                                 *)
ASSUME CacheKeepsTheLatest ==
  \A held \in {c \in Lists(1..3, 2) : IsInjective(c)}, key \in 1..3, limit \in 2..3 :
    LET next == CachePut(CacheGet(held, key), key, limit)
    IN /\ IsInjective(next) /\ Len(next) <= limit /\ Last(next) = key
       /\ Range(CacheGet(held, key)) = Range(held)
       /\ Range(next) \subseteq Range(held) \cup {key}
       /\ Len(held) < limit => Range(next) = Range(held) \cup {key}

(* Dense search gives scores or a reason, never both, and one manual's failure *)
(* leaves none of the others' scores (EsNodeDenseSearchBackend.search).        *)
ASSUME DenseAllOrNothing ==
  LET reply == [failed : BOOLEAN, hits : {[k \in S |-> 50] : S \in SUBSET {1, 2}}]
  IN \A first, second \in reply, es \in {"up", "es_unavailable"} :
       LET result == DenseSearch("words", "vector", es, <<first, second>>)
       IN /\ result.used <=> result.reason = ""
          /\ result.used => es = "up" /\ ~first.failed /\ ~second.failed
          /\ result.used <=> DOMAIN result.scores # {}

(* The pages a section may be read from are inside of the PDF (_pdf_pages).    *)
ASSUME PagesInside ==
  \A first, last, pages \in 0..3, stored, readable \in BOOLEAN :
    LET result == PdfPages([first |-> first, last |-> last],
                           [stored |-> stored, readable |-> readable, pages |-> pages])
    IN result.text # Absent => /\ result.text \in 1..pages
                               /\ stored /\ readable /\ first <= last

(* The best section by words is never below one without any word in common,    *)
(* unless that one has a dense score (score_node_corpora).                     *)
ASSUME WordsCount ==
  \A dense \in {NoScores, [k \in {1} |-> 100]}, holds \in SUBSET {"pump", "seal"} :
    LET node(key, words) == RouteDoc(key, [label |-> [tokens |-> {}], file |-> [tokens |-> {}]],
                                     [title |-> words, breadcrumb |-> {}, depth |-> 0, first |-> 1, last |-> 1], Absent, {})
        corpora == << [source |-> "structure_json", nodes |-> << node(1, {}), node(2, holds) >>] >>
        ranked == RankSections(Asked, corpora, DenseState("auto", "enabled", TRUE, dense), dense)
    IN /\ Range(ranked) = Places(corpora)
       /\ holds \cap Asked.tokens # {} => ranked[1] = <<1, 2>>
       /\ Recall(ranked, {ranked[1]}, ClampTopK(0)) = <<1, 1>>

-----------------------------------------------------------------------------
(* Providers. *)

LOCAL Spaces == {"w1", "w2"}
LOCAL Ids == {"p", "q"}
LOCAL Model(name, kind) == [name |-> name, kind |-> kind]
LOCAL Chatty == Model("c", "chat")
LOCAL Ranker == Model("r", "rerank")
LOCAL Endpoint == [model |-> Ranker, enabled |-> TRUE, health |-> "unknown"]

LOCAL SoundOne(p) ==
  /\ ScopeOf(p) # "tenant" => ~p.default /\ p.share = "none"
  /\ (p.shares # {}) <=> (p.share = "selected")

LOCAL Entries ==
  {p \in [system : BOOLEAN, workspace : Spaces \cup {NoWorkspace}, enabled : BOOLEAN, default : BOOLEAN,
          share : {"none", "all", "selected"}, shares : SUBSET Spaces,
          model : {Chatty}, supported : {<<Chatty>>}, endpoints : {<<>>}] :
     SoundOne(p) /\ (p.system => p.workspace = NoWorkspace /\ p.enabled)}

(* At most one provider of the tenant is its default. *)
LOCAL Sound(catalog) ==
  /\ \A id \in DOMAIN catalog : SoundOne(catalog[id]) /\ catalog[id].model \in Range(catalog[id].supported)
  /\ Cardinality({id \in DOMAIN catalog : catalog[id].default}) <= 1

LOCAL Catalogs == {c \in [Ids -> Entries] : Sound(c)}

LOCAL Changes ==
  [default : BOOLEAN] \cup [enabled : BOOLEAN] \cup [model : {Ranker}]
  \cup [share : {"none", "all", "selected"}] \cup [share : {"all", "selected"}, shares : SUBSET Spaces]
  \cup [endpoints : {[c \in {"rerank"} |-> Endpoint]}, default : {TRUE}]

(* Every request leaves the catalog sound, and the system's provider as it is: *)
(* one default, a workspace's provider neither shared nor a default, shares    *)
(* exactly where the sharing is selective (create_provider, update_provider,   *)
(* import_provider_to_workspace, delete_provider).                             *)
ASSUME RequestsKeepTheCatalogSound ==
  \A catalog \in Catalogs :
    /\ \A draft \in {p \in Entries : ~p.system}, scope \in {"tenant", "workspace"} :
         LET next == Create(catalog, "new", scope, "w1", draft) IN next = Refused \/ Sound(next)
    /\ \A id \in Ids, change \in Changes :
         LET next == Update(catalog, id, change)
         IN next # Refused => Sound(next) /\ ~catalog[id].system
    /\ \A id \in Ids, ws \in Spaces :
         LET next == Import(catalog, id, "new", ws)
         IN next # Refused =>
              /\ Sound(next)
              /\ \A other \in Spaces \ {ws} : ~Bindable(next["new"], other)
    /\ \A id \in Ids :
         LET next == Delete(catalog, id, {"p"}) IN next # Refused => Sound(next) /\ "p" \in DOMAIN next

LOCAL Reaches(p, ws) ==
  p.enabled /\ ~p.system
  /\ \/ p.workspace = ws
     \/ p.workspace = NoWorkspace /\ (p.share = "all" \/ ws \in p.shares)

(* In a sound catalog what a question is answered by is decided, within reach  *)
(* of its workspace, and never something else than the provider it names       *)
(* (resolve_provider_config).                                                  *)
ASSUME ResolutionIsDecided ==
  \A catalog \in Catalogs, ws \in Spaces, default, named, bound \in Ids \cup {NoProvider} :
    LET outcomes == Resolve(catalog, [w \in Spaces |-> default], named, bound, ws)
        outcome == CHOOSE o \in outcomes : TRUE
        meant == IF named # NoProvider THEN named ELSE bound
    IN /\ Cardinality(outcomes) = 1
       /\ outcome \in Ids => Reaches(catalog[outcome], ws)
       /\ meant # NoProvider => outcome \in {meant, Refused}
       /\ meant = NoProvider => outcome # Refused

(* A provider without an endpoint for reranking borrows the one of the         *)
(* workspace's default; one that has its own keeps to it, and its health       *)
(* outlives a change of the endpoint (_resolve_endpoint_for_capability,        *)
(* _sync_provider_endpoints).                                                  *)
ASSUME EndpointsAreBorrowed ==
  \A catalog \in {c \in Catalogs : \A id \in Ids : Reaches(c[id], "w1")} :
    LET ranked == Update(ProbeRuntime(Update(catalog, "q", [endpoints |-> [c \in {"rerank"} |-> Endpoint]]),
                                      "q", NoProvider, {"rerank"}),
                         "q", [endpoints |-> [c \in {"rerank"} |-> Endpoint]])
        own == Update(ranked, "p", [endpoints |-> [c \in {"rerank"} |-> Endpoint]])
        defaults == [w \in Spaces |-> "q"]
    IN /\ EndpointsFor(ranked, defaults, "p", "rerank", "w1") = {[Endpoint EXCEPT !.health = "healthy"]}
       /\ EndpointsFor(own, defaults, "p", "rerank", "w1") = {Endpoint}

(* A workspace's default that was accepted is the one meant, for as long as    *)
(* the workspace can use it (update_workspace_default_provider).               *)
ASSUME AcceptedDefaultIsMeant ==
  \A catalog \in Catalogs, id \in Ids :
    LET defaults == SetWorkspaceDefault(catalog, [w \in Spaces |-> NoProvider], "w1", id)
    IN defaults # Refused => Resolve(catalog, defaults, NoProvider, NoProvider, "w1") = {id}

(* A mode keeps to its source: "provider" never uses the system's model,       *)
(* "system" never the provider's, "off" none; a chat model there always is     *)
(* (resolve_rerank_config, resolve_embedding_config, resolve_chat_config).     *)
ASSUME ModesKeepToTheirSource ==
  \A endpoints \in {<<>>, [c \in {"rerank"} |-> Endpoint], [c \in {"rerank"} |-> [Endpoint EXCEPT !.enabled = FALSE]]},
     models \in {<<Chatty>>, <<Chatty, Ranker>>}, up \in BOOLEAN, mode \in Modes4 \cup {"loud"} :
    LET p == [system |-> FALSE, workspace |-> NoWorkspace, enabled |-> TRUE, default |-> TRUE, share |-> "all",
              shares |-> {}, model |-> Chatty, supported |-> models, endpoints |-> endpoints]
        catalog == [id \in {"p"} |-> p]
        defaults == [w \in Spaces |-> NoProvider]
        system == [enabled |-> up, model |-> Ranker]
        rerank == CHOOSE c \in RerankConfig(catalog, defaults, "p", "w1", mode, system) : TRUE
        embedding == CHOOSE c \in EmbeddingConfig(catalog, defaults, "p", "w1", mode, system) : TRUE
    IN /\ rerank.enabled /\ rerank.from = "system" => mode \in {"auto", "system", "loud"} /\ up
       /\ rerank.enabled /\ rerank.from # "system" => mode \in {"auto", "provider", "loud"}
       /\ rerank.enabled => rerank.model = Ranker
       /\ mode \in {"off", "loud"} => ~embedding.enabled
       /\ \A c \in ChatConfig(catalog, defaults, "p", "w1") : c.enabled /\ c.model = Chatty
       /\ (ModelSelection(p, Ranker) = Refused) <=> (models = <<Chatty>>)
=============================================================================
