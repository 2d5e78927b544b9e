---------------------------- MODULE NodeSearch ----------------------------
(***************************************************************************)
(* Fast search (services/node_shadow_service.py): every section of every   *)
(* manual is scored by the words it shares with the question and, when     *)
(* there is one, by a dense score, and the best ones are taken.  No model  *)
(* reads an outline.  Pure functions, like ManualGate, whose inventory is  *)
(* the corpus here.                                                        *)
(*                                                                         *)
(* A section's text, when it has one, comes from the section index.  The   *)
(* lexical score is in hundredths: every weight of the code is a multiple  *)
(* of 0.01.  The code's rounding to six places is left out: scores are     *)
(* compared as exact fractions.                                            *)
(***************************************************************************)
EXTENDS ManualGate, SectionIndex

(* Why a manual's sections do not come from the best source. *)
CorpusReason ==
  [document_routing_nodes |-> "", routing_index_json |-> "document_routing_nodes_missing",
   structure_json |-> "routing_index_json_missing_or_unavailable",
   metadata_only |-> "node_corpus_unavailable"]

Corpus(ref) ==
  LET inventory == Inventory(ref)
  IN [source |-> inventory.source, nodes |-> inventory.nodes, reason |-> CorpusReason[inventory.source]]

(* A section as it is searched: its fields, the manual's names, its text if  *)
(* it has one, and all of them together once more as the extra field.  A     *)
(* field holds its own words; a text may hold phrases of the question too.   *)
RouteDoc(key, ref, node, text, holds) ==
  LET field(words) == [tokens |-> words, holds |-> words]
      manual == ref.label.tokens \cup ref.file.tokens
      body == IF text = Absent THEN {} ELSE holds
  IN [key |-> key, title |-> field(node.title), crumb |-> field(node.breadcrumb),
      manual |-> field(manual), summary |-> field({}), section |-> field(body),
      extra |-> field(node.title \cup node.breadcrumb \cup manual \cup body),
      text |-> text, depth |-> node.depth, first |-> node.first, last |-> node.last]

-----------------------------------------------------------------------------
(* The text of a section: one given with it, the section index's when it is  *)
(* not stale, and only where the PDF may be read at run time its pages.  A   *)
(* stale text ends the search: the PDF is not asked.                         *)
SafeSectionText(given, record, pdf, allowPdf) ==
  CASE given # Absent -> [text |-> given, source |-> "provided"]
    [] given = Absent /\ record.status = "stale" -> [text |-> Absent, source |-> "stale"]
    [] given = Absent /\ record.status = "ready" -> [text |-> record.text, source |-> "es_shadow"]
    [] OTHER -> IF ~allowPdf THEN [text |-> Absent, source |-> "missing"] ELSE pdf

(* The pages of the PDF a section spans, cut to the pages there are.  What a *)
(* PDF holds is read once and kept, failures too.                            *)
PdfPages(node, pdf) ==
  LET first == Max({1, node.first})
      last == Min({pdf.pages, node.last})
      none(why) == [text |-> Absent, source |-> why]
  IN IF ~pdf.stored THEN none("storage_path_missing")
     ELSE IF PageSpan(node) = NoPage THEN none("page_span_missing")
     ELSE IF ~pdf.readable \/ pdf.pages = 0 THEN none("pdf_text_unavailable")
     ELSE IF last < first THEN none("page_span_out_of_range")
     ELSE [text |-> last - first + 1, source |-> "pdf_pages"]

(* The cache of read PDFs: the one read longest ago goes. *)
CacheGet(cache, key) ==
  IF Contains(cache, key) THEN Append(Remove(cache, key), key) ELSE cache
CachePut(cache, key, limit) ==
  LET next == Append(Remove(cache, key), key)
  IN SubSeq(next, Max({1, Len(next) - limit + 1}), Len(next))

(* The sections of all the manuals, each by manual and place in it. *)
Places(corpora) == UNION {{m} \X DOMAIN corpora[m].nodes : m \in DOMAIN corpora}

(* Sections that have a text to answer from, over all the manuals searched.  *)
ContentBacked(corpora) ==
  Cardinality({p \in Places(corpora) : corpora[p[1]].nodes[p[2]].text # Absent})

-----------------------------------------------------------------------------
(* Lexical scores.                                                           *)

TightSpan(span) == IF span \in 1..2 THEN 70 ELSE IF span \in 3..5 THEN 40 ELSE IF span \in 6..10 THEN 20 ELSE 0

LexicalScore(question, node) ==
  LET shared(field, cap) == Overlap(question, node[field].tokens, cap)
      phrase(field, worth) == IF PhraseHit(question, node[field]) THEN worth ELSE 0
      exact == question.phrases \cap node.section.holds # {}
      heard == \/ \E field \in {"title", "crumb", "manual", "summary", "section", "extra"} :
                    shared(field, 1) > 0
               \/ exact \/ PhraseHit(question, node.section)
  IN 400 * shared("title", 8) + phrase("title", 300)
     + 200 * shared("crumb", 8) + phrase("crumb", 100)
     + 125 * shared("manual", 6)
     + 75 * shared("summary", 6) + phrase("summary", 50)
     + 300 * shared("section", 40) + (IF exact THEN 1800 ELSE phrase("section", 600))
     + 35 * shared("extra", 4)
     + (IF heard THEN TightSpan(PageSpan(node)) + 12 * Lesser(node.depth, 4) ELSE 0)

-----------------------------------------------------------------------------
(* Dense scores, in percent.                                                 *)

NoScores == <<>>
Unavailable(why) == [scores |-> NoScores, reason |-> why, used |-> FALSE]

(* EsNodeDenseSearchBackend.search: one search per manual that has sections; *)
(* the first that fails throws away what the others gave.  A later manual's  *)
(* hit replaces an earlier one of the same section.                          *)
DenseSearch(query, embedding, es, replies) ==
  LET hits(m) == replies[m].hits
      found == UNION {DOMAIN hits(m) : m \in DOMAIN replies}
      from(k) == Max({m \in DOMAIN replies : k \in DOMAIN hits(m)})
  IN IF query = "" THEN Unavailable("query_empty")
     ELSE IF embedding # "vector" THEN Unavailable(embedding)
     ELSE IF es # "up" THEN Unavailable(es)
     ELSE IF \E m \in DOMAIN replies : replies[m].failed THEN Unavailable("es_search_error")
     ELSE IF found = {} THEN Unavailable("es_empty_result")
     ELSE [scores |-> [k \in found |-> hits(from(k))[k]], reason |-> "", used |-> TRUE]

BuildMode(raw) ==
  CASE raw \in {"1", "true", "yes", "on", "enable", "enabled", "build"} -> "enabled"
    [] raw \in {"dryrun", "dry_run", "dry"} -> "dry_run"
    [] OTHER -> "disabled"

(* Whether dense scores count.  The configuration is only asked once the     *)
(* build mode, or scores at hand, make dense search possible.                *)
DenseState(mode, build, configEnabled, scores) ==
  LET off(resolved, why) == [enabled |-> FALSE, resolved |-> resolved, reason |-> why]
      wanted == IF mode \in {"", "disabled", "disable", "false", "0", "no"} THEN "off" ELSE mode
  IN IF wanted \notin {"auto", "off", "provider", "system"} THEN off("off", "invalid_embedding_mode_disabled")
     ELSE IF wanted = "off" THEN off("off", "embedding_mode_disabled")
     ELSE IF BuildMode(build) = "disabled" /\ scores = NoScores
     THEN off("sparse_only", "embedding_build_mode_disabled")
     ELSE IF ~configEnabled THEN off("sparse_only", "embedding_unavailable")
     ELSE IF scores = NoScores THEN off("sparse_only", "embedding_cache_missing")
     ELSE [enabled |-> TRUE, resolved |-> "hybrid", reason |-> ""]

-----------------------------------------------------------------------------
(* The ranking.                                                              *)

SourceRank ==
  [document_routing_nodes |-> 0, routing_index_json |-> 1, structure_json |-> 2, metadata_only |-> 3]

(* The hybrid score of a section over (1000 * best): seven tenths lexical,   *)
(* as a share of the best section's, and three tenths dense, a section that  *)
(* dense search did not return counting as zero.                             *)
Hybrid(raw, best, dense, scores, key) ==
  IF ~dense.enabled THEN raw
  ELSE 700 * raw + 3 * best * (IF key \in DOMAIN scores THEN scores[key] ELSE 0)

(* Every section of every manual, best first; of equals the lexically better *)
(* one, then by source, by manual and by place in it.                        *)
RankSections(question, corpora, dense, scores) ==
  LET places == Places(corpora)
      node(p) == corpora[p[1]].nodes[p[2]]
      raw == [p \in places |-> LexicalScore(question, node(p))]
      best == Max({0} \cup {raw[p] : p \in places})
      hybrid == [p \in places |-> Hybrid(raw[p], best, dense, scores, node(p).key)]
      rank(p) == << -hybrid[p], -raw[p], SourceRank[corpora[p[1]].source], p[1], p[2] >>
      before(p, q) == \E k \in 1..5 : /\ rank(p)[k] < rank(q)[k]
                                      /\ \A j \in 1..(k - 1) : rank(p)[j] = rank(q)[j]
  IN Sorted(places, before)

Shortlist(ranked, topK) == Take(ranked, topK)

(* The advice the answer carries; a question that looks complex hides why    *)
(* dense search was not used.                                                *)
Recommendation(complex, dense, backed) ==
  CASE complex -> "use_deep_research"
    [] ~complex /\ backed <= 0 -> "data_not_ready"
    [] ~complex /\ backed > 0 /\ dense.reason # "" -> dense.reason
    [] OTHER -> ""

(* The search endpoint answers with between one and ten sections.            *)
ClampTopK(k) == Max({1, Min({k, 10})})

(* How many of the sections a reference names the first k contain, and out   *)
(* of how many (offline evaluation).                                         *)
Recall(ranked, reference, k) ==
  LET named == {ranked[r] : r \in 1..Min({k, Len(ranked)})}
  IN << Cardinality(named \cap reference), Cardinality(reference) >>
=============================================================================
