--------------------------- MODULE SectionIndex ---------------------------
(***************************************************************************)
(* The section index: how a parsed version's sections are embedded and put *)
(* into Elasticsearch (services/node_embedding_service.py) and how a       *)
(* section's text is read back (services/section_text_provider.py).        *)
(*                                                                         *)
(* One Elasticsearch index holds the sections of one routing version and   *)
(* one embedding specification; a document in it says which section of     *)
(* which document version it is, of which routing version, and its text.   *)
(***************************************************************************)
EXTENDS Integers, Sequences, FiniteSets, SequencesExt

Absent == 0   \* a version, a checksum or a text that is not given

-----------------------------------------------------------------------------
(* The embedding bundle of a version: all its sections or none.              *)

BatchCount(n, size) == (n + size - 1) \div size

(* The first batch that fails ends the build (0: none does); what was         *)
(* embedded before it is counted and thrown away.                             *)
BuildBundle(sections, size, failing) ==
  LET n == Len(sections)
      done == IF failing = 0 THEN n ELSE (failing - 1) * size
  IN [status |-> IF done = n THEN "complete" ELSE IF done > 0 THEN "partial" ELSE "failed",
      nodes |-> IF done = n THEN sections ELSE <<>>,
      embedded |-> done,
      available |-> n > 0 /\ done = n]

CompleteBundle(bundle) ==
  bundle.status = "complete" /\ bundle.nodes # <<>> /\ bundle.embedded = Len(bundle.nodes)

(* get_or_build: a complete stored bundle is used again unless a rebuild is   *)
(* forced; otherwise one is built, and stored only in build mode.  A bundle   *)
(* that cannot be stored is not available.                                    *)
GetOrBuild(stored, built, force, enabled, storeFails) ==
  IF ~force /\ CompleteBundle(stored) THEN stored
  ELSE IF enabled /\ storeFails THEN [built EXCEPT !.available = FALSE]
  ELSE built

-----------------------------------------------------------------------------
(* Synchronisation.                                                           *)

(* ensure_es_index: makes the index when it is missing; an index with another *)
(* vector length is only reported.  Whatever it says, the upsert follows.     *)
Ensure(exists, wrongLength, created) ==
  [exists |-> exists \/ created, matches |-> ~exists \/ ~wrongLength]

(* The documents of an index after a bulk upsert of a bundle's sections, of   *)
(* which Elasticsearch took the accepted ones.  The document's identity is    *)
(* the section's key: what was there before is replaced, nothing is removed.  *)
Upsert(docs, bundle, owner, routing, accepted) ==
  LET added == {[owner |-> owner, node |-> bundle.nodes[i].id, routing |-> routing,
                 version |-> routing, text |-> bundle.nodes[i].tokens] :
                  i \in DOMAIN bundle.nodes \cap accepted}
      replaced(d) == \E a \in added : <<a.owner, a.node, a.routing>> = <<d.owner, d.node, d.routing>>
  IN IF ~bundle.available THEN docs ELSE {d \in docs : ~replaced(d)} \cup added

(* The parse job goes on only when every section was taken.                   *)
Synced(bundle, accepted) == bundle.available /\ DOMAIN bundle.nodes \subseteq accepted

-----------------------------------------------------------------------------
(* Reading a section's text.                                                  *)

Missing == [status |-> "missing", text |-> Absent, routing |-> Absent, reason |-> "section_text_missing"]

(* What makes a text stale: it does not name its routing version, or names    *)
(* another than expected, or its checksum is not the expected one.            *)
Staleness(doc, routing, checksum) ==
  CASE doc.version = Absent -> "routing_index_version_missing"
    [] doc.version # Absent /\ routing # Absent /\ doc.version # routing -> "routing_index_version_mismatch"
    [] OTHER -> IF checksum = Absent \/ doc.text = checksum THEN ""
                ELSE IF doc.text = Absent THEN "section_text_checksum_missing"
                ELSE "section_text_checksum_mismatch"

TextOf(doc, routing, checksum) ==
  LET why == Staleness(doc, routing, checksum)
  IN [status |-> IF why # "" THEN "stale" ELSE IF doc.text # Absent THEN "ready" ELSE "missing",
      text |-> doc.text, routing |-> doc.version,
      reason |-> IF why = "" /\ doc.text = Absent THEN "section_text_missing" ELSE why]

(* The documents a search for a section of a version returns: the index is    *)
(* named for the routing version (none given: the first).                     *)
Hits(docs, owner, node, routing) ==
  {d \in docs : /\ d.owner = owner
                /\ d.node = node
                /\ d.routing = IF routing = Absent THEN 1 ELSE routing}

(* Mutant: the text of a section whichever revision it is of. *)
SectionTextOfAny(docs, owner, node, routing, reachable) ==
  LET hits == {d \in docs : d.owner = owner /\ d.node = node}
  IN IF ~reachable \/ hits = {} THEN Missing
     ELSE TextOf(CHOOSE d \in hits : \A e \in hits : e.routing <= d.routing, Absent, Absent)

(* get_for_citations, for a citation that names its section.  Elasticsearch   *)
(* switched off, out of reach, without the index or failing the search all    *)
(* give a missing text, never an error.                                       *)
SectionText(docs, owner, node, routing, reachable) ==
  LET hits == Hits(docs, owner, node, routing)
  IN IF ~reachable \/ hits = {} THEN Missing
     ELSE TextOf(CHOOSE d \in hits : TRUE, routing, Absent)

(* A search for several sections is as good as the best text it finds.        *)
BatchStatus(records) ==
  LET has(status) == \E r \in records : r.status = status
  IN IF has("ready") THEN "ready" ELSE IF has("stale") THEN "stale" ELSE "missing"
=============================================================================
