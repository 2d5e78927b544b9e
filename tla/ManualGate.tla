---------------------------- MODULE ManualGate ----------------------------
(***************************************************************************)
(* The manual gate (services/routing_consumer_service.py): from the        *)
(* manuals a question may be answered from, pick the one or two that are   *)
(* worth searching, or all of them when the signals do not decide.  The    *)
(* gate keeps no state: it is a function of the question, the manuals'     *)
(* routing data and the configured mode, and this module is that function. *)
(*                                                                         *)
(* A text is the set of its tokens; "holds" are the question's words that  *)
(* occur in it as substrings.  Scores are in quarter points: every weight  *)
(* of the code is a multiple of 0.25, so no rounding is lost.              *)
(***************************************************************************)
EXTENDS Integers, Sequences, FiniteSets, SequencesExt, Ordering

Modes == {"off", "shadow", "live"}

(* A mode given by a request or by the settings: "" is absent, any other    *)
(* word that is not a mode is a mistake that switches the gate off.         *)
ModeOf(raw) == IF raw \in Modes THEN raw ELSE "off"

ResolveMode(requested, default, allowLive) ==
  LET raw == IF requested # "" THEN requested ELSE default
      wrong == raw # "" /\ raw \notin Modes
      deferred == ModeOf(raw) = "live" /\ ~allowLive
  IN [requested |-> ModeOf(raw),
      effective |-> IF deferred THEN "shadow" ELSE ModeOf(raw),
      reason |-> IF wrong THEN "invalid_mode_disabled"
                 ELSE IF deferred THEN "live_deferred" ELSE ""]

-----------------------------------------------------------------------------
(* The inventory: what is known of a manual's sections, from the best source *)
(* that has any.  A source that cannot be read leaves a warning and is       *)
(* passed over; the routing rows come with the query and cannot fail.        *)

NoPage == 0

(* A parsed structure is a forest written in preorder, each section with the *)
(* index of the one above it (0 for none).                                   *)
StructureNodes(forest, label) ==
  LET depth[i \in DOMAIN forest] ==
        IF forest[i].above = 0 THEN 0 ELSE depth[forest[i].above] + 1
      trail[i \in DOMAIN forest] ==
        forest[i].title \cup (IF forest[i].above = 0 THEN label ELSE trail[forest[i].above])
  IN [i \in DOMAIN forest |->
        [title |-> forest[i].title, breadcrumb |-> trail[i], depth |-> depth[i],
         first |-> forest[i].first, last |-> forest[i].last]]

Inventory(ref) ==
  LET usable(kind) == kind \notin ref.unreadable /\ ref[kind] # <<>>
      warning == IF "structure" \in ref.unreadable THEN "structure_json_unavailable"
                 ELSE IF "index" \in ref.unreadable THEN "routing_index_json_unavailable" ELSE ""
  IN IF ref.rows # <<>>
     THEN [source |-> "document_routing_nodes", nodes |-> ref.rows, warning |-> ""]
     ELSE IF usable("index")
     THEN [source |-> "routing_index_json", nodes |-> ref.index, warning |-> ""]
     ELSE IF usable("structure")
     THEN [source |-> "structure_json",
           nodes |-> StructureNodes(ref.structure, ref.label.tokens), warning |-> warning]
     ELSE [source |-> "metadata_only", nodes |-> <<>>, warning |-> warning]

InventoryBonus ==
  [document_routing_nodes |-> 4, routing_index_json |-> 3, structure_json |-> 1, metadata_only |-> 0]

-----------------------------------------------------------------------------
(* Scores. *)

Overlap(question, tokens, cap) == Lesser(Cardinality(question.tokens \cap tokens), cap)

PhraseHit(question, text) == question.long \cap text.holds # {}

(* The pages a section spans; none when either end is unknown or they cross. *)
PageSpan(node) ==
  IF node.first = NoPage \/ node.last < node.first THEN NoPage ELSE node.last - node.first + 1

SpanBonus(span) == IF span \in 1..4 THEN 4 ELSE IF span \in 5..10 THEN 2 ELSE 0

NodeSignal(question, node) ==
  LET title == Overlap(question, node.title, 6)
      crumb == Overlap(question, node.breadcrumb, 4)
      heading == title > 0 \/ crumb > 0
  IN [title |-> title, breadcrumb |-> crumb,
      score |-> 5 * title + 3 * Lesser(crumb, 2)
                + (IF heading THEN Lesser(node.depth, 3) + SpanBonus(PageSpan(node)) ELSE 0)]

(* The first of the best sections; none when no section scores. *)
BestNode(question, nodes) ==
  LET signal == [i \in DOMAIN nodes |-> NodeSignal(question, nodes[i])]
      best == {i \in DOMAIN nodes : /\ signal[i].score > 0
                                    /\ \A j \in DOMAIN nodes : signal[j].score <= signal[i].score}
  IN IF best = {} THEN [title |-> 0, breadcrumb |-> 0, score |-> 0] ELSE signal[Min(best)]

ScoreManual(question, key, ref) ==
  LET inventory == Inventory(ref)
      best == BestNode(question, inventory.nodes)
      label == Overlap(question, ref.label.tokens, 4)
      file == Overlap(question, ref.file.tokens, 4)
      heard == << PhraseHit(question, ref.label), PhraseHit(question, ref.file),
                  label > 0, file > 0, best.title > 0, best.breadcrumb > 0 >>
  IN [key |-> key,
      nodes |-> Len(inventory.nodes),
      score |-> (IF heard[1] THEN 12 ELSE 0) + (IF heard[2] THEN 8 ELSE 0)
                + 6 * label + 4 * file + best.score + InventoryBonus[inventory.source],
      signals |-> Cardinality({s \in 1..6 : heard[s]})]

(* The manuals, best first; of equals the one named first. *)
Ranked(question, refs) ==
  LET scored == [i \in DOMAIN refs |-> ScoreManual(question, i, refs[i])]
      before(i, j) == \/ scored[i].score > scored[j].score
                      \/ scored[i].score = scored[j].score /\ i < j
      order == Sorted(DOMAIN refs, before)
  IN [r \in DOMAIN refs |-> scored[order[r]]]

-----------------------------------------------------------------------------
(* The decision. *)

Thresholds == [top1Score |-> 40, top1Delta |-> 12, top1Signals |-> 2,
               top2Score |-> 28, top2Delta |-> 6, top2Signals |-> 2]

TopOne(ranked) ==
  /\ ranked[1].score >= Thresholds.top1Score
  /\ ranked[1].score - ranked[2].score >= Thresholds.top1Delta
  /\ ranked[1].signals >= Thresholds.top1Signals

TopTwo(ranked) ==
  /\ Len(ranked) > 2
  /\ ranked[2].score >= Thresholds.top2Score
  /\ ranked[2].score - ranked[3].score >= Thresholds.top2Delta
  /\ ranked[2].signals >= Thresholds.top2Signals

NoInventory(ranked) == \A r \in DOMAIN ranked : ranked[r].nodes = 0

Undecided(ranked) ==
  CASE NoInventory(ranked) -> "missing_inventory"
    [] ~NoInventory(ranked) /\ ranked[1].signals = 0 -> "no_manual_signal"
    [] ~NoInventory(ranked) /\ ranked[1].signals > 0
         /\ ranked[1].score - ranked[2].score < Thresholds.top1Delta -> "ambiguous_manual_scores"
    [] OTHER -> "decision_threshold_not_met"

Decision(ranked) ==
  IF Len(ranked) <= 1 THEN [decision |-> "bypass_single_manual", count |-> Len(ranked), reason |-> ""]
  ELSE IF ~NoInventory(ranked) /\ TopOne(ranked) THEN [decision |-> "select_top1", count |-> 1, reason |-> ""]
  ELSE IF ~NoInventory(ranked) /\ TopTwo(ranked) THEN [decision |-> "select_top2", count |-> 2, reason |-> ""]
  ELSE [decision |-> "fallback_full", count |-> Len(ranked), reason |-> Undecided(ranked)]

Keys(ranked) == [r \in DOMAIN ranked |-> ranked[r].key]

AllManuals(n) == [i \in 1..n |-> i]

(* What is searched: the decision's manuals, best first, in live mode; all   *)
(* of them, as they were named, otherwise.  The decision is made in every    *)
(* mode, even off.                                                           *)
RunGate(question, refs, requested, default, allowLive) ==
  LET mode == ResolveMode(requested, default, allowLive)
      ranked == Ranked(question, refs)
      decision == Decision(ranked)
      live == mode.effective = "live"
  IN [effective |-> mode.effective,
      decision |-> decision.decision,
      selection |-> IF live THEN decision.decision ELSE "full_manuals",
      predicted |-> Take(Keys(ranked), decision.count),
      applied |-> IF live THEN Take(Keys(ranked), decision.count) ELSE AllManuals(Len(refs)),
      reason |-> IF mode.reason # "" THEN mode.reason ELSE decision.reason]

(* The gate failed: every manual is searched, and the mode is off.           *)
GateError(n) ==
  [effective |-> "off", decision |-> "fallback_full", selection |-> "full_manuals",
   predicted |-> AllManuals(n), applied |-> AllManuals(n), reason |-> "manual_gate_error"]

(* The search of the chosen manuals came to nothing: search them all.        *)
FullRetry(gate, n, why) ==
  [gate EXCEPT !.applied = AllManuals(n), !.selection = "full_manuals_after_retry", !.reason = why]

(* The gate in live mode has left manuals out. *)
Pruned(gate, n) ==
  /\ gate.effective = "live"
  /\ gate.selection \in {"select_top1", "select_top2"}
  /\ Len(gate.applied) < n

(* Mutant: candidates without a text count as a success. *)
RetryOnZeroHitsOnly(gate, n, candidates, blocks) ==
  IF Pruned(gate, n) /\ candidates = 0 THEN "zero_hit_full_retry" ELSE ""

(* Why all the manuals must be searched after all; "" when they need not be. *)
FullRetryReason(gate, n, candidates, blocks) ==
  IF ~Pruned(gate, n) THEN ""
  ELSE IF candidates = 0 THEN "zero_hit_full_retry"
  ELSE IF blocks = 0 THEN "empty_context_full_retry"
  ELSE ""

(* What the answer's citations say of the decision: were all the cited        *)
(* manuals among the first predicted one, or two?                             *)
ShadowEval(gate, cited) ==
  LET among(k) == {gate.predicted[r] : r \in 1..Min({k, Len(gate.predicted)})}
  IN [top1 |-> cited # {} /\ cited \subseteq among(1),
      top2 |-> cited # {} /\ cited \subseteq among(2),
      wouldFallBack |-> gate.decision = "fallback_full"]
=============================================================================
