------------------------- MODULE ComplianceResults -------------------------
(***************************************************************************)
(* What a compliance run is asked to do and what it makes of the model's   *)
(* reply (compliance_service.py): the configurations of a run and of a     *)
(* check, the retries of a step, the choice after reranking, and the       *)
(* result.  ComplianceRuns has the states of a run.                        *)
(*                                                                         *)
(* A number of a request may be absent (None, "") or no number at all;     *)
(* temperatures and confidences are in tenths.  A text is "" when there is *)
(* nothing in it but blanks.                                               *)
(***************************************************************************)
EXTENDS Integers, Sequences, FiniteSets, SequencesExt

Absent == -100
Junk == -200
Invalid == [invalid |-> TRUE]

-----------------------------------------------------------------------------
(* Configurations.  A field that is not in raw has the default. *)

Filled(raw, defaults) == [f \in DOMAIN defaults |-> IF f \in DOMAIN raw THEN raw[f] ELSE defaults[f]]

PositiveInt(v) == v \notin {Absent, Junk} /\ v > 0
Limit(v) == v = Absent \/ PositiveInt(v)

DefaultVerdictPolicy == [allowed |-> <<"pass", "fail", "inconclusive", "not_applicable">>, onGap |-> "inconclusive"]

NormalizeVerdictPolicy(raw) ==
  LET data == Filled(raw, DefaultVerdictPolicy)
      allowed == SelectSeq(data.allowed, LAMBDA v : v # "")
  IN IF data.onGap \notin Range(allowed) \ {""} THEN Invalid ELSE [allowed |-> allowed, onGap |-> data.onGap]

(* Stored with the run; no execution reads it. *)
DefaultOutputConfig == [f \in {"summary", "answer", "evidence", "gaps", "conflicts"} |-> TRUE]
NormalizeOutputConfig(raw) == Filled(raw, DefaultOutputConfig)

DefaultRetrievalConfig ==
  [perDocument |-> 5, global |-> 8, selection |-> "outline_llm", rerank |-> "auto",
   pages |-> 20, tokens |-> 12000, gate |-> ""]

(* Other fields are dropped, an embedding mode among them. *)
NormalizeRetrievalConfig(raw) ==
  LET data == Filled(raw, DefaultRetrievalConfig)
      config == [data EXCEPT !.selection = IF @ = "" THEN "outline_llm" ELSE @, !.rerank = IF @ = "" THEN "auto" ELSE @]
  IN IF /\ config.selection \in {"outline_llm", "lexical_fallback"}
        /\ config.rerank \in {"auto", "off", "provider", "system"}
        /\ PositiveInt(config.perDocument) /\ PositiveInt(config.global)
        /\ Limit(config.pages) /\ Limit(config.tokens)
     THEN config ELSE Invalid

NormalizeGenerationConfig(raw) ==
  LET data == Filled(raw, [temperature |-> 0])
  IN IF data.temperature = Absent \/ data.temperature \in 0..20 THEN data ELSE Invalid

Normalize(kind, raw) ==
  CASE kind = "verdict"    -> NormalizeVerdictPolicy(raw)
    [] kind = "output"     -> NormalizeOutputConfig(raw)
    [] kind = "retrieval"  -> NormalizeRetrievalConfig(raw)
    [] kind = "generation" -> NormalizeGenerationConfig(raw)

(* A run of a check takes each configuration as a whole from the request, if  *)
(* it has one, else from the check, and normalises it again.                  *)
RunConfigs(stored, payload) ==
  LET config(kind) == Normalize(kind, IF kind \in DOMAIN payload THEN payload[kind] ELSE stored[kind])
  IN IF \E kind \in DOMAIN stored : config(kind) = Invalid THEN Invalid
     ELSE [kind \in DOMAIN stored |-> config(kind)]

(* A change of a check names some configurations; one that is null is left.   *)
UpdatedConfigs(stored, change) ==
  LET config(kind) == Normalize(kind, change[kind])
  IN IF \E kind \in DOMAIN change : config(kind) = Invalid THEN Invalid
     ELSE [kind \in DOMAIN stored |-> IF kind \in DOMAIN change THEN config(kind) ELSE stored[kind]]

-----------------------------------------------------------------------------
(* Steps of an execution. *)

(* The attempts of a step come to outcomes; a failed one is made again after  *)
(* a delay that doubles, up to retries times.                                 *)
Retried(outcomes, retries, base) ==
  LET tries == {n \in 1..(retries + 1) : outcomes[n] = "done" \/ n = retries + 1}
      last == Min(tries)
  IN [outcome |-> outcomes[last], attempts |-> last,
      delays |-> [k \in 1..(last - 1) |-> base * 2^(k - 1)]]

(* reply: what the reranker made of the candidates, or that it failed in the  *)
(* end.  Only a reranked list is called one.                                  *)
RerankStep(merged, sections, enabled, reply) ==
  LET round == [list |-> merged, strategy |-> "round_robin_manual_merge", warned |-> FALSE]
  IN IF sections = <<>> \/ ~enabled THEN round
     ELSE IF reply.failed THEN [round EXCEPT !.warned = TRUE]
     ELSE [round EXCEPT !.list = reply.list, !.strategy = IF reply.applied THEN "rerank_merge" ELSE @]

-----------------------------------------------------------------------------
(* The result.  Citations are numbered from one; a reply has a verdict, a     *)
(* confidence, and evidence, gaps and conflicts as sequences of items with a  *)
(* text, the citations they name and an id, 0 if the model gave none.         *)

SanitizeVerdict(verdict, policy) == IF verdict \in Range(policy.allowed) THEN verdict ELSE policy.onGap

NormalizeConfidence(v) == IF v \in {Absent, Junk} THEN Absent ELSE Max({0, Min({v, 10})})

(* The n-th item without an id of its own is item n. *)
Numbered(items) == [n \in DOMAIN items |-> [items[n] EXCEPT !.id = IF @ = 0 THEN n ELSE @]]

AttachProvenance(items, citations) ==
  LET known(cites) == SelectSeq(cites, LAMBDA c : c \in 1..citations)
      cited == [n \in DOMAIN items |-> [Numbered(items)[n] EXCEPT !.cites = known(@)]]
  IN SelectSeq(cited, LAMBDA item : item.cites # <<>> /\ item.text # "")

(* Gaps and conflicts keep what they name, cited or not. *)
NormalizeItems(items) == SelectSeq(Numbered(items), LAMBDA item : item.text # "")

NoEvidenceGap == <<[id |-> 1, text |-> "insufficient_evidence", cites |-> <<>>]>>

(* No citation or no excerpt: the model is not asked. *)
GapResult(policy) ==
  [verdict |-> policy.onGap, confidence |-> Absent, evidence |-> <<>>, gaps |-> NoEvidenceGap, conflicts |-> <<>>]

ResultOf(reply, citations, policy) ==
  LET evidence == AttachProvenance(reply.evidence, citations)
      gaps == NormalizeItems(reply.gaps)
  IN [verdict |-> SanitizeVerdict(reply.verdict, policy), confidence |-> NormalizeConfidence(reply.confidence),
      evidence |-> evidence, gaps |-> IF evidence = <<>> /\ gaps = <<>> THEN NoEvidenceGap ELSE gaps,
      conflicts |-> NormalizeItems(reply.conflicts)]

(* A reply that is no object has nothing in it. *)
NoReply == [verdict |-> "", confidence |-> Absent, evidence |-> <<>>, gaps |-> <<>>, conflicts |-> <<>>]
=============================================================================
