-------------------------- MODULE MCComplianceRuns --------------------------
(***************************************************************************)
(* Instances of ComplianceRuns: one run and two workers, so that the run   *)
(* is popped twice, recovered while it executes, and executed by both.     *)
(* Before, TLC evaluates what the functions of ComplianceResults come to,  *)
(* for all small inputs, and the assumptions of CatalogChecks.             *)
(***************************************************************************)
EXTENDS ComplianceRuns, ComplianceResults, CatalogChecks

LOCAL Words == {"", "pass", "fail", "maybe"}
LOCAL UpTo(S, n) == UNION {[1..k -> S] : k \in 0..n}
LOCAL Numbers == {Absent, Junk, -1, 0, 3, 20, 21}

LOCAL Raw(kind) ==
  CASE kind = "verdict" -> [allowed : UpTo(Words, 3), onGap : Words] \cup [onGap : Words] \cup [allowed : UpTo(Words, 2)]
    [] kind = "output" -> [evidence : BOOLEAN] \cup {<<>>}
    [] kind = "retrieval" ->
         [perDocument : Numbers, pages : Numbers] \cup [selection : {"", "outline_llm", "other"}, rerank : {"", "off", "other"}]
         \cup [global : Numbers, tokens : Numbers, gate : {"", "live"}]
    [] kind = "generation" -> [temperature : Numbers] \cup {<<>>}
LOCAL Kinds == {"verdict", "output", "retrieval", "generation"}
LOCAL Accepted(kind) == {Normalize(kind, raw) : raw \in Raw(kind)} \ {Invalid}

(* What a check or a run stores is taken as it is when it is normalised again: *)
(* a check that could be stored never refuses a run for what it configures,   *)
(* and the run does what the check says wherever the request says nothing.    *)
(* The verdict for a gap is always one of the allowed ones                    *)
(* (_normalize_verdict_policy, create_compliance_run_from_check).             *)
ASSUME StoredConfigsRunAgain ==
  /\ \A kind \in Kinds : \A config \in Accepted(kind) : Normalize(kind, config) = config
  /\ \A policy \in Accepted("verdict") : policy.onGap \in Range(policy.allowed) /\ "" \notin Range(policy.allowed)
  /\ LET stored == [kind \in Kinds |-> Normalize(kind, <<>>)]
     IN \A kind \in Kinds : \A raw \in Raw(kind) :
          LET request == [k \in {kind} |-> raw]
              run == RunConfigs(stored, request)
          IN /\ run = Invalid <=> Normalize(kind, raw) = Invalid
             /\ run # Invalid => run[kind] = Normalize(kind, raw) /\ \A k \in Kinds \ {kind} : run[k] = stored[k]
             /\ run = UpdatedConfigs(stored, request)

(* A step is tried once more than it may be retried, its last outcome counts, *)
(* and it has waited less than one more delay would be (_retry_compliance_async).*)
ASSUME RetriesEnd ==
  \A retries \in 0..3 : \A outcomes \in [1..4 -> {"done", "failed"}] :
    LET step == Retried(outcomes, retries, 5)
    IN /\ step.attempts <= retries + 1
       /\ step.outcome = "failed" <=> \A n \in 1..(retries + 1) : outcomes[n] = "failed"
       /\ FoldLeft(LAMBDA sum, d : sum + d, 0, step.delays) = 5 * (2^(step.attempts - 1) - 1)

LOCAL Items(texts) == [id : {0, 2}, text : texts, cites : UpTo({1, 2, 9}, 2)]
LOCAL Policies == {NormalizeVerdictPolicy(<<>>), [allowed |-> <<"maybe">>, onGap |-> "maybe"]}
LOCAL Replies ==
  {NoReply} \cup {[NoReply EXCEPT !.verdict = v, !.confidence = c] : v \in Words, c \in Numbers}
  \cup {[NoReply EXCEPT !.verdict = "pass", !.evidence = e, !.gaps = g] :
          e \in UpTo(Items({"", "a"}), 2), g \in UpTo([id : {0}, text : {"", "g"}, cites : {<<9>>}], 1)}

(* Whatever the model replies: the verdict is allowed, evidence names only    *)
(* citations of the run and at least one, a result without evidence has a gap,*)
(* and evidence has distinct ids unless the model gave ids itself; but the    *)
(* verdict does not depend on the evidence, and a gap may name a citation     *)
(* there is not (_sanitize_verdict, _attach_evidence_provenance).             *)
ASSUME ResultsAreGrounded ==
  \A reply \in Replies, policy \in Policies, citations \in 0..2 :
    LET result == ResultOf(reply, citations, policy)
        item(n) == result.evidence[n]
    IN /\ result.verdict \in Range(policy.allowed)
       /\ result.verdict = ResultOf([reply EXCEPT !.evidence = <<>>], citations, policy).verdict
       /\ result.confidence \in {Absent} \cup 0..10
       /\ \A n \in DOMAIN result.evidence : item(n).cites # <<>> /\ Range(item(n).cites) \subseteq 1..citations
       /\ result.evidence = <<>> => result.gaps # <<>>
       /\ Len(result.evidence) = 2 =>
            (item(1).id = item(2).id <=> reply.evidence[1].id = 2)
       /\ citations = 0 => result.evidence = <<>> /\ (reply = NoReply => result = GapResult(policy))

LOCAL Choice == INSTANCE Evidence WITH LeadTokens <- 0, HeadingTokens <- 0, MarkerTokens <- 0, ReservedTokens <- 0

(* A list is called reranked only if the reply named a candidate; a reranker  *)
(* that failed leaves the round robin, in which the first manual has more     *)
(* candidates than another only when that one has no more; but a reply that   *)
(* names nobody leaves the first candidates, manual after manual, under the   *)
(* name of the round robin (run_compliance_run).                              *)
ASSUME RerankedOrMerged ==
  \A enabled, failed \in BOOLEAN, places \in UpTo(1..4, 2), k \in 1..3, n \in 0..2 :
    LET perManual == <<<<"a1", "a2">>, SubSeq(<<"b1", "b2">>, 1, n)>>
        sections == FlattenSeq(perManual)
        ranked == Choice!Rerank(sections, places, k)
        step == RerankStep(Choice!RoundRobin(perManual, k), sections, enabled,
                           [failed |-> failed, applied |-> ranked.applied, list |-> ranked.list])
        of(m) == {i \in DOMAIN step.list : step.list[i] \in Range(perManual[m])}
        named == enabled /\ ~failed /\ \E p \in Range(places) : p <= 2 + n
        fair == Cardinality(of(1)) <= Cardinality(of(2)) + 1 \/ Cardinality(of(2)) = n
    IN /\ step.strategy = "rerank_merge" <=> named
       /\ step.strategy # "rerank_merge" => (fair <=> ~(enabled /\ ~failed /\ k = 2 /\ n > 0))
=============================================================================
