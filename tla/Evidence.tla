----------------------------- MODULE Evidence -----------------------------
(***************************************************************************)
(* From sections to evidence (services/pageindex_service.py): choosing a   *)
(* manual's candidate sections, merging the manuals' candidates, ranking   *)
(* them, and cutting the excerpts to the budgets of the answer's prompt.   *)
(* Pure functions; Retrieval calls them in the order chat_service does.    *)
(*                                                                         *)
(* A model's reply is the list of the identities it names (which may be    *)
(* unknown or repeated), a text that is not the JSON asked for, an error,  *)
(* or an error of the model itself, which nothing here catches.  An        *)
(* excerpt is its number of tokens, and tokens of joined texts add up.     *)
(***************************************************************************)
EXTENDS Integers, Sequences, FiniteSets, SequencesExt, Ordering

CONSTANTS
  LeadTokens,     \* the lines above an excerpt: citation, source, pages, title
  HeadingTokens,  \* the "## Section" line of an excerpt
  MarkerTokens,   \* the line that says an excerpt was cut
  ReservedTokens  \* 128 in the code: kept free when a section is cut

ASSUME EvidenceAssumption ==
  {LeadTokens, HeadingTokens, MarkerTokens, ReservedTokens} \subseteq Nat

NoLimit == -1
Within(n, limit) == limit = NoLimit \/ n <= limit

-----------------------------------------------------------------------------
(* Candidates of one manual. *)

Named(ids) == [kind |-> "json", ids |-> ids]
NotJson == [kind |-> "text", ids |-> <<>>]
CallFailed == [kind |-> "error", ids |-> <<>>]
Fatal == [kind |-> "fatal", ids |-> <<>>]

(* extract_json_with_repair: a reply that is not JSON is given to the model   *)
(* to repair; when that fails too, the reply counts as empty.                 *)
Repaired(reply, second) ==
  CASE reply.kind # "text" -> reply
    [] reply.kind = "text" /\ second.kind \in {"json", "fatal"} -> second
    [] OTHER -> Named(<<>>)

(* Sections whose title holds words of the question, most first; the first    *)
(* ones of the manual when no title does.                                     *)
Lexical(sections, k) ==
  LET hit == {i \in DOMAIN sections : sections[i].hits > 0}
      before(i, j) == \/ sections[i].hits > sections[j].hits
                      \/ (sections[i].hits = sections[j].hits /\ i < j)
      order == Sorted(hit, before)
      ranked == IF hit = {} THEN sections ELSE [r \in DOMAIN order |-> sections[order[r]]]
  IN [r \in 1..Lesser(k, Len(ranked)) |-> ranked[r].id]

(* The sections the model named, unknown ones left out, repeated ones kept;   *)
(* by title when it failed or named none.                                     *)
Outline(sections, reply, k) ==
  LET known(id) == \E i \in DOMAIN sections : sections[i].id = id
      named == Take(Filtered(reply.ids, {i \in DOMAIN reply.ids : known(reply.ids[i])}), k)
  IN IF named = <<>> THEN Lexical(sections, k) ELSE named

-----------------------------------------------------------------------------
(* The candidates of all manuals, each by its place and its manual's.         *)
Slots(perManual) == UNION {(DOMAIN perManual[m]) \X {m} : m \in DOMAIN perManual}

(* By manual, and by place: the manuals' candidates in a row.                 *)
InARow(perManual) ==
  LET before(a, b) == a[2] < b[2] \/ (a[2] = b[2] /\ a[1] < b[1])
      order == Sorted(Slots(perManual), before)
  IN [r \in DOMAIN order |-> perManual[order[r][2]][order[r][1]]]

(* Mutant: the manuals' candidates in a row, and then cut. *)
MergeInARow(perManual, k) == Take(InARow(perManual), k)

(* By place, and by manual: the first of each, then the second of each ...    *)
RoundRobin(perManual, k) ==
  LET before(a, b) == a[1] < b[1] \/ (a[1] = b[1] /\ a[2] < b[2])
      order == Sorted(Slots(perManual), before)
  IN [r \in 1..Lesser(k, Len(order)) |-> perManual[order[r][2]][order[r][1]]]

(* The places in the list of candidates a ranking names: unknown places and   *)
(* repeated ones are passed over.                                             *)
Distinct(places, n) ==
  LET first(r) == /\ places[r] \in 1..n
                  /\ \A q \in 1..(r - 1) : places[q] # places[r]
  IN Filtered(places, {r \in DOMAIN places : first(r)})

(* A ranking by a model or by DashScope's endpoint.  One that names no        *)
(* candidate leaves the first k in the order they had.                        *)
Rerank(candidates, places, k) ==
  LET ranked == Take(Distinct(places, Len(candidates)), k)
  IN IF ranked = <<>>
     THEN [applied |-> FALSE, list |-> Take(candidates, k)]
     ELSE [applied |-> TRUE, list |-> [r \in DOMAIN ranked |-> candidates[ranked[r]]]]

(* A generic /rerank endpoint: the reply is cut to k before the repeated      *)
(* places go, so a repeating endpoint yields fewer.                           *)
RerankGeneric(candidates, places, k) == Rerank(candidates, Take(places, k), k)

-----------------------------------------------------------------------------
(* Excerpts. *)

(* Sections of a PDF, each page range once, until the page budget is spent;   *)
(* one that is too long for the token budget is passed over.                  *)
AnswerContext(spans, maxPages, maxTokens) ==
  LET seen(i) == \E j \in 1..(i - 1) : spans[j].range = spans[i].range
      step[i \in 0..Len(spans)] ==
        IF i = 0 THEN [kept |-> <<>>, pages |-> 0, tokens |-> 0, stop |-> FALSE]
        ELSE LET s == step[i - 1]
                 pages == s.pages + spans[i].pages
                 tokens == s.tokens + spans[i].tokens
             IN IF s.stop \/ seen(i) THEN s
                ELSE IF ~Within(pages, maxPages) THEN [s EXCEPT !.stop = TRUE]
                ELSE IF ~Within(tokens, maxTokens) THEN s
                ELSE [kept |-> Append(s.kept, i), pages |-> pages, tokens |-> tokens, stop |-> FALSE]
  IN step[Len(spans)]

(* The debug fallback: one citation's pages out of the PDF, whole or not.     *)
PdfBlock(span, maxPages, maxTokens) ==
  LET context == AnswerContext(<<span>>, maxPages, maxTokens)
  IN IF context.kept = <<>> THEN 0 ELSE LeadTokens + HeadingTokens + context.tokens

(* One citation's block from a text of the section index: nothing when the    *)
(* text is not ready or the section has too many pages; cut when it is too    *)
(* long, and the marker comes on top of what was counted.                     *)
SectionBlock(ready, tokens, pages, maxPages, maxTokens) ==
  LET cut == Min({tokens, Max({1, maxTokens - ReservedTokens})})
  IN IF ~ready \/ tokens = 0 \/ ~Within(pages, maxPages) THEN 0
     ELSE IF Within(HeadingTokens + tokens, maxTokens) THEN LeadTokens + HeadingTokens + tokens
     ELSE IF ~Within(HeadingTokens + cut, maxTokens) THEN 0
     ELSE LeadTokens + HeadingTokens + cut + MarkerTokens

(* Mutant: the first block is let through whole, whatever it costs. *)
FirstBlockWhole(blocks, maxTokens) ==
  LET step[i \in 0..Len(blocks)] ==
        IF i = 0 THEN [kept |-> <<>>, total |-> 0]
        ELSE LET s == step[i - 1]
                 total == s.total + blocks[i].tokens
             IN IF i > 1 /\ ~Within(total, maxTokens) THEN s
                ELSE [kept |-> Append(s.kept, blocks[i]), total |-> total]
  IN step[Len(blocks)].kept

(* The tokens of blocks, added up. *)
Cost(blocks) ==
  LET upTo[i \in 0..Len(blocks)] == IF i = 0 THEN 0 ELSE upTo[i - 1] + blocks[i].tokens
  IN upTo[Len(blocks)]

(* The blocks that fit the whole budget: the first is cut when it is too long *)
(* by itself, and then stands alone; a later one that does not fit is left    *)
(* out and shorter ones after it may still come in.  Of a budget of nothing   *)
(* nothing is left to cut.                                                    *)
TotalBudget(blocks, maxTokens) ==
  LET step[i \in 0..Len(blocks)] ==
        IF i = 0 THEN [kept |-> <<>>, total |-> 0, cut |-> FALSE]
        ELSE LET s == step[i - 1]
                 total == s.total + blocks[i].tokens
             IN IF s.cut THEN s
                ELSE IF Within(total, maxTokens)
                THEN [kept |-> Append(s.kept, blocks[i]), total |-> total, cut |-> FALSE]
                ELSE IF s.kept # <<>> THEN s
                ELSE [kept |-> IF maxTokens > 0 THEN <<[blocks[i] EXCEPT !.tokens = maxTokens + MarkerTokens]>>
                               ELSE <<>>,
                      total |-> maxTokens, cut |-> TRUE]
  IN step[Len(blocks)].kept

NonEmpty(blocks) == Filtered(blocks, {i \in DOMAIN blocks : blocks[i].tokens > 0})

(* The context of an answer: the blocks that are not empty, within budget.    *)
BuildContext(blocks, maxTokens) == TotalBudget(NonEmpty(blocks), maxTokens)
=============================================================================
