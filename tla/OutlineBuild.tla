---------------------------- MODULE OutlineBuild ---------------------------
(* How the outline of a PDF is found with a model (pageindex/page_index.py): *)
(* from its table of contents, with the pages it gives or without them, or   *)
(* from its text; checked, repaired and split; and that of a Markdown file,  *)
(* from its headings.  What the model says is a parameter.  Pages of the     *)
(* scan count from zero, like the code's.                                    *)
EXTENDS OutlineTree

-----------------------------------------------------------------------------
(* Asking the model, in pageindex/utils.py.  An attempt's outcome is "failed",*)
(* "fatal" (the model does not exist), or what the reply says: "yes", "no" or *)
(* "other", which is no JSON or lacks the answer.                             *)

(* The first of ten attempts that does not fail is the reply; a fatal failure *)
(* is raised, ten others are too if the caller wants that and else give an    *)
(* empty text, which reads like any other text that is no JSON.               *)
LlmCompletion(attempts, raiseOnError) ==
  LET ended == {k \in 1..Min({10, Len(attempts)}) : attempts[k] # "failed"}
  IN CASE ended # {} /\ attempts[Min(ended)] = "fatal" -> "raised"
       [] ended # {} /\ attempts[Min(ended)] # "fatal" -> attempts[Min(ended)]
       [] ended = {} -> IF raiseOnError THEN "raised" ELSE "other"

(* An answer the code takes for granted; without it the build fails. *)
TocDetectorSinglePage(attempts) ==
  LET reply == LlmCompletion(attempts, FALSE)
  IN IF reply \in {"raised", "other"} THEN "raised" ELSE reply

(* An answer that is no unless it is given; a section on no page is not asked *)
(* about.                                                                     *)
CheckTitleAppearance(at, attempts) ==
  IF at = NoPage THEN "no"
  ELSE LET reply == LlmCompletion(attempts, FALSE) IN IF reply = "other" THEN "no" ELSE reply

-----------------------------------------------------------------------------
(* Looking for the table of contents. *)

(* From a page on, until the first page that is not part of it after one that *)
(* was; the first pages only, unless it has begun.                            *)
FindTocPages(from, detected, limit) ==
  LET begun(i) == \E j \in from..(i - 1) : detected[j] = "yes"
      ends(i) == (i >= limit /\ ~begun(i)) \/ (detected[i] = "no" /\ begun(i))
  IN {i \in DOMAIN detected : i >= from /\ detected[i] = "yes" /\ \A j \in from..i : ~ends(j)}

(* The first table, unless it has no page numbers and a later one among the   *)
(* first pages has.                                                           *)
CheckToc(detected, numbered, limit) ==
  LET first == FindTocPages(0, detected, limit)
      pages == Cardinality(DOMAIN detected)
      without == [pages |-> first, numbers |-> "no"]
      later[i \in 0..pages] ==
        LET more == FindTocPages(i, detected, limit)
        IN IF i >= pages \/ i >= limit \/ more = {} THEN without
           ELSE IF numbered[more] = "yes" THEN [pages |-> more, numbers |-> "yes"]
           ELSE later[Max(more) + 1]
  IN IF first = {} THEN without
     ELSE CASE numbered[first] = "yes" -> [pages |-> first, numbers |-> "yes"]
            [] numbered[first] = "no" -> later[Max(first) + 1]
            [] OTHER -> without

(* A reply cut short is continued a number of times.  A reply ends the table  *)
(* if the model then says that it is complete and was not cut short.          *)
Completed(replies, calls) ==
  \E k \in 1..Min({calls, Len(replies)}) : replies[k].complete /\ replies[k].finished

TocTransformer(replies) == Completed(replies, 6)
ExtractTocContent(replies) == Completed(replies, 7)

-----------------------------------------------------------------------------
(* Pages from printed page numbers.  toc: sections with a printed page, a     *)
(* number or NoPage; physical: what the model found of them in the text.      *)

ExtractMatchingPagePairs(toc, physical, from) ==
  LET pairs == [k \in 1..(Len(physical) * Len(toc)) |->
                  <<physical[((k - 1) \div Len(toc)) + 1], toc[((k - 1) % Len(toc)) + 1]>>]
  IN SelectSeq(pairs, LAMBDA p : p[1].title = p[2].title /\ p[1].at # NoPage /\ p[1].at >= from)

(* The difference most pairs agree on, of equals the one met first. *)
CalculatePageOffset(pairs) ==
  LET known == SelectSeq(pairs, LAMBDA p : p[2].page # NoPage)
      diff == [k \in DOMAIN known |-> known[k][1].at - known[k][2].page]
      votes(k) == Cardinality({j \in DOMAIN diff : diff[j] = diff[k]})
      best == Max({votes(k) : k \in DOMAIN diff})
  IN IF diff = <<>> THEN NoPage ELSE diff[Min({k \in DOMAIN diff : votes(k) = best})]

AddPageOffset(toc, offset) ==
  [i \in DOMAIN toc |-> [code |-> toc[i].code, title |-> toc[i].title,
                         at |-> IF toc[i].page = NoPage THEN NoPage ELSE toc[i].page + offset]]

(* A section without a page is looked for between its neighbours that have    *)
(* one: from the first page on before there is one; after the last of them    *)
(* the model is shown nothing.  answer[i]: the page it then names, if any.    *)
ProcessNonePageNumbers(items, pages, answer) ==
  LET fill(filled, i) ==
        LET before == {j \in 1..(i - 1) : filled[j].at # NoPage}
            after == {j \in (i + 1)..Len(items) : items[j].at # NoPage}
            first == IF before = {} THEN 0 ELSE filled[Max(before)].at
            last == IF after = {} THEN -1 ELSE items[Min(after)].at
        IN IF filled[i].at # NoPage THEN filled
           ELSE [filled EXCEPT ![i] = [at |-> answer[i], shown |-> first..last \cap 1..pages] @@ @]
  IN FoldLeft(fill, items, [i \in DOMAIN items |-> i])

-----------------------------------------------------------------------------
(* The text in portions for the model, each a sequence of pages; the last     *)
(* page of a portion is also the first of the next.                           *)

Ceiling(n, d) == -((-n) \div d)

Tokens(tokens, part) == FoldLeft(LAMBDA sum, p : sum + tokens[p], 0, part)

PageListToGroupText(tokens, maxTokens) ==
  LET places == [p \in DOMAIN tokens |-> p]
      total == Tokens(tokens, places)
      parts == Ceiling(total, maxTokens)
      average == Ceiling(total + maxTokens * parts, 2 * parts)
      add(state, p) ==
        IF Tokens(tokens, state.part) + tokens[p] > average
        THEN [groups |-> Append(state.groups, state.part), part |-> (IF p > 1 THEN <<p - 1>> ELSE <<>>) \o <<p>>]
        ELSE [state EXCEPT !.part = Append(@, p)]
      end == FoldLeft(add, [groups |-> <<>>, part |-> <<>>], places)
  IN IF total <= maxTokens THEN <<places>>
     ELSE IF end.part = <<>> THEN end.groups ELSE Append(end.groups, end.part)

(* Without a table of contents: the sections of all portions, unless a reply  *)
(* was cut short.                                                             *)
ProcessNoToc(replies) ==
  [failed |-> \E k \in DOMAIN replies : replies[k].cut,
   items |-> FlattenSeq([k \in DOMAIN replies |-> replies[k].items])]

(* With one that has no page numbers: each portion's reply takes the place of *)
(* the list it was asked to complete; one that is no list leaves none.        *)
ProcessTocNoPageNumbers(toc, replies) ==
  [failed |-> FALSE,
   items |-> FoldLeft(LAMBDA items, reply : IF reply.cut THEN <<>> ELSE reply.items, toc, replies)]

(* With page numbers: shifted by the offset, the gaps filled.                 *)
ProcessTocWithPageNumbers(toc, physical, from, pages, answer, replies) ==
  LET offset == CalculatePageOffset(ExtractMatchingPagePairs(toc, physical, from))
  IN IF offset = NoPage THEN ProcessTocNoPageNumbers(toc, replies)
     ELSE [failed |-> FALSE, items |-> ProcessNonePageNumbers(AddPageOffset(toc, offset), pages, answer)]

-----------------------------------------------------------------------------
(* Checking and repairing a list of sections.  start: the first of the pages. *)

ValidateAndTruncate(items, pages, start) ==
  [i \in DOMAIN items |-> IF items[i].at > pages + start - 1 THEN [items[i] EXCEPT !.at = NoPage] ELSE items[i]]

(* Python's list: from -pages on an index counts from the end. *)
Indexable(at, pages, start) == at - start < pages /\ at - start >= -pages

(* How many of the sections are where they are said to be, out of how many,   *)
(* and which are not.  Without one in the second half of the pages - counted  *)
(* from the first page of the document - nothing is checked.                  *)
VerifyToc(items, pages, start, appears) ==
  LET placed == {i \in DOMAIN items : items[i].at # NoPage}
  IN IF placed = {} \/ 2 * items[Max(placed)].at < pages
     THEN [correct |-> 0, checked |-> 1, wrong |-> {}]
     ELSE [correct |-> Cardinality(placed \cap appears), checked |-> Cardinality(placed), wrong |-> placed \ appears]

(* Where a wrong section is looked for: between the nearest ones before and   *)
(* after it that are not wrong.                                               *)
SearchedPages(items, wrong, i, pages, start) ==
  LET sound == {j \in DOMAIN items \ wrong : items[j].at # NoPage}
      before == {j \in sound : j < i}
      after == {j \in sound : j > i}
      from == IF before = {} THEN start - 1 ELSE items[Max(before)].at
      to == IF after = {} THEN pages + start - 1 ELSE items[Min(after)].at
  IN from..to \cap start..(pages + start - 1)

(* What comes of looking for section i: the page the model names (or NoPage)  *)
(* and whether the title is then found on it.  A page outside of the text     *)
(* ends in an error, like a failed call, and the section is then neither      *)
(* repaired nor counted among those still wrong.                              *)
FixIncorrectToc(items, wrong, pages, start, found) ==
  LET failed == {i \in wrong : found[i].error \/ (found[i].at # NoPage /\ ~Indexable(found[i].at, pages, start))}
      fixed == {i \in wrong \ failed : found[i].at # NoPage /\ found[i].appears}
  IN [items |-> [i \in DOMAIN items |-> IF i \in fixed THEN [items[i] EXCEPT !.at = found[i].at] ELSE items[i]],
      wrong |-> wrong \ (failed \cup fixed)]

FixIncorrectTocWithRetries(items, wrong, pages, start, found) ==
  LET round(state, r) ==
        IF state.wrong = {} THEN state ELSE FixIncorrectToc(state.items, state.wrong, pages, start, found[r])
  IN FoldLeft(round, [items |-> items, wrong |-> wrong], <<1, 2, 3>>)

-----------------------------------------------------------------------------
(* The ways to an outline, each after the one before was not good enough.     *)

Judged(verified) ==
  CASE verified.correct = verified.checked /\ verified.wrong = {} -> "accepted"
    [] 5 * verified.correct > 3 * verified.checked /\ verified.wrong # {} -> "repaired"
    [] OTHER -> "next"

NextMode == [process_toc_with_page_numbers |-> "process_toc_no_page_numbers",
             process_toc_no_page_numbers |-> "process_no_toc",
             process_no_toc |-> "failed"]

(* The modes tried, the last the one whose sections are used.  verdict: what  *)
(* each mode comes to, "error" if it raises.                                  *)
MetaProcessor(mode, verdict) ==
  LET tried(modes, step) ==
        LET last == Last(modes)
        IN CASE last \in DOMAIN NextMode /\ verdict[last] = "error" -> Append(modes, "failed")
             [] last \in DOMAIN NextMode /\ verdict[last] = "next" -> Append(modes, NextMode[last])
             [] OTHER -> modes
  IN FoldLeft(tried, <<mode>>, <<1, 2, 3>>)

FirstMode(toc) == IF toc.numbers = "yes" THEN "process_toc_with_page_numbers" ELSE "process_no_toc"

(* A section is split again if it is on many pages with many tokens. *)
IsLarge(first, last, tokens, maxPages, maxTokens) ==
  last - first > maxPages
  /\ Tokens(tokens, [k \in 1..(last - first + 1) |-> first + k - 1]) >= maxTokens

(* The sections found in it go below it, but for a first one of its own       *)
(* title, and it then ends where they begin.                                  *)
SplitNode(title, last, items, opens) ==
  LET own == items # <<>> /\ items[1].title = title
      below == IF own THEN Tail(items) ELSE items
      opened == IF own THEN Tail(opens) ELSE opens
  IN [last |-> IF below = <<>> THEN last ELSE below[1].at,
      below |-> PostProcessing(below, opened, last)]

(* Whose title opens its page, as the model says; a failed call says no. *)
AppearStart(items, reply) == [i \in DOMAIN items |-> items[i].at # NoPage /\ reply[items[i].code] = "yes"]

(* tree_parser: sections whose page was found to lie beyond the document are  *)
(* left out, after it has been seen whether there is a preface.               *)
TreeParser(items, reply, pages) ==
  LET valid == SelectSeq(AddPrefaceIfNeeded(items), LAMBDA item : item.at # NoPage)
  IN PostProcessing(valid, AppearStart(valid, reply), pages)

(* The PDF's own outline, if there is one; the texts of the sections fail the *)
(* whole build if one is on no page.                                          *)
PageIndexMain(outline, parsed, pages, withTexts) ==
  LET forest == IF outline.above # <<>> THEN outline ELSE parsed
  IN [failed |-> withTexts /\ \E i \in DOMAIN forest.above : AddNodeText(forest, pages)[i].failed,
      forest |-> forest, ids |-> WriteNodeId(forest.above)]

-----------------------------------------------------------------------------
(* The outline of a Markdown file (pageindex/page_index_md.py).  A line has   *)
(* a kind - "fence", "blank", "text", or "head" with a level, indented or     *)
(* not.                                                                       *)

(* Headings outside of code blocks.  Every fence opens or closes a block.     *)
ExtractNodesFromMarkdown(lines) ==
  LET inCode[i \in 0..Len(lines)] == IF i = 0 THEN FALSE ELSE (lines[i].kind = "fence") # inCode[i - 1]
  IN SelectSeq([i \in DOMAIN lines |-> i], LAMBDA i : lines[i].kind = "head" /\ ~inCode[i])

(* Found on the stripped line but read from the line as it is: an indented    *)
(* heading is left out, its lines belonging to the section before.            *)
ExtractNodeTextContent(lines) ==
  LET heads == SelectSeq(ExtractNodesFromMarkdown(lines), LAMBDA i : ~lines[i].indented)
      end(k) == IF k = Len(heads) THEN Len(lines) ELSE heads[k + 1] - 1
  IN [k \in DOMAIN heads |->
        [line |-> heads[k], level |-> lines[heads[k]].level, text |-> [n \in 1..(end(k) - heads[k] + 1) |-> heads[k] + n - 1]]]

(* What follows a node on deeper levels, up to the first that is not deeper.  *)
FindAllChildren(nodes, i) ==
  {j \in (i + 1)..Len(nodes) : \A k \in (i + 1)..j : nodes[k].level > nodes[i].level}

(* Of its own text and of all below it; a line stands for a token.            *)
TextTokenCount(nodes) ==
  [i \in DOMAIN nodes |-> Len(nodes[i].text) + MapThenSumSet(LAMBDA j : Len(nodes[j].text), FindAllChildren(nodes, i))]

(* From the last node to the first: one with too few tokens takes in what is  *)
(* left of the nodes below it.                                                *)
TreeThinningForIndex(nodes, minTokens) ==
  LET count == TextTokenCount(nodes)
      thin[i \in 1..(Len(nodes) + 1)] ==
        IF i > Len(nodes) THEN [text |-> [k \in DOMAIN nodes |-> nodes[k].text], gone |-> {}]
        ELSE LET rest == thin[i + 1]
                 taken == SelectSeq([k \in DOMAIN nodes |-> k],
                                    LAMBDA k : k \in FindAllChildren(nodes, i) \ rest.gone)
             IN IF count[i] >= minTokens THEN rest
                ELSE [text |-> [rest.text EXCEPT ![i] = @ \o FlattenSeq([t \in DOMAIN taken |-> rest.text[taken[t]]])],
                      gone |-> rest.gone \cup Range(taken)]
      kept == SelectSeq([k \in DOMAIN nodes |-> k], LAMBDA k : k \notin thin[1].gone)
  IN [k \in DOMAIN kept |-> [nodes[kept[k]] EXCEPT !.text = thin[1].text[kept[k]]]]

(* A stack of the nodes whose sections are still open gives each its parent.  *)
BuildTreeFromNodes(nodes) ==
  LET pop(stack, level) == SelectSeq(stack, LAMBDA i : nodes[i].level < level)
      push(state, i) ==
        LET open == pop(state.stack, nodes[i].level)
        IN [stack |-> Append(open, i), above |-> Append(state.above, IF open = <<>> THEN 0 ELSE Last(open))]
  IN FoldLeft(push, [stack |-> <<>>, above |-> <<>>], [i \in DOMAIN nodes |-> i]).above

MdToTree(lines, thinning, minTokens) ==
  LET found == ExtractNodeTextContent(lines)
      nodes == IF thinning THEN TreeThinningForIndex(found, minTokens) ELSE found
  IN [nodes |-> nodes, above |-> BuildTreeFromNodes(nodes), lines |-> Len(lines)]

(* A leaf has a summary, another node a summary of what precedes the nodes    *)
(* below it; a text of few tokens is its own.                                 *)
SummaryOf(tree, i, threshold) ==
  [field |-> IF IsLeafNode(tree.above, i) THEN "summary" ELSE "prefix_summary",
   by |-> IF Len(tree.nodes[i].text) < threshold THEN "text" ELSE "model"]
=============================================================================
