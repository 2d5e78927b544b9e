---------------------------- MODULE OutlineChecks ---------------------------
(* What the functions of OutlineTree, OutlineBuild and IndexClient come to,  *)
(* for all small inputs; evaluated with the runs of MCDocuments.             *)
EXTENDS OutlineBuild, IndexClient

LOCAL UpTo(S, n) == UNION {[1..k -> S] : k \in 0..n}
LOCAL Ordered(f) == \A i, j \in DOMAIN f : i <= j => f[i] <= f[j]

(* Forests with at most n sections, each below the one before it, below one   *)
(* of those above that, or a root.                                            *)
LOCAL Forests(n) ==
  {above \in UNION {[1..k -> 0..(k - 1)] : k \in 1..n} :
     \A i \in DOMAIN above : above[i] = 0 \/ (i > 1 /\ above[i] \in Range(Path(above)[i - 1]))}

-----------------------------------------------------------------------------
(* Trees. *)

(* Whatever codes a model gives the sections, and in whatever order, no       *)
(* section is lost or listed twice, each is listed after the one it is below, *)
(* which has the code above its own, and the numbers of a section and of all  *)
(* below it have no other between them: list_to_tree, write_node_id.          *)
ASSUME EverySectionNumberedOnce ==
  \A codes \in UpTo({<<>>, <<1>>, <<2>>, <<1, 1>>, <<1, 1, 1>>}, 4) :
    LET above == ListToTree([i \in DOMAIN codes |-> [code |-> codes[i]]])
        id == WriteNodeId(above)
        under(i) == {j \in DOMAIN above : i \in Range(Path(above)[j])}
    IN /\ {id[i] : i \in DOMAIN id} = 0..(Len(codes) - 1)
       /\ \A i \in DOMAIN above :
            above[i] # 0 => above[i] < i /\ id[above[i]] < id[i] /\ IsStrictPrefix(codes[above[i]], codes[i])
       /\ \A i \in DOMAIN above : {id[j] : j \in under(i)} = id[i]..(id[i] + Cardinality(under(i)) - 1)

(* A model that lists the sections in the order of their pages, the first on  *)
(* a known page, leaves no page of the document out, and two sections in a    *)
(* row share the page on which the second begins, or none, if its title opens *)
(* that page: add_preface_if_needed, post_processing.                         *)
ASSUME SectionsCoverThePages ==
  \A pages \in 1..4 : \A at \in UpTo(1..pages, 3) \ {<<>>} : \A opening \in BOOLEAN :
    Ordered(at) =>
      LET items == AddPrefaceIfNeeded([i \in DOMAIN at |-> [code |-> <<i>>, title |-> i, at |-> at[i]]])
          forest == PostProcessing(items, [i \in DOMAIN items |-> opening], pages)
          span(i) == forest.first[i]..forest.last[i]
      IN /\ UNION {span(i) : i \in DOMAIN items} = 1..pages
         /\ \A i \in DOMAIN items, j \in DOMAIN items :
              j = i + 1 => span(i) \cap span(j) = IF opening THEN {} ELSE {forest.first[j]}

(* Bookmarks in the order of their pages: what is below a bookmark ends with  *)
(* it or before; of two beside each other no page belongs to both; a bookmark *)
(* has no page at all only if the next one beside it, or beside one above it, *)
(* leads to the same page; and no page after the first bookmark's is left     *)
(* out: _assign_outline_end_indexes.                                          *)
ASSUME BookmarksShareNoPage ==
  \A above \in Forests(4) : \A start \in [DOMAIN above -> 1..3] :
    Ordered(start) =>
      LET end == AssignOutlineEndIndexes(above, start, 3)
          span(i) == start[i]..end[i]
      IN /\ \A i \in DOMAIN above : above[i] # 0 => end[i] <= end[above[i]]
         /\ \A i, j \in DOMAIN above : i < j /\ above[i] = above[j] => span(i) \cap span(j) = {}
         /\ \A i \in DOMAIN above :
              span(i) = {} => \E j \in DOMAIN above : j > i /\ start[j] = start[i] /\ above[j] \in {0} \cup Range(Path(above)[i])
         /\ UNION {span(i) : i \in DOMAIN above} = start[1]..3

(* An outline with five good bookmarks is used, and another bookmark that     *)
(* leads nowhere, with none below it that leads somewhere, then fails the     *)
(* whole build when texts are added: get_pdf_outline_tree, add_node_text.     *)
ASSUME OneLostBookmarkFailsTheTexts ==
  LET leads(nowhere) == [i \in 1..6 |-> IF i \in nowhere THEN NoPage ELSE 1 + i \div 3]
      flat == [i \in 1..6 |-> 0]
      below == [i \in 1..6 |-> IF i = 4 THEN 3 ELSE 0]
      built(above, nowhere) ==
        PageIndexMain(GetPdfOutlineTree(above, leads(nowhere), [i \in 1..6 |-> TRUE], 3),
                      PostProcessing(<<Preface>>, <<FALSE>>, 3), 3, TRUE)
  IN \A nowhere \in SUBSET (1..6) :
       /\ built(flat, nowhere).failed <=> Cardinality(nowhere) = 1
       /\ built(below, nowhere).failed <=>
            \/ Cardinality(nowhere) = 1 /\ nowhere # {3}
            \/ Cardinality(nowhere) = 2 /\ 3 \in nowhere /\ 4 \notin nowhere

-----------------------------------------------------------------------------
(* Finding and checking the table of contents. *)

(* A model that cannot be reached and one that answers nothing of use are the *)
(* same to the build: the scan for a table of contents fails it, the check of *)
(* a title finds the title wrong; and one attempt in ten that succeeds is     *)
(* enough: llm_completion, extract_json.                                      *)
ASSUME OutageReadsAsNoAnswer ==
  \A failures \in 0..11 : \A answer \in {"yes", "no", "other", "fatal"} :
    LET attempts == [k \in 1..failures |-> "failed"] \o <<answer>>
    IN /\ TocDetectorSinglePage(attempts) =
            IF failures >= 10 \/ answer \in {"other", "fatal"} THEN "raised" ELSE answer
       /\ CheckTitleAppearance(1, attempts) =
            IF failures >= 10 \/ answer = "other" THEN "no" ELSE IF answer = "fatal" THEN "raised" ELSE answer

(* A table of contents is a run of pages that begins among the first pages;   *)
(* one with page numbers is preferred to an earlier one without: check_toc.   *)
ASSUME TableOfContentsIsARun ==
  \A limit \in {0, 2, 5} : \A detected \in [0..4 -> {"yes", "no"}] : \A numberedFrom \in 0..5 :
    LET numbered == [pages \in SUBSET (0..4) \ {{}} |-> IF Min(pages) >= numberedFrom THEN "yes" ELSE "no"]
        toc == CheckToc(detected, numbered, limit)
    IN toc.pages # {} =>
         /\ toc.pages = Min(toc.pages)..Max(toc.pages)
         /\ Min(toc.pages) < limit
         /\ toc.numbers = numbered[toc.pages]
         /\ toc.numbers = "no" => \A i \in 0..4 : ~(i < limit /\ i >= numberedFrom /\ detected[i] = "yes"
                                                     /\ (i = 0 \/ detected[i - 1] = "no"))

(* As long as most sections were found on their page the offset between       *)
(* printed and physical pages is right, and with it the page of each section, *)
(* found or not; the model is asked again only when none was found:           *)
(* calculate_page_offset, process_toc_with_page_numbers.                      *)
ASSUME OffsetByMajority ==
  \A offset \in -1..2 : \A found \in [1..5 -> 1..4 \cup {NoPage}] :
    LET toc == [i \in 1..5 |-> [code |-> <<i>>, title |-> i, page |-> 1 + i \div 3]]
        physical == [i \in 1..5 |-> [title |-> i, at |-> found[i]]]
        right == {i \in 1..5 : found[i] = toc[i].page + offset}
        wrong == {i \in 1..5 : found[i] # NoPage} \ right
        built == ProcessTocWithPageNumbers(toc, physical, 1, 4, [i \in 1..5 |-> NoPage], <<>>)
    IN /\ Cardinality(right) > Cardinality(wrong) => \A i \in 1..5 : built.items[i].at = toc[i].page + offset
       /\ built.items = toc <=> right \cup wrong = {}

(* A document whose first section was placed beyond its end loses the pages   *)
(* before the next section: that there is no preface is decided before the    *)
(* section is left out (tree_parser).                                         *)
ASSUME MisplacedFirstSectionHidesPages ==
  \A first \in 1..4 : \A second \in 1..3 :
    LET items == ValidateAndTruncate(<<[code |-> <<1>>, title |-> 1, at |-> first],
                                       [code |-> <<2>>, title |-> 2, at |-> second]>>, 3, 1)
        forest == TreeParser(items, [code \in {Preface.code, <<1>>, <<2>>} |-> "no"], 3)
        covered == UNION {forest.first[i]..forest.last[i] : i \in DOMAIN forest.above}
    IN first <= second \/ first = 4 => (covered = 1..3 <=> first <= 3 \/ second = 1)

(* The portions for the model hold every page, in order, and each but the     *)
(* first begins with the last page of the one before; a first page with more  *)
(* tokens than a portion leaves an empty portion before it, and only a portion*)
(* of its last page and the one repeated may be larger than the average:      *)
(* page_list_to_group_text.                                                   *)
ASSUME PortionsHoldEveryPage ==
  \A tokens \in UpTo({1, 2, 6}, 4) \ {<<>>} : \A maxTokens \in 2..5 :
    LET groups == PageListToGroupText(tokens, maxTokens)
        full == SelectSeq(groups, LAMBDA g : g # <<>>)
        total == Tokens(tokens, [p \in DOMAIN tokens |-> p])
    IN /\ UNION {Range(full[g]) : g \in DOMAIN full} = DOMAIN tokens
       /\ \A g \in 1..(Len(full) - 1) : Head(full[g + 1]) = Last(full[g]) /\ Len(full[g + 1]) > 1
       /\ \A g \in DOMAIN full : \A k \in 1..(Len(full[g]) - 1) : full[g][k + 1] = full[g][k] + 1
       /\ \A g \in DOMAIN groups : groups[g] = <<>> => g = 1 /\ tokens[1] > maxTokens \div 2
       /\ \A g \in DOMAIN full : total > maxTokens /\ Tokens(tokens, full[g]) > maxTokens => Len(full[g]) <= 2

(* Sections without a page never overwrite one with a page, and the model is  *)
(* only shown pages between the neighbours': process_none_page_numbers.       *)
ASSUME FillsOnlyTheGaps ==
  \A at \in [1..3 -> {NoPage, 1, 3}] : \A answer \in [1..3 -> {NoPage, 2}] :
    LET items == [i \in 1..3 |-> [title |-> i, at |-> at[i]]]
        filled == ProcessNonePageNumbers(items, 4, answer)
    IN \A i \in 1..3 :
         IF at[i] # NoPage THEN filled[i] = items[i]
         ELSE /\ filled[i].at = answer[i]
              /\ filled[i].shown # {} => \E j \in (i + 1)..3 : at[j] # NoPage /\ Max(filled[i].shown) = at[j]

(* Repairing changes nothing but wrong sections, and only to a page on which  *)
(* the title was found; in three rounds a section stays wrong only if each    *)
(* looked for it in vain, and one whose search failed once is neither changed *)
(* nor looked for again: fix_incorrect_toc_with_retries.                      *)
ASSUME RepairsTouchOnlyWhatIsWrong ==
  \A wrong \in SUBSET (1..2) :
  \A found \in [1..3 -> [1..2 -> {[error |-> TRUE, at |-> NoPage, appears |-> FALSE],
                                  [error |-> FALSE, at |-> 9, appears |-> TRUE],
                                  [error |-> FALSE, at |-> 2, appears |-> TRUE],
                                  [error |-> FALSE, at |-> 3, appears |-> FALSE]}]] :
    LET items == [i \in 1..2 |-> [title |-> i, at |-> 1]]
        end == FixIncorrectTocWithRetries(items, wrong, 4, 1, found)
        looked(i) == {r \in 1..3 : \A q \in 1..(r - 1) : ~found[q][i].error /\ found[q][i].at = 3}
    IN \A i \in 1..2 :
         /\ end.items[i].at # 1 => i \in wrong /\ end.items[i].at = 2
         /\ i \in end.wrong <=> i \in wrong /\ \A r \in 1..3 : ~found[r][i].error /\ found[r][i].at = 3
         /\ i \in wrong \ end.wrong => (end.items[i].at = 1 <=> found[Max(looked(i))][i].at # 2)

(* A part of a document that begins in the second half of what it is compared *)
(* with passes the test for a section near its end whatever was found, since  *)
(* its length is compared with a page of the whole document: verify_toc.      *)
ASSUME PartsAreCheckedWhereverTheyEnd ==
  \A pages \in 1..4 : \A start \in 1..6 : \A at \in start..(start + pages - 1) :
    LET items == <<[title |-> 1, at |-> at]>>
        verified == VerifyToc(items, pages, start, {1})
    IN Judged(verified) = "accepted" <=> 2 * at >= pages

(* The text itself is tried before a document is given up, unless a mode      *)
(* before it raised an error: meta_processor.                                 *)
ASSUME TextIsTheLastResort ==
  \A verdict \in [DOMAIN NextMode -> {"accepted", "repaired", "next", "error"}] : \A mode \in DOMAIN NextMode :
    LET modes == MetaProcessor(mode, verdict)
    IN /\ Last(modes) = "failed" =>
            "process_no_toc" \in Range(modes) \/ \E m \in Range(Front(modes)) : verdict[m] = "error"
       /\ Last(modes) # "failed" => verdict[Last(modes)] \in {"accepted", "repaired"}
       /\ IsInjective(modes)

(* Splitting a section keeps its pages: those before the sections found in it *)
(* stay with it, and the rest are theirs; but a single section found on its   *)
(* first page, under another title, is as large as it was, and is split       *)
(* again: process_large_node_recursively.                                     *)
ASSUME SplitKeepsThePages ==
  \A at \in UpTo(2..5, 3) : \A own \in BOOLEAN :
    Ordered(at) =>
      LET items == [i \in DOMAIN at |-> [code |-> <<i>>, title |-> IF own /\ i = 1 THEN "whole" ELSE "part", at |-> at[i]]]
          split == SplitNode("whole", 5, items, [i \in DOMAIN items |-> FALSE])
          spans == {split.below.first[i]..split.below.last[i] : i \in DOMAIN split.below.above}
      IN /\ 2..split.last \cup UNION spans = 2..5
         /\ spans # {} => 2..split.last \cap UNION spans = {split.last}
         /\ (at = <<2>> /\ ~own) => spans = {2..5}

-----------------------------------------------------------------------------
(* Markdown. *)

LOCAL MarkdownLines ==
  {[kind |-> "fence"], [kind |-> "text"]} \cup [kind : {"head"}, level : 1..3, indented : {FALSE}]
    \cup [kind : {"head"}, level : {2}, indented : {TRUE}]

(* From the first heading that counts, every line is in the text of exactly   *)
(* one node, thinned or not; no node begins in a block of code; and what      *)
(* thinning has moved lies below the node it went to:                         *)
(* extract_node_text_content, tree_thinning_for_index.                        *)
ASSUME EveryLineInOneNode ==
  \A lines \in UpTo(MarkdownLines, 4) : \A thinning \in BOOLEAN : \A minTokens \in {2, 4} :
    LET tree == MdToTree(lines, thinning, minTokens)
        text == FlattenSeq([k \in DOMAIN tree.nodes |-> tree.nodes[k].text])
        heads == ExtractNodeTextContent(lines)
    IN /\ text = IF tree.nodes = <<>> THEN <<>>
                 ELSE [n \in 1..(Len(lines) - tree.nodes[1].line + 1) |-> tree.nodes[1].line + n - 1]
       /\ \A h \in DOMAIN heads : Cardinality({j \in 1..heads[h].line : lines[j].kind = "fence"}) % 2 = 0
       /\ \A k \in DOMAIN tree.nodes, h \in DOMAIN heads :
            heads[h].line \in Range(tree.nodes[k].text) /\ heads[h].line # tree.nodes[k].line
              => heads[h].level > tree.nodes[k].level

(* The parent of a node is the nearest before it on a higher level:           *)
(* build_tree_from_nodes.                                                     *)
ASSUME ParentIsTheNearestAbove ==
  \A levels \in UpTo(1..3, 5) :
    LET nodes == [i \in DOMAIN levels |-> [level |-> levels[i]]]
    IN BuildTreeFromNodes(nodes)
         = [i \in DOMAIN nodes |-> Max({0} \cup {j \in 1..(i - 1) : levels[j] < levels[i]})]

-----------------------------------------------------------------------------
(* The client. *)

LOCAL Doc(n) == [type |-> "pdf", name |-> n, count |-> 3, structure |-> <<>>, pages |-> <<1, 2, 3>>]
LOCAL EmptyDir == [files |-> [d \in {} |-> Corrupt], meta |-> Nothing]

(* One client, whose overview may be damaged or lost between two saves: a     *)
(* client that opens the directory later knows every document:                *)
(* _save_meta, _load_workspace.                                               *)
ASSUME ReopenedClientKnowsAll ==
  \A damage \in {Nothing, Corrupt, Holds([d \in {} |-> Doc("a")])} : \A when \in 0..2 :
    LET hurt(dir, k) == IF k = when THEN [dir EXCEPT !.meta = damage] ELSE dir
        one == hurt(SaveDoc(hurt(EmptyDir, 0), "a", Doc("a")), 1)
        two == hurt(SaveDoc(one, "b", Doc("b")), 2)
    IN \/ DOMAIN LoadWorkspace(two) = {"a", "b"}
       \/ when = 2 /\ damage.kind = "json" /\ LoadWorkspace(two) = damage.content

(* Two clients that save into one directory: the files of both stay, and the  *)
(* overview loses the entry of the one that wrote it first exactly if the     *)
(* other had read it before that: _save_meta.                                 *)
ASSUME OverviewLosesTheFirstWriter ==
  \A known \in BOOLEAN : \A readFirst \in BOOLEAN :
    LET start == IF known THEN SaveDoc(EmptyDir, "c", Doc("c")) ELSE EmptyDir
        written == WriteDoc(start, "a", Doc("a"))
        seen == MetaToChange(IF readFirst THEN written ELSE WriteMeta(WriteDoc(written, "b", Doc("b")),
                                                                     MetaToChange(written), "b", Doc("b")))
        other == SaveDoc(written, "b", Doc("b"))
        end == WriteMeta(other, seen, "a", Doc("a"))
    IN /\ {"a", "b"} \subseteq DOMAIN end.files
       /\ "b" \notin DOMAIN LoadWorkspace(end) <=> readFirst

(* Of the pages asked for a client is given those there are, each once and in *)
(* order; in Markdown also nodes that begin between two lines asked for:      *)
(* get_page_content.                                                          *)
ASSUME PagesInOrder ==
  \A parts \in UpTo({<<2>>, <<1, 3>>, <<5>>, <<4, 2>>, <<>>}, 2) \ {<<>>} :
    LET pdf == GetPageContent(Doc("a"), parts)
        md == GetPageContent([Doc("a") EXCEPT !.type = "md", !.structure = {1, 3, 4}], parts)
    IN /\ pdf.error <=> \E p \in DOMAIN parts : parts[p] \in {<<4, 2>>, <<>>}
       /\ ~pdf.error => /\ Range(pdf.lines) = 1..3 \cap UNION {parts[p][1]..Last(parts[p]) : p \in DOMAIN parts}
                        /\ \A k \in 1..(Len(pdf.lines) - 1) : pdf.lines[k] < pdf.lines[k + 1]
                        /\ (parts = <<<<2>>, <<5>>>>) => md.lines = <<3, 4>>
=============================================================================
