---------------------------- MODULE OutlineTree ----------------------------
(* The outline of a document as a forest of sections (pageindex/utils.py).  *)
(* A forest is a sequence of sections in the order they were found and, for *)
(* each, the place of the section above it, 0 for a root.  Pages count from *)
(* one.                                                                     *)
EXTENDS Integers, Sequences, FiniteSets, SequencesExt

(* A section that is on no page (None). *)
NoPage == -1000

-----------------------------------------------------------------------------
(* Forests. *)

(* A section with the code 2.1.3 belongs to the last 2.1 before it; without   *)
(* one, or with a code of one part or none, it is a root.                     *)
ListToTree(items) ==
  [i \in DOMAIN items |->
     IF Len(items[i].code) <= 1 THEN 0
     ELSE Max({0} \cup {j \in 1..(i - 1) : items[j].code = Front(items[i].code)})]

(* The places from a root down to section i. *)
Path(above) ==
  LET path[i \in 0..Len(above)] == IF i = 0 THEN <<>> ELSE Append(path[above[i]], i)
  IN path

Children(above, i) == {j \in DOMAIN above : above[j] = i}

(* A section, then what is below it, then the next: structure_to_list.        *)
StructureToList(above) ==
  LET path == Path(above)
      before(i, j) == \/ IsStrictPrefix(path[i], path[j])
                      \/ \E k \in 1..Min({Len(path[i]), Len(path[j])}) :
                           /\ path[i][k] < path[j][k]
                           /\ SubSeq(path[i], 1, k - 1) = SubSeq(path[j], 1, k - 1)
  IN SetToSortSeq(DOMAIN above, before)

(* Numbers from zero, in that order. *)
WriteNodeId(above) ==
  LET order == StructureToList(above)
  IN [i \in DOMAIN above |-> (CHOOSE p \in DOMAIN order : order[p] = i) - 1]

IsLeafNode(above, i) == Children(above, i) = {}

-----------------------------------------------------------------------------
(* A list of sections with the page each begins on becomes a forest. *)

Preface == [code |-> <<0>>, title |-> "Preface", at |-> 1]

(* What precedes the first section, if its page is known. *)
AddPrefaceIfNeeded(items) ==
  IF items # <<>> /\ items[1].at # NoPage /\ items[1].at > 1 THEN <<Preface>> \o items ELSE items

(* A section ends where the next one begins: on the page before, if the next  *)
(* title opens its page.                                                      *)
PostProcessing(items, opens, lastPage) ==
  [above |-> ListToTree(items),
   first |-> [i \in DOMAIN items |-> items[i].at],
   last |-> [i \in DOMAIN items |->
               IF i = Len(items) THEN lastPage
               ELSE IF opens[i + 1] THEN items[i + 1].at - 1 ELSE items[i + 1].at]]

-----------------------------------------------------------------------------
(* The bookmarks embedded in a PDF, the sections as found in the file.  *)

(* A bookmark that leads nowhere takes the page of the first below it.        *)
ParsePdfOutlineItems(above, leads) ==
  LET start[i \in DOMAIN above] ==
        LET below == {j \in Children(above, i) : start[j] # NoPage}
        IN IF leads[i] # NoPage \/ below = {} THEN leads[i] ELSE start[Min(below)]
  IN start

(* Up to the page before the next bookmark beside it, or beside the one above *)
(* it, and so on; one with others below it ends with the last of them.        *)
AssignOutlineEndIndexes(above, start, pages) ==
  LET beside(i) == {j \in DOMAIN above : j > i /\ above[j] = above[i] /\ start[j] # NoPage}
      limit[i \in 0..Len(above)] ==
        IF i = 0 THEN pages
        ELSE IF beside(i) = {} THEN limit[above[i]] ELSE start[Min(beside(i))] - 1
      end[i \in DOMAIN above] ==
        IF IsLeafNode(above, i) THEN limit[i] ELSE Max({end[j] : j \in Children(above, i)})
  IN end

(* Roots without a title are left out with all that is below them; an outline *)
(* of fewer than five bookmarks that lead somewhere is not used.              *)
GetPdfOutlineTree(above, leads, titled, pages) ==
  LET start == ParsePdfOutlineItems(above, leads)
      path == Path(above)
      kept == SelectSeq([i \in DOMAIN above |-> i], LAMBDA i : titled[path[i][1]])
      place(i) == IF i = 0 THEN 0 ELSE CHOOSE k \in DOMAIN kept : kept[k] = i
      forest == [k \in DOMAIN kept |-> place(above[kept[k]])]
      first == [k \in DOMAIN kept |-> start[kept[k]]]
  IN IF Cardinality({k \in DOMAIN kept : first[k] # NoPage}) < 5
     THEN [above |-> <<>>, first |-> <<>>, last |-> <<>>]
     ELSE [above |-> forest, first |-> first, last |-> AssignOutlineEndIndexes(forest, first, pages)]

-----------------------------------------------------------------------------
(* The text of a section: its pages.  A page before the first is counted from *)
(* the end; one beyond either end, or a section on no page, is an error.      *)

TextOfPdfPages(first, last, pages) ==
  LET places == (first - 1)..(last - 1)
  IN [failed |-> first = NoPage \/ \E k \in places : k >= pages \/ k < -pages,
      pages |-> {IF k >= 0 THEN k + 1 ELSE pages + k + 1 : k \in places}]

AddNodeText(forest, pages) ==
  [i \in DOMAIN forest.above |-> TextOfPdfPages(forest.first[i], forest.last[i], pages)]

(* The first of the sections of a forest with this number. *)
CreateNodeMapping(above) ==
  LET id == WriteNodeId(above)
  IN [n \in {id[i] : i \in DOMAIN above} |-> CHOOSE i \in DOMAIN above : id[i] = n]
=============================================================================
