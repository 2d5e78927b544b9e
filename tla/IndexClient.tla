---------------------------- MODULE IndexClient ----------------------------
(* The library's client (pageindex/client.py, retrieve.py): a directory    *)
(* with a file per document and an overview of them, _meta.json, that       *)
(* several clients may share.  A file is Nothing, Corrupt or holds content. *)
EXTENDS Integers, Sequences, FiniteSets, SequencesExt

Nothing == [kind |-> "absent"]
Corrupt == [kind |-> "corrupt"]
Holds(content) == [kind |-> "json", content |-> content]

(* The part of a document that the overview repeats. *)
MakeMetaEntry(doc) == [type |-> doc.type, name |-> doc.name, count |-> doc.count]

-----------------------------------------------------------------------------
(* A directory: files, from identifiers, and the overview. *)

Readable(file) == file.kind = "json"

RebuildMeta(dir) ==
  [d \in {d \in DOMAIN dir.files : Readable(dir.files[d])} |-> MakeMetaEntry(dir.files[d].content)]

(* Saving writes the document, reads the overview and writes it back with one *)
(* entry more; one that is missing, broken or empty is made anew.             *)
WriteDoc(dir, id, doc) ==
  [dir EXCEPT !.files = [d \in DOMAIN @ \cup {id} |-> IF d = id THEN Holds(doc) ELSE @[d]]]

MetaToChange(dir) ==
  IF ~Readable(dir.meta) \/ DOMAIN dir.meta.content = {} THEN RebuildMeta(dir) ELSE dir.meta.content

WriteMeta(dir, meta, id, doc) ==
  [dir EXCEPT !.meta = Holds([d \in DOMAIN meta \cup {id} |-> IF d = id THEN MakeMetaEntry(doc) ELSE meta[d]])]

SaveDoc(dir, id, doc) ==
  LET written == WriteDoc(dir, id, doc) IN WriteMeta(written, MetaToChange(written), id, doc)

(* What a client that opens the directory knows: the overview, or the files   *)
(* if there is none; an empty one is taken at its word.                       *)
LoadWorkspace(dir) == IF Readable(dir.meta) THEN dir.meta.content ELSE RebuildMeta(dir)

(* The outline and the pages are read when they are asked for; a file that    *)
(* cannot be read leaves the document without them.                           *)
EnsureDocLoaded(dir, id) ==
  IF id \in DOMAIN dir.files /\ Readable(dir.files[id])
  THEN [structure |-> dir.files[id].content.structure, pages |-> dir.files[id].content.pages]
  ELSE [structure |-> <<>>, pages |-> <<>>]

-----------------------------------------------------------------------------
(* Asking for pages. *)

(* The parts between the commas, each <<n>> or <<from, to>>; other texts and  *)
(* ranges that run backwards are refused.                                     *)
ParsePages(parts) ==
  IF \E p \in DOMAIN parts : parts[p] = <<>> \/ parts[p][1] > Last(parts[p])
  THEN [refused |-> TRUE, pages |-> {}]
  ELSE [refused |-> FALSE, pages |-> UNION {parts[p][1]..Last(parts[p]) : p \in DOMAIN parts}]

(* The pages asked for that there are. *)
PdfPageContent(pageCount, asked) == SetToSortSeq(asked \cap 1..pageCount, <)

(* In Markdown pages are lines: the nodes that begin anywhere between the     *)
(* first and the last line asked for.                                         *)
MdPageContent(nodeLines, asked) ==
  SetToSortSeq({line \in nodeLines : Min(asked) <= line /\ line <= Max(asked)}, <)

GetPageContent(doc, parts) ==
  LET asked == ParsePages(parts)
  IN IF asked.refused THEN [error |-> TRUE, lines |-> <<>>]
     ELSE [error |-> FALSE, lines |-> IF doc.type = "pdf" THEN PdfPageContent(doc.count, asked.pages)
                                      ELSE MdPageContent(doc.structure, asked.pages)]
=============================================================================
