------------------------------ MODULE Catalog ------------------------------
(***************************************************************************)
(* Knowledge bases, skills and compliance checks (knowledge_base_service,  *)
(* skill_service, and the checks of compliance_service): what a request    *)
(* makes of the rows it has read, and what its commit makes of the rows    *)
(* another request has committed meanwhile.                                *)
(*                                                                         *)
(* A catalog is a record of tables: documents (a set), kbs, skills, checks *)
(* (id -> row), bindings (<<kb, document>> -> row) and links (the pairs    *)
(* <<skill, document>> of ChatSkillDocument).  The library lib a request   *)
(* sees says which documents its principal may use (mine), the document of *)
(* a version (of), the active version of a document (active), the versions *)
(* that are index_ready with a structure (ready), and which provider can   *)
(* be bound with which model (serves).  Documents and versions are numbers.*)
(***************************************************************************)
EXTENDS AccessPolicy, Integers, Sequences, SequencesExt

None == 0
NoStatus == "null"
Refused == [refused |-> TRUE]

BindingsOf(c, kb) == {b \in DOMAIN c.bindings : b[1] = kb}
EnabledIn(c, kb)  == {b[2] : b \in {e \in BindingsOf(c, kb) : c.bindings[e].enabled}}
LinksOf(c, skill) == {l \in c.links : l[1] = skill}

Drop(table, ids) == [id \in DOMAIN table \ ids |-> table[id]]
Put(table, id, row) == [i \in DOMAIN table \cup {id} |-> IF i = id THEN row ELSE table[i]]

-----------------------------------------------------------------------------
(* Commits.  The session writes the difference between what the request read *)
(* and what it wants: it inserts, it deletes (a row that is gone already is   *)
(* only a warning), and it updates the columns that differ; an object put in  *)
(* the place of another with the same key, told by its creation time, is an   *)
(* update of all columns.                                                     *)

UpdatedRow(row, read, wanted) ==
  IF "at" \in DOMAIN wanted /\ wanted.at # read.at THEN wanted
  ELSE [f \in DOMAIN row |-> IF wanted[f] # read[f] THEN wanted[f] ELSE row[f]]

(* An insert of a key that is there, or an update of a row that is gone. *)
Collides(rows, read, wanted) ==
  \/ (DOMAIN wanted \ DOMAIN read) \cap DOMAIN rows # {}
  \/ \E id \in DOMAIN wanted \cap DOMAIN read : wanted[id] # read[id] /\ id \notin DOMAIN rows

Flush(rows, read, wanted) ==
  LET inserted == DOMAIN wanted \ DOMAIN read
      deleted == DOMAIN read \ DOMAIN wanted
      updated == {id \in DOMAIN wanted \cap DOMAIN read : wanted[id] # read[id]}
  IN [id \in (DOMAIN rows \ deleted) \cup inserted |->
        IF id \in inserted THEN wanted[id]
        ELSE IF id \in updated THEN UpdatedRow(rows[id], read[id], wanted[id]) ELSE rows[id]]

(* The foreign keys of the tables; a check has none. *)
Referenced(c) ==
  /\ \A b \in DOMAIN c.bindings : b[1] \in DOMAIN c.kbs /\ b[2] \in c.documents
  /\ \A l \in c.links : l[1] \in DOMAIN c.skills /\ l[2] \in c.documents
  /\ \A s \in DOMAIN c.skills : c.skills[s].kb \in DOMAIN c.kbs \cup {None}

CommitRows(rows, read, wanted) ==
  LET gone == read.documents \ wanted.documents
      dropped == DOMAIN read.skills \ DOMAIN wanted.skills
      linked == (rows.links \ (read.links \ wanted.links)) \cup (wanted.links \ read.links)
      bound == Flush(rows.bindings, read.bindings, wanted.bindings)
      next == [documents |-> rows.documents \ gone,
               kbs |-> Flush(rows.kbs, read.kbs, wanted.kbs),
               skills |-> Flush(rows.skills, read.skills, wanted.skills),
               checks |-> Flush(rows.checks, read.checks, wanted.checks),
               (* deletions by document or skill, not by the rows read *)
               bindings |-> Drop(bound, {b \in DOMAIN bound : b[2] \in gone}),
               links |-> {l \in linked : l[1] \notin dropped /\ l[2] \notin gone}]
  IN IF \/ wanted = Refused
        \/ \E t \in {"kbs", "bindings", "skills", "checks"} : Collides(rows[t], read[t], wanted[t])
        \/ (wanted.links \ read.links) \cap rows.links # {}
        \/ ~Referenced(next)
     THEN Refused ELSE next

-----------------------------------------------------------------------------
(* What a question of a knowledge base or a skill is about. *)

(* The manuals of a knowledge base: all enabled ones, each in its pinned or   *)
(* its active version; one that is missing or not ready refuses the question. *)
(* A chat asks among the documents of the principal, a compliance run among   *)
(* all.                                                                       *)
ResolveReadyManuals(c, kb, lib, among) ==
  LET enabled == EnabledIn(c, kb)
      row(d) == c.bindings[<<kb, d>>]
      version(d) == IF row(d).pinned # None THEN row(d).pinned ELSE lib.active[d]
      before(d, e) ==
        \/ row(d).order < row(e).order
        \/ row(d).order = row(e).order /\ row(d).at < row(e).at
        \/ row(d).order = row(e).order /\ row(d).at = row(e).at /\ d < e
      sorted == SetToSortSeq(enabled, before)
  IN IF \/ enabled = {} \/ ~(enabled \subseteq among)
        \/ \E d \in enabled : version(d) \notin lib.ready \/ lib.of[version(d)] # d
     THEN Refused
     ELSE [manuals |-> [i \in DOMAIN sorted |-> [document |-> sorted[i], version |-> version(sorted[i])]]]

(* The active version of a document, ready or not. *)
ResolveDocumentVersion(d, lib) ==
  IF d \in lib.mine /\ lib.active[d] # None /\ lib.of[lib.active[d]] = d
  THEN [manuals |-> <<[document |-> d, version |-> lib.active[d]]>>] ELSE Refused

(* A skill: the manuals of its knowledge base, else the document asked for,   *)
(* else one of its own: the rows come in no order.                            *)
ResolveSkillRunTargets(c, skill, asked, lib) ==
  LET s == c.skills[skill]
  IN IF s.kb # None THEN {ResolveReadyManuals(c, s.kb, lib, lib.mine)}
     ELSE IF asked # None THEN {ResolveDocumentVersion(asked, lib)}
     ELSE IF LinksOf(c, skill) = {} THEN {Refused}
     ELSE {ResolveDocumentVersion(l[2], lib) : l \in LinksOf(c, skill)}

-----------------------------------------------------------------------------
(* Knowledge bases.  A request has a principal p; listed is a sequence of     *)
(* [document, pinned, enabled, order].                                        *)

Resource(row) == [workspace |-> row.workspace, owner |-> row.owner, visibility |-> row.visibility]

FoundKb(c, p, kb) == kb \in DOMAIN c.kbs /\ CanRead(p, Resource(c.kbs[kb]))
EditableKb(c, p, kb) == FoundKb(c, p, kb) /\ CanEdit(p, Resource(c.kbs[kb]), "can_manage_knowledge_bases")

ValidDocuments(lib, listed) ==
  /\ \A i, j \in DOMAIN listed : i # j => listed[i].document # listed[j].document
  /\ \A i \in DOMAIN listed :
       /\ listed[i].document \in lib.mine
       /\ listed[i].pinned # None => listed[i].pinned \in DOMAIN lib.of /\ lib.of[listed[i].pinned] = listed[i].document

RowOf(entry, now) == [pinned |-> entry.pinned, enabled |-> entry.enabled, order |-> entry.order, at |-> now]

ReplacedDocuments(c, kb, listed, now) ==
  LET others == Drop(c.bindings, BindingsOf(c, kb))
      place(d) == CHOOSE i \in DOMAIN listed : listed[i].document = d
      keys == {<<kb, listed[i].document>> : i \in DOMAIN listed}
  IN [b \in DOMAIN others \cup keys |-> IF b \in keys THEN RowOf(listed[place(b[2])], now) ELSE others[b]]

(* replace_skill_documents_from_knowledge_base, for the skills in S. *)
Mirrored(c, S, kb) ==
  [c EXCEPT !.links = {l \in c.links : l[1] \notin S} \cup (S \X EnabledIn(c, kb))]

(* Every skill the request finds bound to the knowledge base. *)
SyncSkills(c, kb) == Mirrored(c, {s \in DOMAIN c.skills : c.skills[s].kb = kb}, kb)

CreateKb(c, p, lib, kb, row, listed, now) ==
  IF ~May(p.role, p.override, "can_manage_knowledge_bases") \/ ~ValidDocuments(lib, listed) THEN Refused
  ELSE LET owned == [workspace |-> p.workspace, owner |-> p.user, visibility |-> row.visibility, status |-> row.status]
       IN [c EXCEPT !.kbs = Put(c.kbs, kb, owned), !.bindings = ReplacedDocuments(c, kb, listed, now)]

UpdateKb(c, p, kb, change) ==
  IF ~EditableKb(c, p, kb) \/ ("status" \in DOMAIN change /\ change.status = NoStatus) THEN Refused
  ELSE [c EXCEPT !.kbs[kb] = [f \in DOMAIN @ |-> IF f \in DOMAIN change THEN change[f] ELSE @[f]]]

ReplaceKbDocuments(c, p, lib, kb, listed, now) ==
  IF ~EditableKb(c, p, kb) \/ ~ValidDocuments(lib, listed) THEN Refused
  ELSE SyncSkills([c EXCEPT !.bindings = ReplacedDocuments(c, kb, listed, now)], kb)

AddKbDocument(c, p, lib, kb, entry, now) ==
  IF \/ ~EditableKb(c, p, kb)
     \/ <<kb, entry.document>> \in DOMAIN c.bindings
     \/ ~ValidDocuments(lib, <<entry>>)
  THEN Refused
  ELSE SyncSkills([c EXCEPT !.bindings = Put(c.bindings, <<kb, entry.document>>, RowOf(entry, now))], kb)

(* The document is looked up again only for a pin. *)
UpdateKbDocument(c, p, lib, kb, d, change) ==
  IF \/ ~EditableKb(c, p, kb)
     \/ <<kb, d>> \notin DOMAIN c.bindings
     \/ "pinned" \in DOMAIN change /\ change.pinned # None /\ ~ValidDocuments(lib, <<[document |-> d, pinned |-> change.pinned]>>)
  THEN Refused
  ELSE SyncSkills([c EXCEPT !.bindings[<<kb, d>>] =
                     [f \in DOMAIN @ |-> IF f \in DOMAIN change THEN change[f] ELSE @[f]]], kb)

RemoveKbDocument(c, p, kb, d) ==
  IF ~EditableKb(c, p, kb) \/ <<kb, d>> \notin DOMAIN c.bindings THEN Refused
  ELSE SyncSkills([c EXCEPT !.bindings = Drop(c.bindings, {<<kb, d>>})], kb)

(* Refused while a skill is bound to it; nobody asks for checks. *)
DeleteKb(c, p, kb) ==
  IF ~EditableKb(c, p, kb) \/ \E s \in DOMAIN c.skills : c.skills[s].kb = kb THEN Refused
  ELSE [c EXCEPT !.kbs = Drop(c.kbs, {kb}), !.bindings = Drop(c.bindings, BindingsOf(c, kb))]

(* delete_document, as far as it is about the catalog. *)
DeleteDocument(c, d) ==
  [c EXCEPT !.documents = @ \ {d}, !.bindings = Drop(c.bindings, {b \in DOMAIN c.bindings : b[2] = d}),
            !.links = {l \in @ : l[2] # d}]

-----------------------------------------------------------------------------
(* Skills. *)

ValidKb(c, p, kb) == kb = None \/ FoundKb(c, p, kb)
ValidProvider(lib, provider, model) == provider = None \/ <<provider, model>> \in lib.serves
ValidIds(lib, ids) == \A d \in ids : d \in lib.mine

EditableSkill(c, p, s) == s \in DOMAIN c.skills /\ CanEdit(p, Resource(c.skills[s]), "can_manage_skills")

(* The documents listed count only without a knowledge base. *)
CreateSkill(c, p, lib, s, row, ids) ==
  IF \/ ~May(p.role, p.override, "can_manage_skills")
     \/ ~ValidProvider(lib, row.provider, row.model)
     \/ ~ValidKb(c, p, row.kb)
     \/ row.kb = None /\ ~ValidIds(lib, ids)
  THEN Refused
  ELSE LET own == [workspace |-> p.workspace, owner |-> p.user, visibility |-> row.visibility,
                   kb |-> row.kb, provider |-> row.provider, model |-> row.model]
           made == [c EXCEPT !.skills = Put(c.skills, s, own)]
       IN IF row.kb # None THEN Mirrored(made, {s}, row.kb) ELSE [made EXCEPT !.links = @ \cup ({s} \X ids)]

(* The provider is looked up again with every change; a change may name the   *)
(* documents, which count if the skill is left without a knowledge base.      *)
UpdateSkill(c, p, lib, s, change) ==
  IF ~EditableSkill(c, p, s) THEN Refused
  ELSE LET row == [f \in DOMAIN c.skills[s] |-> IF f \in DOMAIN change THEN change[f] ELSE c.skills[s][f]]
           listed == "documents" \in DOMAIN change /\ row.kb = None
           changed == [c EXCEPT !.skills[s] = row]
       IN IF \/ ~ValidProvider(lib, row.provider, row.model)
             \/ "kb" \in DOMAIN change /\ ~ValidKb(c, p, row.kb)
             \/ listed /\ ~ValidIds(lib, change.documents)
          THEN Refused
          ELSE IF row.kb # None THEN Mirrored(changed, {s}, row.kb)
          ELSE IF listed THEN [changed EXCEPT !.links = (@ \ LinksOf(c, s)) \cup ({s} \X change.documents)]
          ELSE changed

(* With its sessions, runs and messages; a session that names one of the runs *)
(* as its active one refuses the deletion of the runs, which comes first.     *)
DeleteSkill(c, p, s, activeRun) ==
  IF ~EditableSkill(c, p, s) \/ activeRun THEN Refused
  ELSE [c EXCEPT !.skills = Drop(c.skills, {s}), !.links = @ \ LinksOf(c, s)]

-----------------------------------------------------------------------------
(* Compliance checks: whoever may read the knowledge base may have one, and   *)
(* every member may change and delete it.                                     *)

CreateCheck(c, p, id, kb, status) ==
  IF ~FoundKb(c, p, kb) THEN Refused
  ELSE [c EXCEPT !.checks = Put(c.checks, id, [workspace |-> p.workspace, kb |-> kb, status |-> status])]

FoundCheck(c, p, id) == id \in DOMAIN c.checks /\ c.checks[id].workspace = p.workspace

UpdateCheck(c, p, id, change) ==
  IF \/ ~FoundCheck(c, p, id)
     \/ "status" \in DOMAIN change /\ change.status = NoStatus
     \/ "kb" \in DOMAIN change /\ ~FoundKb(c, p, change.kb)
  THEN Refused
  ELSE [c EXCEPT !.checks[id] = [f \in DOMAIN @ |-> IF f \in DOMAIN change THEN change[f] ELSE @[f]]]

DeleteCheck(c, p, id) ==
  IF ~FoundCheck(c, p, id) THEN Refused ELSE [c EXCEPT !.checks = Drop(c.checks, {id})]

(* The knowledge base a run of the check is created for, or Refused. *)
RunTarget(c, p, lib, id) ==
  IF ~FoundCheck(c, p, id) THEN Refused
  ELSE LET check == c.checks[id]
       IN IF check.status # "active" \/ ~FoundKb(c, p, check.kb) THEN Refused
          ELSE ResolveReadyManuals(c, check.kb, lib, c.documents)
=============================================================================
