---------------------------- MODULE CatalogChecks ----------------------------
(***************************************************************************)
(* What the requests of Catalog keep, for one knowledge base, one skill,   *)
(* one check and two documents: every catalog that three requests in a row *)
(* can make, and two requests that have read the same rows.                *)
(***************************************************************************)
EXTENDS Catalog

LOCAL Docs == {1, 2}
LOCAL Version(d) == 10 + d
LOCAL Admin == [workspace |-> "w", user |-> "u", role |-> "admin", override |-> <<>>]
LOCAL Empty == [documents |-> Docs, kbs |-> <<>>, skills |-> <<>>, checks |-> <<>>, bindings |-> <<>>, links |-> {}]

(* What a request finds when it reads c. *)
LOCAL Library(c) ==
  LET versions == {Version(d) : d \in c.documents}
  IN [mine |-> c.documents, of |-> [v \in versions |-> v - 10], active |-> [d \in c.documents |-> Version(d)],
      ready |-> versions, serves |-> {<<1, 1>>}]

LOCAL Entry(d, pin, on) == [document |-> d, pinned |-> pin, enabled |-> on, order |-> 0]
LOCAL Lists == {<<>>, <<Entry(1, None, FALSE)>>, <<Entry(2, Version(2), TRUE)>>,
                <<Entry(1, None, TRUE), Entry(2, Version(1), TRUE)>>, <<Entry(1, None, TRUE), Entry(2, None, FALSE)>>}
LOCAL Blank == [visibility |-> "private", status |-> "active", kb |-> None, provider |-> None, model |-> 1]

(* What the requests want that read c at the time now. *)
LOCAL Wanted(c, now) ==
  LET lib == Library(c)
      entries == {Entry(d, pin, on) : d \in Docs, pin \in {None, Version(1)}, on \in BOOLEAN}
      kb(k) == k \in DOMAIN c.kbs
      made == {CreateKb(c, Admin, lib, 1, Blank, listed, now) : listed \in IF kb(1) THEN {} ELSE Lists}
        \cup {CreateSkill(c, Admin, lib, 1, [Blank EXCEPT !.kb = k], ids) :
                k \in IF 1 \in DOMAIN c.skills THEN {} ELSE {None, 1}, ids \in SUBSET Docs}
        \cup {CreateCheck(c, Admin, 1, 1, "active")}
      knowledge == {UpdateKb(c, Admin, 1, [status |-> "inactive"]), DeleteKb(c, Admin, 1)}
        \cup {ReplaceKbDocuments(c, Admin, lib, 1, listed, now) : listed \in Lists}
        \cup {AddKbDocument(c, Admin, lib, 1, e, now) : e \in entries}
        \cup {UpdateKbDocument(c, Admin, lib, 1, d, change) :
                d \in Docs, change \in [enabled : BOOLEAN] \cup [pinned : {None, Version(1)}]}
        \cup {RemoveKbDocument(c, Admin, 1, d) : d \in Docs}
      skill == {DeleteSkill(c, Admin, 1, FALSE)}
        \cup {UpdateSkill(c, Admin, lib, 1, change) :
                change \in [kb : {None, 1}] \cup [documents : SUBSET Docs] \cup [kb : {None, 1}, documents : {{1}}]}
      rest == {DeleteDocument(c, d) : d \in c.documents} \cup {DeleteCheck(c, Admin, 1)}
  IN (made \cup knowledge \cup skill \cup rest) \ {Refused, c}

LOCAL After(n) ==
  LET after[k \in 0..n] == IF k = 0 THEN {Empty} ELSE after[k - 1] \cup UNION {Wanted(c, 0) : c \in after[k - 1]}
  IN after[n]

(* The skills bound to a knowledge base list what is enabled in it. *)
LOCAL Mirrors(c) ==
  \A s \in DOMAIN c.skills : c.skills[s].kb # None => {l[2] : l \in LinksOf(c, s)} = EnabledIn(c, c.skills[s].kb)

LOCAL PinsFit(c) == \A b \in DOMAIN c.bindings : c.bindings[b].pinned \in {None, Version(b[2])}

(* One request after the other: a skill bound to a knowledge base lists what  *)
(* is enabled in it, a pin is a version of its document, and no row is left   *)
(* whose knowledge base, skill or document is gone, a check apart; the commit *)
(* then writes what the request wants (knowledge_base_service, skill_service).*)
ASSUME OneRequestAtATime ==
  \A c \in After(3) :
    /\ Mirrors(c) /\ PinsFit(c) /\ Referenced(c)
    /\ \A want \in Wanted(c, 1) : CommitRows(c, c, want) = want

LOCAL Bound == {c \in After(3) : 1 \in DOMAIN c.skills /\ c.skills[1].kb = 1}

(* Two requests that have read the same rows, neither about the skill: what   *)
(* both committed still has its pins right, but the skill's list is wrong     *)
(* when the first switched a document on or off and the second put it back as *)
(* it had read it, or removed it when it had read it as off: the second       *)
(* writes no row of the skill's list that agrees with its own reading         *)
(* (sync_knowledge_base_skills).                                              *)
ASSUME OverlapsUndoTheMirror ==
  \A c \in Bound : \A first \in Wanted(c, 1), second \in Wanted(c, 2) :
    LET both == CommitRows(first, c, second)
        has(r, d) == <<1, d>> \in DOMAIN r.bindings
        on(r, d) == r.bindings[<<1, d>>].enabled
        switched(d) == has(c, d) /\ has(first, d) /\ on(first, d) # on(c, d)
        undone(d) == \/ has(second, d) /\ second.bindings[<<1, d>>].at = 2 /\ on(second, d) = on(c, d)
                     \/ ~has(second, d) /\ d \in second.documents /\ ~on(c, d)
    IN both # Refused /\ first.skills = c.skills /\ second.skills = c.skills
       => PinsFit(both) /\ (Mirrors(both) <=> ~\E d \in Docs : switched(d) /\ undone(d))

(* Two lists that replace the same list are both there afterwards, unless the *)
(* second has a document the first has too or has left out, which refuses it  *)
(* (replace_knowledge_base_documents_for_id).                                 *)
ASSUME ReplacementsAddUp ==
  \A before, one, other \in SUBSET (1..4) :
    LET rows(S, now) == [d \in S |-> [at |-> now]]
        read == rows(before, 0)
        first == rows(one, 1)
        second == rows(other, 2)
    IN /\ Collides(first, read, second) <=> other \cap ((one \ before) \cup (before \ one)) # {}
       /\ ~Collides(first, read, second) => DOMAIN Flush(first, read, second) = other \cup (one \ before)

(* A question of a knowledge base is about all that is enabled in it or is    *)
(* refused, whether a skill or a check asks it; a skill whose documents are   *)
(* its own is asked about one of them, and which is not decided; and a check  *)
(* outlives its knowledge base, of which it then refuses every run            *)
(* (resolve_ready_knowledge_base_manuals, resolve_skill_run_targets).         *)
ASSUME AllManualsOrNone ==
  \A c \in After(3), unready, foreign \in Docs \cup {None} :
    LET lib == [Library(c) EXCEPT !.ready = @ \ {Version(unready)}, !.mine = @ \ {foreign}]
        kb == IF 1 \in DOMAIN c.skills THEN c.skills[1].kb ELSE None
        asked == IF 1 \in DOMAIN c.skills THEN ResolveSkillRunTargets(c, 1, None, lib) ELSE {}
        about(answer) == {answer.manuals[i].document : i \in DOMAIN answer.manuals}
        run == RunTarget(c, Admin, lib, 1)
    IN /\ kb # None =>
            /\ asked = {Refused} <=> EnabledIn(c, kb) \in SUBSET {unready} \/ {unready, foreign} \cap EnabledIn(c, kb) # {}
            /\ asked # {Refused} => \A answer \in asked : about(answer) = EnabledIn(c, kb)
       /\ kb # None /\ asked # {Refused} /\ 1 \in DOMAIN c.checks => asked = {run}
       /\ 1 \in DOMAIN c.skills /\ kb = None /\ c.links # {} =>
            /\ Cardinality(asked) = Cardinality(c.links)
            /\ Refused \in asked <=> <<1, foreign>> \in c.links
       /\ 1 \in DOMAIN c.checks =>
            /\ 1 \notin DOMAIN c.kbs => run = Refused
            /\ 1 \in DOMAIN c.kbs /\ DOMAIN c.skills = {} => DeleteKb(c, Admin, 1).checks = c.checks
=============================================================================
