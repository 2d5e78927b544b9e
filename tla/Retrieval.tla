----------------------------- MODULE Retrieval -----------------------------
(***************************************************************************)
(* Answering one question (services/chat_service.py, run_chat_run from the *)
(* query rewrite on): rewrite, resolve the manuals, choose among them,     *)
(* search each in a task of its own, merge or rank, build the context, and *)
(* once search again when the choice of manuals came to nothing; or the    *)
(* fast path, which scores sections without reading an outline.  The       *)
(* decisions are the functions of the modules extended; here are the steps *)
(* between which other things happen: the tasks of the manuals, a worker   *)
(* that parses manual 1 anew, the model's and Elasticsearch's failures.    *)
(*                                                                         *)
(* A shape is the number of a parse of a manual: the structure file, the   *)
(* routing rows and a task's outline each have the shape they come from.   *)
(* Cancellation and the run's statuses are ChatRuns'.                      *)
(***************************************************************************)
EXTENDS NodeSearch, Evidence, ChatOptions

CONSTANTS
  N,             \* manuals
  Label, File,   \* the words of a manual's title and of its file's name
  Parsed,        \* the sections of a manual, by the shape of its structure
  Asked,         \* the question, its words
  Rewritten,     \* the words of the question as the model rewrites it
  Options,       \* what a question may ask for
  Replies,       \* what a model may reply when it is asked for sections
  Rankings,      \* the places a reranker may name
  Dense,         \* the dense scores a fast search may get
  LeftBare,      \* the manuals whose last parse may have left no routing rows and no texts
  MaxManuals,    \* settings.run_max_manuals
  MaxRetries,    \* settings.run_step_max_retries
  Concurrency,   \* settings.retrieval_max_concurrency
  Rebuilds,      \* bound: parses of manual 1 meanwhile
  MaxQuestions   \* bound: questions the worker answers one after another

ASSUME RetrievalAssumption ==
  /\ {N, Concurrency, MaxQuestions} \subseteq Nat \ {0}
  /\ {MaxManuals, MaxRetries, Rebuilds} \subseteq Nat
  /\ \A o \in Options : /\ o.manuals \in 1..N /\ o.topK \in Nat \ {0}
                      /\ o.tokens \in Nat \cup {NoLimit}
  /\ IsFiniteSet(Asked.tokens) /\ IsFiniteSet(Rewritten.tokens)
  /\ \A m \in 1..N, shape \in 1..(Rebuilds + 1) : m = 1 \/ shape = 1 =>
       LET sections == Parsed[m][shape]
       IN IsSequence(sections) /\ \A i \in DOMAIN sections : sections[i].above \in 0..(i - 1)
  /\ \A reply \in Replies : IsSequence(reply.ids)
  /\ \A places \in Rankings : IsSequence(places)
  /\ \A scores \in Dense : \A key \in DOMAIN scores : scores[key] \in Int
  /\ LeftBare \subseteq SUBSET (1..N)

VARIABLES
  pc,        \* where the run is
  option,    \* its options
  asked,     \* questions this worker has been given
  query,     \* the words searched for
  resolved,  \* of each manual as it was resolved: routing revision, shape, whether it had an index
  gate,      \* the manual gate's result
  attempt,   \* "initial" or "full_retry"
  task,      \* the search of each manual: where it is, failures, outline's shape
  found,     \* its candidates
  tries,     \* failed reranks
  picked,    \* the sections to cite, and who ordered them
  context,   \* the blocks of the context
  answer,    \* provider attempts, and those whose parts the client was sent
  version,   \* of each manual: revision, status, shapes of the artifacts
  docs,      \* the section index
  job,       \* where the parse of manual 1 is
  builds,    \* parses so far
  cache      \* the reuse cache of the worker's task: open, and shapes it holds

questionVars == <<pc, option, asked, query, resolved, gate, attempt, task, found, tries, picked, context, answer>>
parseVars == <<version, docs, job, builds>>
vars == <<questionVars, parseVars, cache>>

Manuals == 1..N
Targets == 1..option.manuals
Ended == {"done", "failed"}
Stages == Ended \cup {"rewrite", "resolve", "gate", "retrieve", "rerank", "search", "context", "check", "answer"}

NoShape == 0
NoGate == [GateError(0) EXCEPT !.decision = "none"]
Idle == [at |-> "none", tries |-> 0, shape |-> NoShape]

-----------------------------------------------------------------------------
(* What a manual's artifacts say. *)

Sections(m, shape) == Parsed[m][shape]
Nodes(m, shape) == StructureNodes(Sections(m, shape), Label[m].tokens)
Pages(section) == section.last - section.first + 1
Section(m, shape, id) == CHOOSE s \in Range(Sections(m, shape)) : s.id = id

(* A structure is read through the reuse cache when the task has an open one. *)
Structure(m) == IF cache.open /\ cache.held[m] # NoShape THEN cache.held[m] ELSE version[m].shape

(* The routing rows decide; the structure only counts, and is only read, for  *)
(* a manual without rows.                                                     *)
Bare == {m \in Targets : version[m].rows = NoShape}

(* Where the routing index is was noted when the manual was resolved; the     *)
(* rows and the files are read now.                                           *)
Ref(m, unreadable) ==
  [rows |-> IF m \in Bare THEN <<>> ELSE Nodes(m, version[m].rows),
   index |-> IF m \in Bare \/ ~resolved[m].path THEN <<>> ELSE Nodes(m, version[m].rows),
   structure |-> Sections(m, Structure(m)),
   unreadable |-> unreadable, label |-> Label[m], file |-> File[m]]

(* Reading structures in the worker's own task opens its cache, and what was  *)
(* read without a failure is held; nothing ever closes the cache, and a task  *)
(* started later starts with it.                                              *)
Remember(read) ==
  cache' = [open |-> cache.open \/ Bare # {},
            held |-> [m \in Manuals |-> IF m \in read THEN Structure(m) ELSE cache.held[m]]]

-----------------------------------------------------------------------------
(* Rewriting, resolving, choosing. *)

(* What comes of a call of the model and, if need be, of the repair of its reply. *)
Repairs(calls) == {Repaired(first, second) : first, second \in calls}

End(how) == pc' = how

RewriteQuery ==
  /\ pc = "rewrite"
  /\ LET calls == {Named(<<1>>), Named(<<>>), NotJson, CallFailed, Fatal}
     IN \E reply \in IF option.history THEN Repairs(calls) ELSE {Named(<<>>)} :
          /\ query' = IF reply.ids = <<>> THEN Asked ELSE Rewritten
          /\ End(IF reply.kind = "fatal" THEN "failed" ELSE "resolve")
  /\ UNCHANGED <<option, asked, resolved, gate, attempt, task, found, tries, picked, context, answer, parseVars, cache>>

Queryable(m) == version[m].shape # NoShape /\ version[m].status = "index_ready"

ResolveManuals ==
  /\ pc = "resolve"
  /\ IF option.manuals <= MaxManuals /\ \A m \in Targets : Queryable(m)
     THEN /\ resolved' = [m \in Targets |-> [rev |-> version[m].rev, shape |-> version[m].shape, path |-> version[m].path]]
          /\ pc' = IF option.mode = "fast" THEN "search" ELSE "gate"
     ELSE End("failed") /\ UNCHANGED resolved
  /\ UNCHANGED <<option, asked, query, gate, attempt, task, found, tries, picked, context, answer, parseVars, cache>>

StartAttempt(which, manuals) ==
  /\ attempt' = which
  /\ task' = [m \in Manuals |-> IF m \in Range(manuals) THEN [Idle EXCEPT !.at = "wait"] ELSE Idle]
  /\ found' = [m \in Manuals |-> <<>>]
  /\ tries' = 0
  /\ pc' = "retrieve"

ManualGateStep ==
  /\ pc = "gate"
  /\ \/ \E unreadable \in SUBSET {"index", "structure"} :
          /\ gate' = RunGate(query, [m \in Targets |-> Ref(m, unreadable)], option.gate, "off", option.live)
          /\ Remember(IF "structure" \in unreadable THEN {} ELSE Bare)
     \/ /\ gate' = GateError(option.manuals)
        /\ UNCHANGED cache \/ \E read \in SUBSET Bare : Remember(read)
  /\ StartAttempt("initial", gate'.applied)
  /\ UNCHANGED <<option, asked, query, resolved, picked, context, answer, parseVars>>

-----------------------------------------------------------------------------
(* The search of one manual.  At most Concurrency are at work; a failed one   *)
(* waits outside of the semaphore and tries again.  The tasks of an attempt   *)
(* outlive it when it fails.                                                  *)

AtWork == {m \in Manuals : task[m].at = "run"}

Ready == {m \in Manuals : task[m].at = "wait" /\ Cardinality(AtWork) < Min({Concurrency, Len(gate.applied)})}

(* A task that tries again has kept the outline it read in its own context.   *)
Started(m) ==
  [task[m] EXCEPT !.at = "run", !.shape = IF task[m].shape # NoShape THEN task[m].shape ELSE Structure(m)]

Begin(m) ==
  /\ m \in Ready
  /\ task' = [task EXCEPT ![m] = Started(m)]
  /\ cache' = IF cache.open THEN [cache EXCEPT !.held[m] = Started(m).shape] ELSE cache
  /\ UNCHANGED <<pc, option, asked, query, resolved, gate, attempt, found, tries, picked, context, answer, parseVars>>

(* The sections of an outline, and how many words of the question their title holds. *)
Listed(m, shape) ==
  LET sections == Sections(m, shape)
  IN [i \in DOMAIN sections |->
        [id |-> sections[i].id, hits |-> Cardinality(sections[i].title \cap query.tokens)]]

Finish(m) ==
  /\ task[m].at = "run"
  /\ \E reply \in IF option.selection = "lexical_fallback" THEN {Named(<<>>)} ELSE Repairs(Replies) :
       LET ids == Outline(Listed(m, task[m].shape), reply, CandidateTopK(option.topK))
       IN found' = [found EXCEPT ![m] =
                      [i \in DOMAIN ids |-> [manual |-> m, id |-> ids[i], shape |-> task[m].shape]]]
  /\ task' = [task EXCEPT ![m].at = "done"]
  /\ UNCHANGED <<pc, option, asked, query, resolved, gate, attempt, tries, picked, context, answer, parseVars, cache>>

(* Mutant: one attempt too many. *)
ExhaustedLate(t) == t.tries > MaxRetries

Exhausted(t) == t.tries >= MaxRetries

(* Mutant: a failed attempt is not counted. *)
AgainForever(t) == [t EXCEPT !.at = IF Exhausted(t) THEN "dead" ELSE "wait"]

Again(t) == [t EXCEPT !.at = IF Exhausted(t) THEN "dead" ELSE "wait", !.tries = @ + 1]

Fail(m) ==
  /\ task[m].at = "run"
  /\ task' = [task EXCEPT ![m] = Again(@)]
  /\ UNCHANGED <<pc, option, asked, query, resolved, gate, attempt, found, tries, picked, context, answer, parseVars, cache>>

(* gather: the first task that gives up fails the run; the others go on.      *)
GaveUp == {m \in Manuals : task[m].at = "dead"}
Gathered == GaveUp # {} \/ \A m \in Range(gate.applied) : task[m].at = "done"

Gather ==
  /\ pc = "retrieve" /\ Gathered
  /\ pc' = IF GaveUp # {} THEN "failed" ELSE "rerank"
  /\ UNCHANGED <<option, asked, query, resolved, gate, attempt, task, found, tries, picked, context, answer, parseVars, cache>>

-----------------------------------------------------------------------------
(* Ordering the candidates. *)

PerManual == [r \in DOMAIN gate.applied |-> found[gate.applied[r]]]
Candidates == InARow(PerManual)
Merged == [by |-> "merge", list |-> RoundRobin(PerManual, option.topK)]

MergeCandidates ==
  /\ pc = "rerank"
  /\ Candidates = <<>> \/ ~option.rerank
  /\ picked' = Merged
  /\ pc' = "context"
  /\ UNCHANGED <<option, asked, query, resolved, gate, attempt, task, found, tries, context, answer, parseVars, cache>>

RerankCandidates ==
  /\ pc = "rerank"
  /\ Candidates # <<>> /\ option.rerank
  /\ \/ /\ \E places \in Rankings :
             picked' = [by |-> "rerank", list |-> Rerank(Candidates, places, option.topK).list]
        /\ pc' = "context"
        /\ UNCHANGED tries
     \/ /\ tries < MaxRetries
        /\ tries' = tries + 1
        /\ UNCHANGED <<pc, picked>>
     \/ /\ tries >= MaxRetries
        /\ picked' = Merged
        /\ pc' = "context"
        /\ UNCHANGED tries
  /\ UNCHANGED <<option, asked, query, resolved, gate, attempt, task, found, context, answer, parseVars, cache>>

-----------------------------------------------------------------------------
(* The fast path: the sections of the routing rows, with the texts there are. *)

FastShape(m) == IF m \in Bare THEN Structure(m) ELSE version[m].rows

FastCorpora(reachable) ==
  [m \in Targets |->
     LET shape == FastShape(m)
         sections == Sections(m, shape)
         corpus == Corpus(Ref(m, {}))
         record(i) == SectionText(docs, m, sections[i].id, resolved[m].rev, m \in reachable)
         text(i) == SafeSectionText(Absent, record(i), Missing, FALSE).text
     IN [source |-> corpus.source,
         nodes |-> [i \in DOMAIN corpus.nodes |->
                      RouteDoc(<<m, sections[i].id>>, Ref(m, {}), corpus.nodes[i], text(i), sections[i].words)]]]

FastSearch ==
  /\ pc = "search"
  /\ \E reachable \in SUBSET Targets, scores \in Dense :
       LET corpora == FastCorpora(reachable)
           dense == DenseState("auto", "enabled", TRUE, scores)
           ranked == RankSections(query, corpora, dense, scores)
           short == Shortlist(ranked, option.topK)
           cited(p) == [manual |-> p[1], id |-> Sections(p[1], FastShape(p[1]))[p[2]].id, shape |-> FastShape(p[1])]
       IN IF ContentBacked(corpora) = 0
          THEN End("failed") /\ UNCHANGED picked
          ELSE /\ picked' = [by |-> "search", list |-> [r \in DOMAIN short |-> cited(short[r])]]
               /\ pc' = "context"
  /\ Remember(Bare)
  /\ UNCHANGED <<option, asked, query, resolved, gate, attempt, task, found, tries, context, answer, parseVars>>

-----------------------------------------------------------------------------
(* The context and the answer. *)

(* One citation's block.  An excerpt of the PDF is read whole or not at all.  *)
Block(c, reachable) ==
  LET section == Section(c.manual, c.shape, c.id)
      record == SectionText(docs, c.manual, c.id, resolved[c.manual].rev, reachable)
      indexed == SectionBlock(record.status = "ready", record.text, Pages(section), option.pages, option.tokens)
      pdf == [range |-> <<section.first, section.last>>, pages |-> Pages(section), tokens |-> section.tokens]
  IN IF indexed > 0 THEN [from |-> "index", manual |-> c.manual, rev |-> record.routing, tokens |-> indexed]
     ELSE [from |-> "pdf", manual |-> c.manual, rev |-> Absent,
           tokens |-> IF option.pdf THEN PdfBlock(pdf, option.pages, option.tokens) ELSE 0]

ContextStep ==
  /\ pc = "context"
  /\ \E reachable \in SUBSET DOMAIN picked.list :
       context' = BuildContext([i \in DOMAIN picked.list |-> Block(picked.list[i], i \in reachable)], option.tokens)
  /\ cache' = [cache EXCEPT !.open = TRUE]
  /\ pc' = "check"
  /\ UNCHANGED <<option, asked, query, resolved, gate, attempt, task, found, tries, picked, answer, parseVars>>

RetryReason == FullRetryReason(gate, option.manuals, Len(Candidates), Len(context))
SearchesAgain == option.mode # "fast" /\ attempt = "initial" /\ RetryReason # ""

SearchAgain ==
  /\ pc = "check"
  /\ SearchesAgain
  /\ gate' = FullRetry(gate, option.manuals, RetryReason)
  /\ StartAttempt("full_retry", gate'.applied)
  /\ UNCHANGED <<option, asked, query, resolved, picked, context, answer, parseVars, cache>>

Proceed ==
  /\ pc = "check"
  /\ ~SearchesAgain
  /\ pc' = IF option.mode = "fast" /\ context = <<>> THEN "failed" ELSE "answer"
  /\ UNCHANGED <<option, asked, query, resolved, gate, attempt, task, found, tries, picked, context, answer, parseVars, cache>>

AnswerPart ==
  /\ pc = "answer"
  /\ answer' = [answer EXCEPT !.heard = @ \cup {answer.tries}]
  /\ UNCHANGED <<pc, option, asked, query, resolved, gate, attempt, task, found, tries, picked, context, parseVars, cache>>

AnswerEnds ==
  /\ pc = "answer"
  /\ End("done")
  /\ UNCHANGED <<option, asked, query, resolved, gate, attempt, task, found, tries, picked, context, answer, parseVars, cache>>

(* Mutant: asked once more although the client has heard a part. *)
AnswerFailsAnyTime ==
  /\ pc = "answer"
  /\ IF answer.tries >= 2
     THEN End("failed") /\ UNCHANGED answer
     ELSE answer' = [answer EXCEPT !.tries = @ + 1] /\ UNCHANGED pc
  /\ UNCHANGED <<option, asked, query, resolved, gate, attempt, task, found, tries, picked, context, parseVars, cache>>

(* The provider failed: asked once more, if the client has heard nothing yet. *)
AnswerFails ==
  /\ pc = "answer"
  /\ IF answer.heard # {} \/ answer.tries >= 2
     THEN End("failed") /\ UNCHANGED answer
     ELSE answer' = [answer EXCEPT !.tries = @ + 1] /\ UNCHANGED pc
  /\ UNCHANGED <<option, asked, query, resolved, gate, attempt, task, found, tries, picked, context, parseVars, cache>>

(* The worker's next question.  What earlier tasks still do is left out.      *)
Ask ==
  /\ pc \in Ended
  /\ asked < MaxQuestions
  /\ \A m \in Manuals : task[m].at \notin {"wait", "run"}
  /\ asked' = asked + 1
  /\ option' \in Options
  /\ pc' = "rewrite"
  /\ query' = Asked
  /\ resolved' = [m \in {} |-> Absent]
  /\ gate' = NoGate
  /\ attempt' = "initial"
  /\ task' = [m \in Manuals |-> Idle]
  /\ found' = [m \in Manuals |-> <<>>]
  /\ tries' = 0
  /\ picked' = [by |-> "none", list |-> <<>>]
  /\ context' = <<>>
  /\ answer' = [tries |-> 1, heard |-> {}]
  /\ UNCHANGED <<parseVars, cache>>

-----------------------------------------------------------------------------
(* Another worker parses manual 1 (services/parse_service.py, run_parse_job). *)

(* Bound: what it does once the context is built is left out; nothing of the  *)
(* manuals is read any more.                                                  *)
Reading == pc \notin Ended \cup {"answer"}

(* A version whose assets may have been read gets another revision.           *)
Restarted(v) ==
  [rev |-> IF v.rows # NoShape \/ v.path THEN v.rev + 1 ELSE v.rev, status |-> "parsing",
   shape |-> v.shape, rows |-> v.rows, path |-> FALSE]

StartParse ==
  /\ Reading /\ job = "idle" /\ builds < Rebuilds
  /\ version' = [version EXCEPT ![1] = Restarted(version[1])]
  /\ job' = "started"
  /\ builds' = builds + 1
  /\ UNCHANGED <<questionVars, docs, cache>>

(* The structure is written over the one before, then the version is ready.   *)
WriteStructure ==
  /\ Reading /\ job = "started"
  /\ \/ version' = [version EXCEPT ![1].shape = @ + 1] /\ job' = "written"
     \/ version' = [version EXCEPT ![1].status = "failed"] /\ job' = "idle"
  /\ UNCHANGED <<questionVars, docs, builds, cache>>

CommitStructure ==
  /\ Reading /\ job = "written"
  /\ version' = [version EXCEPT ![1].status = "index_ready"]
  /\ job' = "ready"
  /\ UNCHANGED <<questionVars, docs, builds, cache>>

(* A failure of the routing assets leaves the version ready without them.     *)
PersistRouting ==
  /\ Reading /\ job = "ready"
  /\ \/ version' = [version EXCEPT ![1].rows = version[1].shape, ![1].path = TRUE] /\ job' = "persisted"
     \/ job' = "idle" /\ UNCHANGED version
  /\ UNCHANGED <<questionVars, docs, builds, cache>>

SyncTexts ==
  /\ Reading /\ job = "persisted"
  /\ LET sections == Sections(1, version[1].shape)
     IN \E failing \in 0..BatchCount(Len(sections), 1), accepted \in SUBSET DOMAIN sections :
          docs' = Upsert(docs, GetOrBuild([status |-> "missing", nodes |-> <<>>, embedded |-> 0, available |-> FALSE],
                                          BuildBundle(sections, 1, failing), TRUE, TRUE, FALSE),
                         1, version[1].rev, accepted)
  /\ job' = "idle"
  /\ UNCHANGED <<questionVars, version, builds, cache>>

-----------------------------------------------------------------------------

Texts(m, shape, rev) ==
  {[owner |-> m, node |-> s.id, routing |-> rev, version |-> rev, text |-> s.tokens] : s \in Range(Sections(m, shape))}

Init ==
  /\ asked = 1
  /\ option \in Options
  /\ pc = "rewrite"
  /\ query = Asked
  /\ resolved = [m \in {} |-> Absent]
  /\ gate = NoGate
  /\ attempt = "initial"
  /\ task = [m \in Manuals |-> Idle]
  /\ found = [m \in Manuals |-> <<>>]
  /\ tries = 0
  /\ picked = [by |-> "none", list |-> <<>>]
  /\ context = <<>>
  /\ answer = [tries |-> 1, heard |-> {}]
  /\ \E bare \in LeftBare :
       /\ version = [m \in Manuals |->
                       [rev |-> 1, status |-> "index_ready", shape |-> 1,
                        rows |-> IF m \in bare THEN NoShape ELSE 1, path |-> m \notin bare]]
       /\ docs = UNION {Texts(m, 1, 1) : m \in Manuals \ bare}
  /\ job = "idle"
  /\ builds = 0
  /\ cache = [open |-> FALSE, held |-> [m \in Manuals |-> NoShape]]

Work ==
  \/ RewriteQuery \/ ResolveManuals \/ ManualGateStep
  \/ Gather \/ MergeCandidates \/ RerankCandidates
  \/ FastSearch \/ ContextStep \/ SearchAgain \/ Proceed
  \/ AnswerEnds \/ AnswerFails
  \/ \E m \in Manuals : Begin(m) \/ Finish(m) \/ Fail(m)

Parse == StartParse \/ WriteStructure \/ CommitStructure \/ PersistRouting \/ SyncTexts

Next == Work \/ AnswerPart \/ Parse

Spec == Init /\ [][Next]_vars

(* The event loop runs what is ready; calls of models, of Elasticsearch and   *)
(* of the database return or fail.  Fairness is of a part of the state: with  *)
(* Next, a step that moves it is a whole step above.  Parts of an answer come *)
(* or not, and a parse need not go on.                                        *)
Moves ==
  /\ pc \notin Ended
  /\ pc = "retrieve" => Gathered
  /\ pc' \in Stages \ {pc}

TaskMoves ==
  \/ \E m \in Ready : task' = [task EXCEPT ![m] = Started(m)]
  \/ \E m \in AtWork : \E next \in {[task[m] EXCEPT !.at = "done"], Again(task[m])} :
       task' = [task EXCEPT ![m] = next]

FairSpec == Spec /\ WF_pc(Moves) /\ WF_task(TaskMoves)

(* The worker goes on to further questions.                                   *)
WorkerSpec == Init /\ [][Next \/ Ask]_vars

-----------------------------------------------------------------------------

TypeOK ==
  /\ pc \in Stages
  /\ option \in Options /\ query \in {Asked, Rewritten} /\ asked \in 1..MaxQuestions
  /\ DOMAIN resolved \subseteq Manuals
  /\ Range(gate.applied) \cup Range(gate.predicted) \subseteq Manuals
  /\ attempt \in {"initial", "full_retry"}
  /\ \A m \in Manuals : /\ task[m].at \in {"none", "wait", "run", "done", "dead"}
                        /\ task[m].tries \in 0..(MaxRetries + 1)
                        /\ {task[m].shape, cache.held[m], version[m].rows} \subseteq 0..(Rebuilds + 1)
                        /\ version[m].shape \in 1..(Rebuilds + 1) /\ version[m].rev \in 1..(Rebuilds + 1)
  /\ \A r \in DOMAIN picked.list : picked.list[r].manual \in Manuals
  /\ tries \in 0..MaxRetries /\ answer.tries \in 1..2 /\ answer.heard \subseteq 1..2
  /\ job \in {"idle", "started", "written", "ready", "persisted"} /\ builds \in 0..Rebuilds

(* A deep search that is answered without any evidence has looked into every  *)
(* manual it was asked for: whatever the gate left out was searched after all, *)
(* whether the choice gave no candidate, candidates without a text, or texts   *)
(* beyond the budget (_manual_gate_full_retry_reason).                         *)
EmptyOnlyAfterFull ==
  (option.mode # "fast" /\ pc \in {"answer", "done"} /\ context = <<>>)
    => Range(gate.applied) = Targets

(* Merging cites as many sections as allowed, the best of each manual, and no  *)
(* manual gives way to another before its own candidates are used up: the      *)
(* fallback after a failed rerank included (merge_candidates_round_robin).     *)
FairMerge ==
  (picked.by = "merge" /\ pc \in {"context", "check", "answer"}) =>
    LET list == picked.list
        of(m) == {r \in DOMAIN list : list[r].manual = m}
        all == UNION {{m} \X DOMAIN found[m] : m \in Range(gate.applied)}
    IN /\ Len(list) = Lesser(option.topK, Cardinality(all))
       /\ \A m \in Range(gate.applied) :
            /\ \A r \in of(m) : list[r] = found[m][Cardinality({q \in of(m) : q <= r})]
            /\ Cardinality(of(m)) < Len(found[m])
                 => \A other \in Range(gate.applied) : Cardinality(of(other)) <= Cardinality(of(m)) + 1

(* The context fits the answer's prompt: within the budget, or one cut excerpt *)
(* and the line that says so (_apply_total_context_token_budget).  Tokens are  *)
(* counted as the code counts them: block by block, without the empty lines    *)
(* the blocks are joined with.                                                 *)
WithinBudget ==
  \/ Within(Cost(context), option.tokens)
  \/ Len(context) = 1 /\ Cost(context) <= option.tokens + MarkerTokens

(* An excerpt of the section index is of the revision the question resolved,   *)
(* though the manual is parsed anew and its texts are synchronised again while *)
(* the question is searched (ElasticsearchSectionTextProvider).                *)
OfResolvedRevision ==
  \A i \in DOMAIN context :
    context[i].from = "index" => context[i].rev = resolved[context[i].manual].rev

(* The client is never sent the parts of two attempts at the answer.           *)
OneVoice == Cardinality(answer.heard) <= 1

(* A question comes to an end and leaves no search behind, whatever calls fail *)
(* and whatever the parse meanwhile does; after a failure the searches still   *)
(* at work end by themselves, since each gives up after its retries.           *)
Settles == <>[](pc \in Ended /\ \A m \in Manuals : task[m].at \notin {"wait", "run"})

(* What the repository's notes say of the outlines a worker keeps: they are    *)
(* kept for one question.  So a search never reads an older outline than the   *)
(* structure file had when its question was resolved.                          *)
OutlineOfRun ==
  \A m \in DOMAIN resolved :
    task[m].shape # NoShape => task[m].shape >= resolved[m].shape

=============================================================================
