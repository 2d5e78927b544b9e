# FastPage: a TLA+ verification project

FastPage answers questions about PDF documents. Uploaded documents are parsed into
tree-shaped indexes; a question becomes a *chat run* that an API process stores and
queues and a pool of worker processes executes. This directory models the parts of
`src/app` in which several processes change the same rows as state machines, and what a
single request or algorithm computes, in `src/app` and in the index library
`src/pageindex`, as functions of the rows and inputs it reads. TLC checks the state
machines on small instances and the functions for all small inputs; TLAPS proves the main
invariants of the core for all instances.

## 1. Inventory

Paths are below `src/app` unless they start with `src/`.

| Component | State it keeps | Operations | What is hard | What makes it correct |
|---|---|---|---|---|
| Chat runs (`services/chat_service.py`, `worker.py`, `services/session_service.py`) | rows of `chat_runs` (status, heartbeat, cancel flag, answer), `chat_sessions.active_run_id`, `chat_messages`, the Redis list | create, mark queued, push; pop, claim, retrieve, answer, finalise, release; cancel; lease recovery | many workers, stale ORM objects, unconditional UPDATEs, messages lost after BLPOP, crashes between commits, leases that end under a live worker | one turn at a time in a session, oldest first; each run ends once; a completed run has its turn on record; nothing is stuck |
| Chat event stream (`stream_skill_run_events`, subscriptions) | subscribers, channel | subscribe, publish, time out, poll | pub/sub loses events, polling races events | a client sees the end of its run |
| Worker runtime (`worker.py`) | registry key with TTL, tasks processed, process list | heartbeat, recycle, restart | several processes share one registry key | a live node is listed, a dead process is replaced |
| Task queue and event bus (`services/task_queue_service.py`) | Redis lists; in-process subscribers; the cached publish client | push, publish, register, rebuild the client | rebuild races with use | an event reaches every subscriber once |
| Sequence numbers (`session_service.py`, `runtime_observation_service.py`) | `sequence_no` of messages and observations | max+1 and insert | several writers | order of a transcript, of a run's events |
| Parse pipeline and documents (`parse_service.py`, `pageindex_service.py`, `document_service.py`) | jobs, versions, `active_version_id`, routing nodes | upload, restore, rebuild, delete, parse, build routing index | no lease; jobs finish in another order than they were queued | the active version is the one last chosen, and readable |
| Compliance runs (`compliance_service.py`) | rows of runs and checks | create, execute, recover | executed twice, no cancel, no slot | a result is of one execution; a run ends once |
| Invites, memberships, workspaces (`workspace_*_service.py`, `platform_admin_service.py`) | invites, memberships, roles | create, accept, claim, revoke, expire; change roles | read-check-write on one row | an invite has one outcome; a workspace keeps an owner |
| Providers, adapters (`provider_service.py`, `adapters/`) | provider rows, shares | CRUD, HTTP calls | external | the default resolves to an enabled provider |
| Knowledge bases, skills (`knowledge_base_service.py`, `skill_service.py`) | rows | CRUD | deletes under a running run | references resolve |
| Retrieval (`node_embedding_service.py`, `node_shadow_service.py`, `routing_consumer_service.py`, `section_text_provider.py`, `src/pageindex`) | none of its own | score, merge, select, cut to budgets | boundaries of budgets and page ranges | results equal their reference definitions |
| Authentication, accounts, bootstrap (`core/auth.py`, `core/bootstrap.py`, `workspace_membership_service.py`, `platform_admin_service.py`) | users, tokens, API keys, seeds | log in, switch, revoke, reset, seed | tokens that outlive memberships and passwords | a request acts in the workspace its credential names, or not at all |
| Index library (`src/pageindex`) | a directory of documents and its overview | find a table of contents, check, repair, split, number | what the model replies; page offsets; two clients of one directory | every page and line is in a section, each section once |
| Storage, telemetry, audit, API layer, frontend, migrations, scripts | files, logs | I/O | - | see section 10 |

Components interact through the database (every service), the Redis lists (API and
recovery push, workers pop), the pub/sub channels (workers publish, API streams), and
`active_run_id`, which is the only lock of the system: a conditional UPDATE claims it.

`PROJECT.json` lists the components with their status and every hazard with its line.

## 2. Plan

| Modules | Content | State |
|---|---|---|
| `ChatRuns`, `SessionTurns`, `MCChatRuns` | the life of a run; the service it implements | done, safety proved |
| `ChatEventStream`, `MCChatEventStream` | the stream of a run's events over both channels | done, safety proved |
| `Documents`, `MCDocuments` | versions of a document, parse jobs, artifacts | done, safety proved |
| `ComplianceRuns`, `MCComplianceRuns` | compliance execution and recovery | done, safety proved |
| `Workspaces`, `AccessPolicy`, `MCWorkspaces` | members, invites, roles of one workspace | done, safety proved, with three theorems about the policy |
| `Retrieval` with `ManualGate`, `NodeSearch`, `Evidence`, `SectionIndex`, `ChatOptions`, `Ordering`; `Providers` | answering one question; where its models come from | done, safety proved |
| `OutlineTree`, `OutlineBuild`, `IndexClient` | the index library, as functions | done |
| `Catalog`, `ComplianceResults` | requests on knowledge bases, skills, checks; a compliance run's result | done, as functions |
| `Principals`, `Portraits` | contexts, credentials, bootstrap; what lists and portraits show | done, as functions |
| `Sessions`, `Observations`, `Workers` | messages and observations with their numbers; a worker's loop, registry and supervisor | done, as functions |
| `ChatRunsSafety`, `ChatRunsExclusion`, `ChatRunsTurns`, `ChatEventStreamProofs`, `DocumentsProofs`, `ComplianceRunsProofs`, `WorkspacesProofs`, `RetrievalProofs` | the proofs of those six: type invariants, safety invariants, the refinement of `SessionTurns` | done |
| deletion under a running chat run, as an extension of `ChatRuns` | skills and documents deleted under an executor | open |
| the cache of the publish client | rebuilt while in use | open |
| overlapping requests of `Catalog` and `Providers` as steps | now pairs of requests with one reading | open |

Modules meant for proofs have
constants with named assumptions, one action per operation, and no RECURSIVE operator.

Two ways of modelling. Where steps of several processes interleave there is a state
machine with a run of its own. Where a request reads, decides and writes in one
transaction, or an algorithm computes, there is a function of what it reads, and a module
`...Checks` that states as assumptions what the function promises for all small inputs; TLC
evaluates an assumption when it reads the module, so each is part of a run:

| Run | evaluates |
|---|---|
| `event_stream` | `ObservationChecks`, `SessionChecks`, `WorkerChecks` |
| `documents` | `OutlineChecks` |
| `compliance` | `CatalogChecks`, and what `MCComplianceRuns` assumes of `ComplianceResults` |
| `workspaces` | `AccountChecks` |
| `retrieval` | `RetrievalChecks` |

## 3. The core: `ChatRuns`

### State

| Variable | In the program |
|---|---|
| `status`, `heartbeat`, `cancel`, `answered` | columns of `chat_runs`; the heartbeat is `null`, `fresh` (within the lease) or `expired`; `cancel` holds flag and reason |
| `slot` | `chat_sessions.active_run_id` |
| `transcript` | `chat_messages` of the session, in commit order, as (run, role) |
| `queue` | the Redis list of chat messages |
| `request`, `canceller` | progress of the API requests that create and cancel a run |
| `pc`, `job`, `copy`, `goal`, `guarded`, `stale`, `moved` | a worker: its step, its run, the status in its identity map, the outcome it is about to write, whether an exception of the finalisation is caught, what recovery selected and still has to push, and which of those it will really write |
| `disturbed`, `crashed`, `faults` | history: runs that recovery or a cancel rewrote; whether a process died; the fault budget |

### Steps

A step is one database commit with the refresh directly behind it, one Redis command, or
one snapshot read. This granularity follows from the code:

- The session factory sets `expire_on_commit=False` (`core/db.py:29`), so an object keeps
  what it last loaded; `db.get` returns it again without a read. `copy[w]` is that value
  and `CommitRun` writes a status only where it differs from the copy, as the ORM does. No
  column carries a version. In particular the re-check behind the claim (`:1745`) reads the
  object loaded before it.
- MySQL's default isolation is repeatable read (SQLite is only a deprecated option of the
  repository's README). The refresh behind a commit opens the snapshot that the next reads
  see: that is why the cancel check and the search for an existing message are part of the
  step that commits, and the INSERT is a step of its own.
- Lease recovery is a SELECT (`SelectStaleRuns`), one commit (`RequeueStaleRuns`) and a
  push per run (`PushRequeuedRun`), and it runs both in the worker's loop and at the start
  of every `run_chat_run`. A scan that finds nothing and the BLPOP behind it are one step: a
  lease that runs out between them does so behind the pop, and the handler of the message
  scans again before it reads its row.
- Retrieval, the model and the provider are steps that may succeed, fail
  (`ExecutionFails`, also behind the reply, before the completing `_finalize_run`), or outlast
  the lease (`LeaseRunsOut`). Fast mode's second heartbeat
  and check (`:2409`) does what the first does and is folded into it.
- A streaming client that goes away either cancels with the reason "client aborted stream"
  (`"aborted"`, which ends as failed) or, before the run is queued, leaves it accepted.
- A failed push raises in the API request (`RequestTornDown`), in the worker's loop, or in
  the handler, where the run ends as failed (`PushFails`). A database that is down is a
  worker that dies: the transaction at hand is lost and the handler is left.

Abstracted away: the text of questions and answers, retrieval results, metrics,
observations and `sequence_no` (`Observations` and `Sessions` have these), timestamps other than the lease, the other two queues, and the
in-process task queue that replaces Redis in development. Rows are never deleted.

### Properties

| Property | Says |
|---|---|
| `TypeOK` | types, and that a worker's local state fits its step |
| `CompletedHasTurn` | a completed run has an answer and, in a session, its question and a later reply on record |
| `Recoverable` | a queued or executing run carries a heartbeat, so recovery's scan can reach it |
| `SlotHasHolder` | without crashes a session's slot names a run that some worker holds |
| `ExclusiveTurns` | undisturbed runs are executed one at a time in a session, by one worker |
| `TurnsContiguous` | among undisturbed runs each reply directly follows its own question, once |
| `EndedStaysEnded` | an undisturbed run that ended changes at most to failed |
| `ServesTurns` | the whole implements `SessionTurns`: runs served one at a time, once, none begun while an older one waits |
| `QueuedRunsEnd` | a run that was queued ends, unless a crash left its session blocked |

Several say *undisturbed*: not rewritten by lease recovery or by an API cancel of a run
read as waiting. These two writers overwrite rows unconditionally, and behind them the
stronger statements are false. `SlotHasHolder` and `CompletedHasTurn` hold for all runs.
`Blocked` names what a crash can leave behind and no scan repairs: a slot whose run has
ended (crash between the terminal commit and the release), or an older run that was
accepted and never queued (its heartbeat is NULL).

### Runs

All runs use `MCChatRuns`. Deadlock is not checked: runs are finite in number, and a
system in which all have ended and every worker waits in BLPOP is a legal end.

| Run | Instance | Shows |
|---|---|---|
| `chat_faults` | 2 runs, 1 session, 2 workers, 1 cancel, 1 fault | all safety properties and the refinement |
| `chat_recovery` | 1 run without session, 2 workers, an aborting client, 2 faults | the run ends after any two faults |
| `chat_liveness` | 2 runs, 1 session, 2 workers, 1 fault | both runs end, or the session is blocked by the crash |
| `chat_terminal` | 1 run, 1 worker, no fault | *violation*: `TerminalIsFinal` |
| `chat_one_active` | 2 runs, 2 workers, 1 cancel, no fault | *violation*: `OneActiveRunPerSession` |

Bounds. Two runs of one session and two workers are the least with which order, exclusion,
double execution and overlapping recovery can go wrong; a third worker or run only repeats
the roles. A run can be popped, requeued and executed any number of times; the queue and
the transcript are unbounded in the model and stay short because pushes are paid for by
pops, recoveries or faults. `MaxFaults` bounds crashes, failed pushes and leases that run
out under a live owner; leases of abandoned runs run out for free, so recovery itself is
unbounded. One fault suffices for each hazard of the list except the repeated loss that
`chat_recovery` covers with two. Workers are symmetric in the safety run (they only occur
under quantifiers); the liveness runs use no symmetry.

Fairness (`FairSpec`): weak fairness of each worker's loop (the supervisor in `worker.main`
restarts dead processes, the loop never stops by itself), of a request that created a run
going on to queue it (its handler runs to the end unless it is torn down), and of time
passing for an *abandoned* run. Nothing is assumed of clients, nor that a live executor
keeps its lease. A worker at the stream step may beat only when the heartbeat is not fresh,
so beating does not count as progress for ever.

## 4. Streams, observations, sessions, workers

### `ChatEventStream`

One run, its SSE request, the workers, the cancel route, and the channel between them.
`stream` is where the generator of `stream_skill_run_events` stands (create, subscribe,
enqueue, then the loop of check, wait and poll); `inbox` is what its subscription holds;
`out[p]` is what process `p` has still to publish behind its last commit; `status`,
`cancel` and `queue` are the run's row and the list. A message published while nobody is
subscribed is gone. The in-process bus differs: nothing is lost on it and
`close_chat_event_stream` puts a last entry there. `reached`, `owed`, `lossy` are history.
The run itself is coarse here ("active" stands for retrieving and answering, and a cancel reads
and writes in one step): `ChatRuns` has it in detail.

| Property | Says |
|---|---|
| `EndHappened` | the end the client is told of was committed, whichever of event, poll and closed bus told it, and whoever reran or cancelled the run |
| `NothingMissed` | while the channel loses nothing, what was published and not yielded waits in the subscription in that order |
| `StreamEnds` | the stream of a run that stays ended is closed, although its terminal events may be lost |

Run `event_stream`: two workers, both backends, one event of work per execution, one fault
(a lost connection of the subscription, a publication that fails or whose reply is lost, a
crash, a recovery of a live run). One fault is enough to lose the terminal event, which is
what the poll is for; two workers make two executions of the run publish into one stream.
Fairness: the generator goes on (its wait has a timeout) and a publisher's commands return
or fail; nothing is assumed of workers or clients. Deadlock is not checked: all may be done.

### `Observations`, `Sessions`, `Workers`

These are functions: what recording an observation or a message makes of the rows that the
recorder has read, what a principal finds of sessions and of a run's snapshot, and what one
pass of a worker's loop, a heartbeat, a pass of the supervisor or an interrupt does.
Recorders with a *stale* reading are part of them, so the numbering hazard of `max + 1` is
stated both ways.

- `ObservationChecks` (logs of up to four events of two processes): `RowsCountUp`,
  `OverlapsShareANumber`, `PublishedNumbersRepeat`, `UnstoredPayloadsAreWrappedTwice`,
  `StoredPayloadsFit`, `SnapshotsStandStill`, `SnapshotsStayInTheWorkspace`,
  `CoverageAddsUp`, `GoneIsCompleted`, `ReasonsAreGiven`.
- `SessionChecks` (two tenants, three workspaces, five skills, every role, up to four
  messages): `OwnSessionsAreFound`, `ListedSessionsOpen`, `SessionsHaveOneWorkspace`,
  `HiddenSkillsHideSessions`, `RecordedOnceInOrder`, `RetriesRecordNothing`,
  `OverlapsShareNumbers`, `SessionsAreSeenWhole`, `LastUsedFirst`.
- `WorkerChecks` (all courses of five steps of two supervised workers, a key that lasts two
  ticks, two tasks per process): `RegistryForgetsTheDead`, `RegistryIsNoCensus`,
  `EndsBetweenTasks`, `SupervisionRestores`, `PoppedIsHandledOrDropped`,
  `CodesNameProcesses`, `ChatComesFirst`, `InterruptEndsAll`.

What they show of the code, beside what one expects: an event that could not be stored is
published with a number that another has, and its payload is wrapped twice; a snapshot shows
the first 200 events only and so stands still behind them; overlapping recorders of messages
give one number to two, which are then listed in either order; BLPOP's order lets chat runs
starve the other two queues; a message whose command fails behind its pop, or that is JSON
but no object, is dropped.

## 5. `Documents` and the index library

### `Documents`

One document: `doc` (status, active version), `ver` (per version: row, parse and routing
status, structure path, revision), `nodes` (the build its routing rows come from), `job`,
the Redis list `queue`, and `files` (PDF, structure, routing index in the storage). A
request that makes a version is read, artifact, commit (`request[v]`), one that restores a version
is read and commit (`restore[r]`); a worker's job is the sequence of commits and artifact writes
of `run_parse_job` with the rows its ORM session loaded in `copy[w]`. An UPDATE writes only what
differs from what was loaded (`Column`), in requests as in jobs.

A job that fails is two commits: `FailJob` settles the job (`parse_service.py:493`), `FailVersion`
marks version and document (`:505`). Any step may fail, also what follows the last commit, and the
commit of `MarkUnrouted` with which a job without routing goes on. A worker that dies between the
two, or a handler that fails itself, is `Crash`: the worker's loop goes on, the job is in `lost`.
`crossed` becomes TRUE when a commit writes on a reading of document or version that another
commit has changed since (`Stale`).

| Property | Says |
|---|---|
| `ArtifactsStored` | what a committed row names is in the storage |
| `RoutingRebuilt` | routing rows are those of the stored index, and no two builds carry one `routing_index_version`, unless two jobs work on the version at once |
| `NotLeftBehind` | a version that says it is being parsed has a job that is not settled, or one whose failure a worker is just recording in it, or one that failed and whose worker died before it could |
| `StatusOfActive` | the document says `index_ready` of its active version, until a job, an upload or a restore commits on a stale reading |
| `JobsSettle` | a job that was taken settles, whatever fails, unless its worker dies or the document is deleted |

Run `documents`: two versions, two jobs, two workers, two restores, two faults (a crash, a push
or a step of a job that fails), and four events in all among jobs, restores, further versions and
faults, of which a second job or a restore (`FewEvents`). Two versions are what activation can
confuse, two jobs what can meet on one version, two restores what mixes one version with the status
of another; two faults let a handler of a failure fail. Jobs, restores and idle workers are used in
order (`FirstGoesFirst`). What the bounds leave out, a second job beside two restores, is covered by
the proofs of the five invariants, which are for any number of each. Both exceptions are needed:
without `lost` or the worker at `failing`, or without `crossed`, TLC finds the invariant violated. Fairness: a worker that has taken a job goes on with it; nothing makes a worker pop.
A job of a worker that dies is not recovered by anything (`lost`).

### `OutlineTree`, `OutlineBuild`, `IndexClient`

How `src/pageindex` makes a tree of a PDF or a Markdown file: the search for a table of
contents, the offset between printed and physical pages, the portions for the model, checking,
repairing, the fallbacks, splitting of large sections, the numbering, bookmarks, thinning; and
the client's directory with its overview file. What the model replies is a parameter, and
`OutlineChecks` takes all replies of small documents:
`EverySectionNumberedOnce`, `SectionsCoverThePages`, `BookmarksShareNoPage`,
`TableOfContentsIsARun`, `OffsetByMajority`, `PortionsHoldEveryPage`, `FillsOnlyTheGaps`,
`RepairsTouchOnlyWhatIsWrong`, `TextIsTheLastResort`, `SplitKeepsThePages`,
`EveryLineInOneNode`, `ParentIsTheNearestAbove`, `ReopenedClientKnowsAll`, `PagesInOrder`;
and, as the code has it, `OneLostBookmarkFailsTheTexts`, `OutageReadsAsNoAnswer`,
`MisplacedFirstSectionHidesPages`, `PartsAreCheckedWhereverTheyEnd`,
`OverviewLosesTheFirstWriter`.

Facts that a reader may not expect: a repair whose search fails silently counts as made; the
test for sections near the end is vacuous for a part of a document; two bookmarks on one page
give an empty range; each portion's reply replaces the list when there are no page numbers.

## 6. Compliance and the catalog

### `ComplianceRuns`

`row[r]` holds the status, whether the lease is fresh, and for the groups of result columns
the *execution that wrote them*; `queued[r]` counts entries in the list; a worker scans,
requeues, pushes, pops, loads, claims, executes and announces (`pc[w]`), with `copy[w]` the
rows its session holds. Differences from a chat run that shape the model: no cancellation, no
claim by a conditional update, and nothing that renews the lease while it executes. Nothing rolls
the session back when an execution fails: what fails behind the answer commits its columns together
with "failed" (`FailBehindAnswer`).

| Property | Says |
|---|---|
| `ResultOfOneExecution` | verdict, citations and evidence of a completed run are of one execution, and no error of an earlier attempt is left |
| `EndStays` | an ended run stays as it is, whatever is left in the queue |
| `RunsEnd` | a queued run ends, although its push or its executor may be lost |

The first two except runs that two executors *wrote* (`disturbed`): a lease that ends under an
executor, or an announcement that fails behind the commit, makes them false.

Run `compliance`: one run, two workers, two leases that end under a holder and one fault (a
crash, a failed push, a failed announcement). Runs share nothing but the queue and the
workers, so one is enough for these properties; two expiries let the second executor be
overtaken as well. Fairness: workers that live go on, and a lease that nothing renews ends.

### `ComplianceResults`, `Catalog`

`ComplianceResults` has the configurations of a check and of a run, the retries of a step, the
choice after reranking and the making of the result; `MCComplianceRuns` states
`StoredConfigsRunAgain`, `RetriesEnd`, `ResultsAreGrounded`, `RerankedOrMerged`. `Catalog` has
every request on knowledge bases, skills and checks as a function of the rows it has read, and
`Commit`, which makes of the rows of another request what the ORM writes. `CatalogChecks`
takes every catalog that three requests in a row can make, and every two requests that have
read the same rows: `OneRequestAtATime`, `OverlapsUndoTheMirror`, `ReplacementsAddUp`,
`AllManualsOrNone`.

Facts: the verdict does not depend on the evidence, and a gap may name a citation that there is
not; `output_config` is stored and never read; candidates carry neither
`routing_index_version` nor node key, so after a reparse a compliance run reads its excerpts of
the index of revision "v1"; a rerank reply that names no candidate leaves the first candidates,
manual after manual, under the name `round_robin`; overlapping requests can leave the list of a
skill that mirrors a knowledge base wrong; a check outlives its knowledge base; which document
of a skill is asked about is not decided by any order.

## 7. Workspaces and accounts

### `Workspaces`, `AccessPolicy`

Members and invites of one workspace. Every request is a snapshot read, in which the principal
is resolved and everything is checked, and a transaction that writes the columns that differ
from its copies; `request[s]` is a request in flight. The unique indexes (one active founder,
one membership per user, one pending invite per address) are the only second look
(`Refuse`). `AccessPolicy` has the matrix of capabilities, the overrides and who may read or
edit what.

| Property | Says |
|---|---|
| `FounderStands` | the founder is never doubled, and never lost unless a request wrote over the founder's row with what it had read as a member's |
| `NoEscalation` | nobody is an admin on an admin's word, over all requests together |
| `InviteSettles` | an invite has made its user a member once if accepted and never otherwise, unless two requests wrote it |
| `MembersInTenant` | an active member has an account and belongs to the tenant |

Run `workspaces`: a founder, an admin, an outsider who may have been a member, two invites,
three requests of which two overlap, bootstrap and a platform administrator. Two overlapping
requests are what the read-check-write needs to go wrong, the third follows them up. Requests
and invites are interchangeable and only occur under quantifiers, hence the symmetry. No
liveness is claimed and none holds: nobody has to ask.

### `Principals`, `Portraits`

Resolution of a context, login, passwords, tokens and their revocation, API keys, joining by
invite, the accounts as the platform administrator changes them, `init_db` behind its
migrations; and what lists, details and portraits show of all this. `AccountChecks` takes three
workspaces in two tenants and a user with every kind of membership in them: `ContextsAreHeld`,
`AskedForIsFound`, `LoginLooksInOneTenant`, `TokensKeepTheirWorkspace`, `LeftTokensSleep`,
`PasswordsAndTokens`, `PlainTextOnce`, `KeysStayInTheirWorkspace`, `CredentialsDoNotMix`,
`TheNextStartRestores`, `TheNextStartSetsProviders`, `RenamedAdministrator`,
`NewAccountsMayLogIn`, `InviteesEnter`, `ListedAreOpenOrArchived`, `KeysAreNotThePlatform`,
`SlugsStayApart`, `PortraitsAddUp`, `ListsAgree`, `PortraitsOfTheAbsent`.

Facts: a login settles on one tenant and does not look further; who has left a workspace cannot
log its token out, and the token is good again with the membership; a changed or reset password
puts out no token, and `must_change_password` is left to the frontend; a key made with a key
outlives it; an administrator who is configured under another name than at the first start keeps
the process from coming up; the portrait of an inactive user still resolves a context.

## 8. Answering a question

`Retrieval` is `run_chat_run` from the query rewrite on: rewrite, resolve, manual gate, a search
task per manual under a semaphore, merge or rerank, context, one full retry when the gated search
came to nothing, the attempts at the answer; and the fast path. `version`, `docs` and `job` are
the artifacts of the manuals and a parse of manual 1 that runs meanwhile, `cache` the reuse cache
of the worker's asyncio task. A *shape* is the number of a parse: structure, routing rows and
excerpts carry the one they come from. Where a manual's files are is noted when it is resolved, what
is in them is read when it is needed, and the cache holds only what was read without a failure. The decisions are functions: `ManualGate`, `NodeSearch`
(the fast search and its dense scores), `Evidence` (outline and lexical selection, merge, rerank,
budgets), `SectionIndex` (texts in Elasticsearch and what is read of them), `ChatOptions` (and
history). `Ordering` says what `sorted()` and a slice give: the place of an element is the number
of those that come before it. Tokens of a context are counted as the code counts them, block by
block: the empty lines it joins the blocks with are not in its count. The community modules define sorting through TLC's SortSeq, of
which the provers know nothing; the code's sorting keys end in an index or an id, so there are no ties.

| Property | Says |
|---|---|
| `EmptyOnlyAfterFull` | a deep search answers without evidence only after every manual was searched |
| `FairMerge` | a merge cites as many as allowed, the best of each manual, in turns |
| `WithinBudget` | the context fits its token budget, or is one cut excerpt |
| `OfResolvedRevision` | an excerpt of the index is of the revision resolved at the start, whatever is parsed meanwhile |
| `OneVoice` | the client is never sent parts of two attempts |
| `Settles` | the question ends and leaves no search behind |

What the constants are assumed to be (`RetrievalAssumption`): a limit on context tokens is a number or
absent and `top_k` is positive (`_coerce_positive_int`), a question has finitely many words, replies name
lists, scores are numbers, and a section's parent comes before it in its outline, as the numbering in
document order gives.

Run `retrieval`: three manuals of which the words name one, the rewritten query another, and
nothing the third; four combinations of options (deep with each selection, gate live and shadow,
reranked, fast); one retry, two searches at a time, one parse. Fairness `WF_pc(Moves)` and
`WF_task(TaskMoves)`: the event loop runs what is ready and calls return or fail; parts of an
answer need not come and the parse need not go on. The reason `zero_hit_full_retry` is not
reached: a selection by outline that fails falls back to words.

`Providers` has who may use a provider, which is meant, what each request does to the catalog and
where a question's models come from. `RetrievalChecks` states `GateKeepsTheLeaders`,
`LiveByConsent`, `ShadowIsMonotone`, `RerankIsAChoice`, `AnswerContextFits`,
`HistoryIsALatestPart`, `SyncThenRead`, `ReadyIsFresh`, `CacheKeepsTheLatest`,
`DenseAllOrNothing`, `PagesInside`, `WordsCount`; and of `Providers`
`RequestsKeepTheCatalogSound`, `ResolutionIsDecided`, `EndpointsAreBorrowed`,
`AcceptedDefaultIsMeant`, `ModesKeepToTheirSource`.

Facts: the searches of other manuals go on by themselves after one has failed the question; the
generic rerank adapter cuts its list before it drops repeats; `max_context_pages` counts per
citation; an endpoint borrowed from the default provider is called with the key and the headers of
the provider named; the gate of compliance runs is never live; two overlapping requests can leave a
tenant two default providers.

## Disagreements of the code and its documents

Each is a run that ends in a violation of what the document says.

- `chat_terminal`: `docs/phase4_9/skills_run_worker_state_machine.md:38` draws
  `completed --> [*]`. `_finalize_run` publishes after its commit and, for a completion, inside the
  `try` of `run_chat_run`; a refused publish is handled as a failure of the run, which is finalised
  again as failed (`chat_service.py:1683`, `:2998`).
- `chat_one_active`: `docs/phase4_9/worker_concurrency_and_memory_governance.md:74` says "The same
  session can only have one active run at a time." `request_run_cancel` reads a queued run, a worker
  claims it, the request finalises it and frees the slot, the worker overwrites cancelled with
  retrieving, and the session's next run is claimed.
- `workspace_founder`: `spec/fastapi_service/phase4_access_and_admin_control_plane/workspace_access_control.md:135`
  says "every active workspace has exactly one active founder". A removal or change of a member that
  overlaps with the transfer of the workspace to that member leaves none.
- `retrieval_cache`: `phase4_10_routing_speed_and_structure_foundation.md:65` (same directory) says that
  structures are "reused inside a run/request scope". The cache lives as long as the asyncio task that
  opened it, and a worker has one task for all its jobs.

## 9. Proofs

| Theorem | Module | States |
|---|---|---|
| `TypeCorrect` | `ChatRunsSafety` | `Spec => []TypeOK` |
| `AlwaysRecoverable` | `ChatRunsSafety` | `Spec => []Recoverable` |
| `SlotNeverLeaks` | `ChatRunsSafety` | `Spec => []SlotHasHolder` |
| `CompletedRunsHaveTurns` | `ChatRunsSafety` | `Spec => []CompletedHasTurn` |
| `TurnsExclude` | `ChatRunsExclusion` | `Spec => []ExclusiveTurns` |
| `EndedRunsStayEnded` | `ChatRunsExclusion` | `Spec => EndedStaysEnded` |
| `TurnsStayContiguous` | `ChatRunsTurns` | `Spec => []TurnsContiguous` |
| `PipelineServesTurns` | `ChatRunsTurns` | `Spec => ServesTurns`: `ChatRuns` implements `SessionTurns` |
| `OneRunServed` | `ChatRunsTurns` | `Spec => []OneServed`: at most one run of a session is served, from the refinement and a theorem about `SessionTurns` alone |
| `StreamTypes` | `ChatEventStreamProofs` | `Spec => []TypeOK` |
| `EndsHappened` | `ChatEventStreamProofs` | `Spec => []EndHappened` |
| `WorkNotMissed` | `ChatEventStreamProofs` | `Spec => []NothingMissed` |
| `DocumentTypes` | `DocumentsProofs` | `Spec => []TypeOK` |
| `ArtifactsAreStored` | `DocumentsProofs` | `Spec => []ArtifactsStored` |
| `NobodyLeftBehind` | `DocumentsProofs` | `Spec => []NotLeftBehind` |
| `StatusIsOfActive` | `DocumentsProofs` | `Spec => []StatusOfActive` |
| `RoutingIsRebuilt` | `DocumentsProofs` | `Spec => []RoutingRebuilt` |
| `ComplianceTypes` | `ComplianceRunsProofs` | `Spec => []TypeOK` |
| `ResultsOfOneExecution` | `ComplianceRunsProofs` | `Spec => []ResultOfOneExecution` |
| `EndedComplianceRunsStay` | `ComplianceRunsProofs` | `Spec => EndStays` |
| `WorkspaceTypes` | `WorkspacesProofs` | `Spec => []TypeOK` |
| `FounderNeverLostOrDoubled` | `WorkspacesProofs` | `Spec => []FounderStands` |
| `NobodyEscalates` | `WorkspacesProofs` | `Spec => []NoEscalation` |
| `InvitesSettle` | `WorkspacesProofs` | `Spec => []InviteSettles` |
| `MembersBelong` | `WorkspacesProofs` | `Spec => []MembersInTenant` |
| `SearchesAreTyped` | `RetrievalProofs` | `Spec \/ WorkerSpec => []TypeOK` |
| `EmptyAnswersSearchedAll` | `RetrievalProofs` | `Spec \/ WorkerSpec => []EmptyOnlyAfterFull` |
| `MergingIsFair` | `RetrievalProofs` | `Spec \/ WorkerSpec => []FairMerge` |
| `ContextsFit` | `RetrievalProofs` | `Spec \/ WorkerSpec => []WithinBudget` |
| `EvidenceIsOfTheRevision` | `RetrievalProofs` | `Spec \/ WorkerSpec => []OfResolvedRevision` |
| `AnswersHaveOneVoice` | `RetrievalProofs` | `Spec \/ WorkerSpec => []OneVoice` |
| `NoFounderPowers` | `WorkspacesProofs` | no override lends a founder's powers to another role |
| `ValidOverrideApplies` | `WorkspacesProofs` | an override that validation lets through for a role is applied to that role |
| `EditImpliesRead` | `WorkspacesProofs` | of a resource of a workspace: who may edit it may read it |

All hold for every value of the constants that meets the assumptions the modules name: any
set of runs, workers, versions, users, manuals, any sequence of chunks, any outlines, replies and
options, any number of faults.

The arguments for `ChatRuns`, any assignment of runs to sessions included:

- **Typing.** `TypeOK` is inductive because of `LocalFits`: a step that dereferences a
  worker's run is only taken where the worker has one.
- **Recoverable** is not inductive alone: `RequeueStaleRuns` writes queued for the runs
  selected earlier. `RecoveryFits` says that what it will write is among what it selected,
  for which it writes a heartbeat too; and no step ever returns a heartbeat to NULL.
- **SlotHasHolder** needs `SlotOfSession`, that a slot names a run of its own session, so
  that releasing by run id frees the slot it should.
- **CompletedHasTurn** rests on `RepliesFollow` (a reply in a transcript has its question
  before it) and `Recorded` (what an executor at each step has put on record). Transcripts
  only grow, so both survive any interleaving with other executors.
- **ExclusiveTurns** rests on `OnePlace`: an undisturbed run is at one place only - its
  request, one message in the list, or one worker. `WorkHoldsSlot` then says that the worker
  executing it still holds its slot; only recovery and cancels take a slot away, and both
  disturb (`CancelDisturbs`).
- **EndedStaysEnded** rests on `EndedIsLeft`: once an undisturbed run has ended only its own
  executor still has it, on the way out or about to record a failed publication.
- **TurnsContiguous** needs to know what lies in a transcript while a turn is open. `NothingSaid`:
  an undisturbed run that no worker has begun has no message. `TurnIsOpen`: between the question
  and the reply of a worker that holds its slot, only disturbed runs have written to the session.
  That survives the other workers' steps since one that appends there undisturbed would hold the
  same slot (`SlotKept`). The property is stated with the positions in the transcript, no longer
  with a filtered sequence; the two say the same.
- **ServesTurns**: the mapping `Phase` takes an undisturbed run from absent to waiting when its
  request commits, to serving when a worker's claim commits with the slot, to done when it
  ends; a fault takes it to disturbed. Each step of `ChatRuns` is shown to be a step of
  `SessionTurns` or to change no phase. The claim is the one that needs an argument:
  `ServedInSlot` (a run being served is one whose worker holds the slot) gives that nobody else is
  served, and `KnownExist`, `NotBefore` and `CopyOfEnded` tie what a worker has read of a run to
  its row. The proof also showed that `Phase` was written as a CASE with overlapping guards, of
  which TLA+ does not say which applies; TLC takes the first. It is an IF now, as is the one of
  `FallbackReason` in `Observations`.

`ChatEventStream` (`IInv` of `ChatEventStreamProofs`):

- **EndHappened** says something of what was told; the client may still be told of what is on
  its way. `EndsCommitted` therefore speaks of every event that waits in the subscription or
  that a publisher still holds: the end it names is among the statuses the row has had. It is
  kept because `_finalize_run` commits before it publishes, and `reached` only grows.
- **NothingMissed** needs its conclusion one step earlier (`Waits`: from the subscription on)
  and the reason why nothing came before it: `Quiet`, that no worker has anything of a run
  that is not pushed yet, and that the two routes publish ends but no work. Taking an event
  out and putting one in are the lemmas `WorkOfTail` and `WorkOfAppend` about the order of
  the work in a sequence of events. (`NothingMissed` is stated with that embedding,
  `WorkOf`, instead of a filtered sequence, of which the prover could not reason; the two say
  the same.)

`Documents`: a job writes what it has loaded, so the invariant says what a loaded copy is worth.

- **ArtifactsStored** rests on `RequestsFit` (the PDF is stored before the version is
  committed) and `WorkFits` (a job about to say ready has stored the tree). Stating it for the
  proof showed that a conjunct of its first form was read as part of the premise, so that it
  asserted less of the PDF than meant; it now asserts both for every version.
- **NotLeftBehind** is not inductive, since a job may settle although another one of the
  version waits: `Awaited` says the job that the version waits for has not passed the step that
  makes it ready (`Pending`), or its worker has committed the failure of the job and has read that the
  version waits, so that its next commit ends the wait (`Failing`), or died there (`Lost`). `JobsOnce`
  (an entry of the queue is of one job, and of no worker's) makes the job's worker unique.
- **StatusOfActive** is inductive as it stands: a commit on a reading that is not stale writes the
  status of the version it makes active, and any other commit sets `crossed`.
- **RoutingRebuilt** needs `Alone` and `KnownRouting`: the only worker of a version that is not
  shared knows its revision, and a revision it is going to write is above that of every build
  so far (`BuildsFit`).

`ComplianceRuns`: `Orderly(r)`, for every run that no two executors wrote, says that one worker
executes it (`OneExecutor`) and that neither the row nor what that worker has read of it holds a
result before it ends (`Blank`), so that everything it writes at the end is its own.
**EndStays** follows, since who writes a run that has ended either has claimed it, and then it
has not ended, or disturbs it.

`Workspaces`: a request decides on a snapshot and writes later, so `Fits(request)` says what of
its reading cannot become false: a row it has seen exists for good, memberships of the tenant
are never removed, the rank of who asked was checked then. **FounderStands** rests on the
re-check of the transfer behind its flush and on `copy`, that a write that would remove the
founder is one of a request that had read a plain member; **NoEscalation** on `InvitesRanked`, that an
invite as an admin was sent by a founder or the platform, at whatever time it is accepted;
**MembersInTenant** on `RowsBelong`, that every row, also a removed one, is of a member of the
tenant.

`Retrieval` (`Inv` of `RetrievalProofs`), for one question (`Spec`) and for a worker that goes on to
others (`WorkerSpec`). Half of the module is about functions, for all their arguments: that an order
holds every element once and is sorted, that the gate, live or not, chooses distinct manuals of those
asked for, what the rerank, the fast search, the outline and the budget return. There is no induction
rule for them (it takes an operator); the few places that count use `LeastNumber` and `Counting`, which
follow from the well-foundedness of the numbers.

- **FairMerge** has two halves. For any lists, the first `k` of the round robin hold of each manual
  its first places, in order (`FairOrder`), and no manual is more than one ahead of another that has
  more to give (`FairShares`). In the state, what was merged must still be what the searches have
  found when it is read: `TaskInv` says that no search is at work once a run that has not failed is past
  retrieving, so `found` and with it `Merged` stay as they are (`PickedInv`).
- **EmptyOnlyAfterFull** rests on `FullInv`: until the full retry, a choice that leaves a manual out is
  one of the gate's that counts as pruned, of the first attempt, and it lasts into the answer only with
  evidence. The conditions of the retry have to be the negation of just that.
- **OfResolvedRevision** is inductive with `ResolvedInv`: every manual is resolved before anything is read
  and what was resolved stays. An excerpt is of the row's revision because reading asks the index for
  the revision resolved and discards what carries another (`BlockIs`).
- **WithinBudget** is a loop over the blocks: the tokens so far, with `CostIs` for the sum.
- **OneVoice** needs `AnswerInv`: what was heard is of the attempt being made or nothing.

For the proof `FairMerge` and `WithinBudget` are stated with positions and sums (`Cost`) instead of
filtered sequences and folds; they say the same.

Each inductive invariant was checked by TLC on the instance of its run, or a smaller one, before it was proved.

Three further facts about `AccessPolicy` hold for every role and every stored override: they are
theorems about functions, proved by cases on the role and on whether the override is ignored.

Only model-checked: every liveness property, `QueuedRunsEnd`, `StreamEnds`, `JobsSettle`, `RunsEnd`
and `Settles` (fairness and ENABLED are out of the prover's reach). Every safety property that a
passing run checks is proved.
The assumptions of the `...Checks` modules are
evaluated for small inputs only; most of what they speak of is defined by folds over sequences, which
the prover cannot do induction on.

## 10. Not modelled

- Deletion of documents and skills under a running chat run: `ChatRuns` has no rows that vanish.
  (Deleting a skill whose session has an active run is refused by a foreign key in the code.)
- The cache of the publish client, rebuilt per event loop; the metrics page, audit rows, the
  telemetry of the gate and the trace files of skills: they are written and never read by what is
  modelled.
- Local and MinIO storage are not told apart: both are "written or not".
- The text of prompts and answers, the reading of PDFs and JSON, the HTTP of the adapters.
- `_execute_compliance_run`, which has no caller.
- The API layer's routing and validation, settings, the frontend, migrations, scripts and
  command-line tools, and the offline reports over embeddings: no state of their own, or run by hand.
