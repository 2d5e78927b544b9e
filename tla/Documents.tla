------------------------------ MODULE Documents ------------------------------
(***************************************************************************)
(* The versions of one document and the parse jobs that turn them into     *)
(* something a run can search: upload, rebuild, restore and deletion       *)
(* (app/services/document_service.py), the parse and reparse routes        *)
(* (app/api/routers/documents.py), the job (app/services/parse_service.py) *)
(* and the artifact storage (app/services/storage_service.py).             *)
(*                                                                         *)
(* A step is a commit or one artifact written; the commit that moves a job *)
(* from one unsettled status to the next is merged with the one that moves *)
(* its version and document behind it.  A request and a job keep the rows  *)
(* as their ORM session loaded them, and an UPDATE holds only the columns  *)
(* whose value differs from that reading.                                  *)
(***************************************************************************)
EXTENDS Naturals, Sequences, FiniteSets

CONSTANTS
    Versions,     \* version ids
    First,        \* the version the document is created with
    NoVersion,    \* active_version_id is NULL
    Jobs,         \* parse job ids
    NoJob,        \* an idle worker
    Workers,      \* worker processes on the parse queue
    Restores,     \* bound: requests to restore a version, each made once
    MaxFaults     \* bound: crashes, failed pushes, failed steps of a job

ASSUME VersionsAssumption == First \in Versions /\ NoVersion \notin Versions
ASSUME JobsAssumption     == NoJob \notin Jobs
ASSUME FaultsAssumption   == MaxFaults \in Nat

VARIABLES
    (* rows *)
    doc,          \* the document: status ("deleted" when its row is gone), active version
    ver,          \* version -> its row
    nodes,        \* version -> the build its routing node rows come from, 0 for none
    job,          \* job -> its status and version
    (* the Redis list of parse jobs, the artifact storage *)
    queue,
    files,        \* version -> its PDF, and the builds of its structure and routing index
    (* requests *)
    request,      \* version -> how far the request that creates it is, what it has read
    restore,      \* restore -> how far it is, what it has read
    (* workers *)
    pc, task, copy,
    (* history and bounds *)
    builds,       \* routing indexes committed so far: version, number, routing_index_version
    build,        \* artifacts built so far
    shared,       \* versions two jobs have worked on at the same time
    crossed,      \* a commit rested on a reading of a status that had changed since
    lost,         \* jobs whose worker has died on them
    faults

rowVars     == <<doc, ver, nodes, job>>
workerVars  == <<pc, task, copy>>
historyVars == <<builds, build, shared, crossed, lost>>
requestVars == <<request, restore>>
vars == <<rowVars, queue, files, requestVars, workerVars, historyVars, faults>>

-----------------------------------------------------------------------------
Stage   == {"uploaded", "queued", "parsing", "index_ready", "failed"}
Settled == {"index_ready", "failed"}

(* Mutant: the revisions of the routing index are counted from zero. *)
NoRowFromZero == [row |-> FALSE, parse |-> "uploaded", routing |-> "uploaded",
                  path |-> FALSE, revision |-> 0]

NoRow == [row |-> FALSE, parse |-> "uploaded", routing |-> "uploaded",
          path |-> FALSE, revision |-> 1]

Unread   == [at |-> "new", version |-> NoVersion, status |-> "uploaded",
             active |-> NoVersion, parse |-> "uploaded"]
Answered == [at |-> "done", status |-> "uploaded", source |-> NoVersion]

Live    == {v \in Versions : ver[v].row}
Exists  == doc.status # "deleted"
Busy(w) == pc[w] # "idle"
Fault   == faults < MaxFaults /\ faults' = faults + 1

(* What an UPDATE leaves in a column: the row's value where the new one     *)
(* equals the copy.                                                         *)
Column(row, old, new) == IF new = old THEN row ELSE new

(* What c has read of the two statuses and of the active version is not     *)
(* what the rows hold.                                                      *)
Stale(c) == \/ doc.status # c.status \/ doc.active # c.active
            \/ ver[c.version].parse # c.parse

(* Mutant: only a build that succeeded makes the next one a new revision.   *)
BuiltReadyOnly(v) == ver[v].routing = "index_ready"

(* should_bump_routing_index_version: something was built for v before *)
BuiltBefore(v) == ver[v].path \/ ver[v].routing = "index_ready" \/ nodes[v] # 0

(***************************** versions ************************************)
(* create_or_append_document, create_rebuild_version: the PDF is stored     *)
(* inside the transaction that inserts the version.  The insert locks the   *)
(* document's row against deletion until the commit, and of two such        *)
(* transactions at once InnoDB aborts one.                                  *)
BeginVersion(v, source) ==
    /\ Exists /\ request[v].at = "new" /\ source \in Live \union {NoVersion}
    /\ request' = [request EXCEPT ![v] = [at |-> "read", status |-> doc.status,
                                          source |-> source]]
    /\ UNCHANGED <<rowVars, queue, files, restore, workerVars, historyVars, faults>>

Upload(v)  == BeginVersion(v, NoVersion)
Rebuild(v) == \E s \in Live : BeginVersion(v, s)

StorePdf(v) ==
    /\ request[v].at = "read" /\ Exists
    /\ request[v].source # NoVersion => files[request[v].source].pdf
    /\ \A u \in Versions : request[u].at # "stored"
    /\ request' = [request EXCEPT ![v].at = "stored"]
    /\ files' = [files EXCEPT ![v].pdf = TRUE]
    /\ UNCHANGED <<rowVars, queue, restore, workerVars, historyVars, faults>>

CommitVersion(v) ==
    /\ request[v].at = "stored"
    /\ request' = [request EXCEPT ![v] = Answered]
    /\ ver' = [ver EXCEPT ![v] = [NoRow EXCEPT !.row = TRUE]]
    /\ doc' = [status |-> Column(doc.status, request[v].status, "uploaded"), active |-> v]
    /\ crossed' = (crossed \/ doc.status # request[v].status)
    /\ UNCHANGED <<nodes, job, queue, files, restore, workerVars, builds, build, shared, lost, faults>>

(* The document is gone, or the storage fails: the transaction is undone,   *)
(* an artifact that is written stays.                                       *)
AbortVersion(v) ==
    /\ request[v].at \in {"read", "stored"}
    /\ IF Exists THEN Fault ELSE UNCHANGED faults
    /\ request' = [request EXCEPT ![v] = Answered]
    /\ UNCHANGED <<rowVars, queue, files, restore, workerVars, historyVars>>

(* restore_document_version reads the document and the version, and commits *)
(* what differs.  A restore that never commits (a document deleted since, a *)
(* failing database) changes nothing.                                       *)
BeginRestore(r, v) ==
    /\ Exists /\ v \in Live /\ restore[r].at = "new"
    /\ restore' = [restore EXCEPT ![r] =
                      [at |-> "read", version |-> v, status |-> doc.status,
                       active |-> doc.active, parse |-> ver[v].parse]]
    /\ UNCHANGED <<rowVars, queue, files, request, workerVars, historyVars, faults>>

(* Mutant: restoring a version leaves the document's status. *)
RestoreKeepingStatus(r) ==
    LET c == restore[r] IN
    /\ c.at = "read" /\ Exists
    /\ doc' = [doc EXCEPT !.active = Column(@, c.active, c.version)]
    /\ crossed' = (crossed \/ Stale(c))
    /\ restore' = [restore EXCEPT ![r] = [Unread EXCEPT !.at = "done"]]
    /\ UNCHANGED <<ver, nodes, job, queue, files, request, workerVars,
                   builds, build, shared, lost, faults>>

CommitRestore(r) ==
    LET c == restore[r] IN
    /\ c.at = "read" /\ Exists
    /\ doc' = [status |-> Column(doc.status, c.status, c.parse),
               active |-> Column(doc.active, c.active, c.version)]
    /\ crossed' = (crossed \/ Stale(c))
    /\ restore' = [restore EXCEPT ![r] = [Unread EXCEPT !.at = "done"]]
    /\ UNCHANGED <<ver, nodes, job, queue, files, request, workerVars,
                   builds, build, shared, lost, faults>>

(* delete_document up to the commit; the artifacts follow in DeleteTree. *)
DeleteDocument ==
    /\ Exists
    /\ \A v \in Versions : request[v].at # "stored"
    /\ doc' = [status |-> "deleted", active |-> NoVersion]
    /\ ver' = [v \in Versions |-> NoRow]
    /\ nodes' = [v \in Versions |-> 0]
    /\ job' = [j \in Jobs |-> [status |-> "none", version |-> NoVersion]]
    /\ UNCHANGED <<queue, files, requestVars, workerVars, historyVars, faults>>

DeleteTree ==
    /\ ~Exists
    /\ files' = [v \in Versions |-> [pdf |-> FALSE, structure |-> 0, index |-> 0]]
    /\ UNCHANGED <<rowVars, queue, requestVars, workerVars, historyVars, faults>>

(* parse_document, reparse_document, rebuild_document: a row, then a push.  *)
(* rebuild_document names the version it has just made.                     *)
CreateJob(j, v) ==
    /\ Exists /\ job[j].status = "none" /\ v \in Live
    /\ \A w \in Workers : task[w] # j
    /\ \A i \in DOMAIN queue : queue[i] # j
    /\ job' = [job EXCEPT ![j] = [status |-> "uploaded", version |-> v]]
    /\ \/ queue' = Append(queue, j) /\ UNCHANGED faults
       \/ Fault /\ UNCHANGED queue
    /\ UNCHANGED <<doc, ver, nodes, files, requestVars, workerVars, historyVars>>

(****************************** run_parse_job ******************************)
CopyOf(v, bump) ==
    [version |-> v, active |-> doc.active, status |-> doc.status, parse |-> ver[v].parse,
     routing |-> ver[v].routing, path |-> ver[v].path, revision |-> ver[v].revision,
     bump |-> bump, index |-> 0, stored |-> FALSE]
IdleCopy ==
    [version |-> NoVersion, active |-> NoVersion, status |-> "uploaded", parse |-> "uploaded",
     routing |-> "uploaded", path |-> FALSE, revision |-> 1,
     bump |-> FALSE, index |-> 0, stored |-> FALSE]

Idle(w) == /\ pc' = [pc EXCEPT ![w] = "idle"]
           /\ task' = [task EXCEPT ![w] = NoJob]
           /\ copy' = [copy EXCEPT ![w] = IdleCopy]

(* The worker pops a job and loads its rows in one snapshot; the version    *)
(* and the document are there as long as the job is (foreign keys).         *)
Pop(w) ==
    /\ pc[w] = "idle" /\ queue # <<>>
    /\ queue' = Tail(queue)
    /\ LET j == Head(queue)  v == job[j].version IN
          \/ /\ job[j].status = "none"
             /\ UNCHANGED <<pc, task, copy, shared>>
          \/ /\ job[j].status # "none"
             /\ pc' = [pc EXCEPT ![w] = "queue"]
             /\ task' = [task EXCEPT ![w] = j]
             /\ copy' = [copy EXCEPT ![w] = CopyOf(v, BuiltBefore(v))]
             /\ shared' = IF \E u \in Workers : copy[u].version = v
                          THEN shared \union {v} ELSE shared
    /\ UNCHANGED <<rowVars, files, requestVars, builds, build, crossed, lost, faults>>

(* A flush of w: the job moves to status s, the columns of its version and  *)
(* of the document to those of new that differ from the copy.               *)
Flush(w, s, new) ==
    LET c == copy[w]  v == c.version IN
    /\ job' = [job EXCEPT ![task[w]].status = s]
    /\ ver' = [ver EXCEPT ![v].parse    = Column(@, c.parse, new.parse),
                          ![v].routing  = Column(@, c.routing, new.routing),
                          ![v].path     = Column(@, c.path, new.path),
                          ![v].revision = Column(@, c.revision, new.revision)]
    /\ doc' = [status |-> Column(doc.status, c.status, new.status),
               active |-> Column(doc.active, c.active, new.active)]
    /\ copy' = [copy EXCEPT ![w] = new]

(* "queued": what was built before is disowned, the next build is a new     *)
(* revision.                                                                *)
MarkQueued(w) ==
    /\ pc[w] = "queue" /\ Exists
    /\ Flush(w, "queued",
             [copy[w] EXCEPT !.parse = "queued", !.routing = "queued", !.path = FALSE,
                             !.status = "queued",
                             !.revision = IF copy[w].bump THEN @ + 1 ELSE @])
    /\ pc' = [pc EXCEPT ![w] = "mark"]
    /\ crossed' = (crossed \/ Stale(copy[w]))
    /\ UNCHANGED <<nodes, queue, files, requestVars, task, builds, build, shared, lost, faults>>

MarkParsing(w) ==
    /\ pc[w] = "mark" /\ Exists
    /\ Flush(w, "parsing", [copy[w] EXCEPT !.parse = "parsing", !.routing = "parsing",
                                           !.path = FALSE, !.status = "parsing"])
    /\ pc' = [pc EXCEPT ![w] = "parse"]
    /\ crossed' = (crossed \/ Stale(copy[w]))
    /\ UNCHANGED <<nodes, queue, files, requestVars, task, builds, build, shared, lost, faults>>

(* Mutant: the structure is announced and never stored. *)
ParseUnstored(w) ==
    /\ pc[w] = "parse" /\ files[copy[w].version].pdf
    /\ pc' = [pc EXCEPT ![w] = "ready"]
    /\ UNCHANGED <<rowVars, queue, files, requestVars, task, copy, historyVars, faults>>

(* parse_pdf_to_structure_async and write_document_structure: the write     *)
(* asks nobody whether the document still exists.                           *)
Parse(w) ==
    /\ pc[w] = "parse" /\ files[copy[w].version].pdf
    /\ files' = [files EXCEPT ![copy[w].version].structure = 1]
    /\ pc' = [pc EXCEPT ![w] = "ready"]
    /\ UNCHANGED <<rowVars, queue, requestVars, task, copy, historyVars, faults>>

(* The version is searchable and becomes the active one. *)
MarkReady(w) ==
    /\ pc[w] = "ready" /\ Exists
    /\ Flush(w, job[task[w]].status,
             [copy[w] EXCEPT !.parse = "index_ready", !.status = "index_ready",
                             !.active = copy[w].version])
    /\ pc' = [pc EXCEPT ![w] = "index"]
    /\ crossed' = (crossed \/ Stale(copy[w]))
    /\ UNCHANGED <<nodes, queue, files, requestVars, task, builds, build, shared, lost, faults>>

(* build_routing_index_payload, write_document_routing_index *)
WriteIndex(w) ==
    /\ pc[w] = "index"
    /\ build' = build + 1
    /\ files' = [files EXCEPT ![copy[w].version].index = build + 1]
    /\ copy' = [copy EXCEPT ![w].index = build + 1]
    /\ pc' = [pc EXCEPT ![w] = "persist"]
    /\ UNCHANGED <<rowVars, queue, requestVars, task, builds, shared, crossed, lost, faults>>

(* Mutant: the rows of an earlier build are not replaced. *)
PersistKeepingNodes(w) ==
    /\ pc[w] = "persist" /\ Exists
    /\ LET v == copy[w].version  new == [copy[w] EXCEPT !.routing = "index_ready",
                                                       !.path = TRUE, !.stored = TRUE]
       IN /\ Flush(w, job[task[w]].status, new)
          /\ nodes' = [nodes EXCEPT ![v] = IF @ = 0 THEN copy[w].index ELSE @]
          /\ builds' = builds \union
                 {[version |-> v, build |-> copy[w].index, revision |-> copy[w].revision]}
    /\ pc' = [pc EXCEPT ![w] = "sync"]
    /\ UNCHANGED <<queue, files, requestVars, task, build, shared, crossed, lost, faults>>

(* the commit of _persist_routing_index_build *)
Persist(w) ==
    /\ pc[w] = "persist" /\ Exists
    /\ LET v == copy[w].version  new == [copy[w] EXCEPT !.routing = "index_ready",
                                                       !.path = TRUE, !.stored = TRUE]
       IN /\ Flush(w, job[task[w]].status, new)
          /\ nodes' = [nodes EXCEPT ![v] = copy[w].index]
          /\ builds' = builds \union
                 {[version |-> v, build |-> copy[w].index, revision |-> copy[w].revision]}
    /\ pc' = [pc EXCEPT ![w] = "sync"]
    /\ UNCHANGED <<queue, files, requestVars, task, build, shared, crossed, lost, faults>>

(* _build_and_sync_node_text_index *)
SyncText(w) ==
    /\ pc[w] = "sync"
    /\ pc' = [pc EXCEPT ![w] = "finish"]
    /\ UNCHANGED <<rowVars, queue, files, requestVars, task, copy, historyVars, faults>>

(* except routing_exc: the rollback expires the copies, the version is read *)
(* again before its columns are written, and the job goes on.               *)
RoutingFails(w) ==
    /\ pc[w] \in {"index", "persist", "sync"} /\ Exists /\ Fault
    /\ copy' = [copy EXCEPT ![w] = [CopyOf(@.version, FALSE) EXCEPT !.stored = copy[w].stored]]
    /\ pc' = [pc EXCEPT ![w] = "unrouted"]
    /\ UNCHANGED <<rowVars, queue, files, requestVars, task, historyVars>>

MarkUnrouted(w) ==
    /\ pc[w] = "unrouted" /\ Exists
    /\ Flush(w, job[task[w]].status, [copy[w] EXCEPT !.routing = "failed", !.path = copy[w].stored])
    /\ pc' = [pc EXCEPT ![w] = "finish"]
    /\ UNCHANGED <<nodes, queue, files, requestVars, task, historyVars, faults>>

(* Mutant: the job is never marked done. *)
FinishUnmarked(w) ==
    /\ pc[w] = "finish" /\ Exists
    /\ pc' = [pc EXCEPT ![w] = "done"]
    /\ UNCHANGED <<rowVars, queue, files, requestVars, task, copy, historyVars, faults>>

Finish(w) ==
    /\ pc[w] = "finish" /\ Exists
    /\ job' = [job EXCEPT ![task[w]].status = "index_ready"]
    /\ pc' = [pc EXCEPT ![w] = "done"]
    /\ UNCHANGED <<doc, ver, nodes, queue, files, requestVars, task, copy, historyVars, faults>>

(* The version is read once more, for the announcement. *)
Leave(w) ==
    /\ pc[w] = "done"
    /\ Idle(w)
    /\ UNCHANGED <<rowVars, queue, files, requestVars, historyVars, faults>>

(* except exc: a step fails, or a commit, that of MarkUnrouted and of       *)
(* Finish included.  The job is committed as failed by itself; version and  *)
(* document are read again behind that commit and follow in one of their    *)
(* own.                                                                     *)
FailJob(w) ==
    /\ Busy(w) /\ pc[w] # "failing" /\ Exists /\ Fault
    /\ job' = [job EXCEPT ![task[w]].status = "failed"]
    /\ copy' = [copy EXCEPT ![w] = CopyOf(@.version, FALSE)]
    /\ pc' = [pc EXCEPT ![w] = "failing"]
    /\ UNCHANGED <<doc, ver, nodes, queue, files, requestVars, task, historyVars>>

(* Mutant: a failed job leaves its version as it is. *)
FailDocumentOnly(w) ==
    /\ pc[w] = "failing" /\ Exists
    /\ doc' = [doc EXCEPT !.status = Column(@, copy[w].status, "failed")]
    /\ crossed' = (crossed \/ Stale(copy[w]))
    /\ Idle(w)
    /\ UNCHANGED <<ver, nodes, job, queue, files, requestVars,
                   builds, build, shared, lost, faults>>

FailVersion(w) ==
    /\ pc[w] = "failing" /\ Exists
    /\ LET c == copy[w] IN
          /\ ver' = [ver EXCEPT ![c.version].parse   = Column(@, c.parse, "failed"),
                                ![c.version].routing = Column(@, c.routing, "failed"),
                                ![c.version].path    = Column(@, c.path, FALSE)]
          /\ doc' = [doc EXCEPT !.status = Column(@, c.status, "failed")]
          /\ crossed' = (crossed \/ Stale(c))
    /\ Idle(w)
    /\ UNCHANGED <<nodes, job, queue, files, requestVars, builds, build, shared, lost, faults>>

(* The rows are gone (StaleDataError), or the PDF: the handler finds        *)
(* nothing to mark.                                                         *)
Vanish(w) ==
    /\ Busy(w) /\ ~Exists
    /\ Idle(w)
    /\ UNCHANGED <<rowVars, queue, files, requestVars, historyVars, faults>>

(* The worker dies, or the handler of a failure fails itself and the        *)
(* worker's loop goes on: nobody else knows of the job.                     *)
Crash(w) ==
    /\ Busy(w) /\ Fault
    /\ lost' = lost \union {task[w]}
    /\ Idle(w)
    /\ UNCHANGED <<rowVars, queue, files, requestVars, builds, build, shared, crossed>>

-----------------------------------------------------------------------------
(* create_or_append_document without a document_id makes the document and   *)
(* its first version in one transaction.                                    *)
Init ==
    /\ doc = [status |-> "uploaded", active |-> First]
    /\ ver = [v \in Versions |-> [NoRow EXCEPT !.row = (v = First)]]
    /\ nodes = [v \in Versions |-> 0]
    /\ job = [j \in Jobs |-> [status |-> "none", version |-> NoVersion]]
    /\ queue = <<>>
    /\ files = [v \in Versions |-> [pdf |-> v = First, structure |-> 0, index |-> 0]]
    /\ request = [v \in Versions |-> [Answered EXCEPT !.at = IF v = First THEN @ ELSE "new"]]
    /\ restore = [r \in Restores |-> Unread]
    /\ pc = [w \in Workers |-> "idle"]
    /\ task = [w \in Workers |-> NoJob]
    /\ copy = [w \in Workers |-> IdleCopy]
    /\ builds = {} /\ build = 0 /\ shared = {} /\ crossed = FALSE /\ lost = {}
    /\ faults = 0

JobStep(w) ==
    \/ MarkQueued(w) \/ MarkParsing(w) \/ Parse(w) \/ MarkReady(w)
    \/ WriteIndex(w) \/ Persist(w) \/ SyncText(w) \/ Finish(w) \/ Leave(w) \/ Vanish(w)

FailureStep(w) ==
    \/ RoutingFails(w) \/ MarkUnrouted(w) \/ FailJob(w) \/ FailVersion(w)

Next ==
    \/ \E v \in Versions : \/ Upload(v) \/ Rebuild(v) \/ StorePdf(v) \/ CommitVersion(v)
                           \/ AbortVersion(v)
    \/ \E r \in Restores : \/ \E v \in Versions : BeginRestore(r, v)
                           \/ CommitRestore(r)
    \/ DeleteDocument \/ DeleteTree
    \/ \E j \in Jobs, v \in Versions : CreateJob(j, v)
    \/ \E w \in Workers : \/ Pop(w) \/ JobStep(w) \/ FailureStep(w) \/ Crash(w)

Spec     == Init /\ [][Next]_vars
FairSpec == Spec /\ \A w \in Workers : WF_vars(JobStep(w) \/ FailureStep(w))

-----------------------------------------------------------------------------
TypeOK ==
    /\ doc \in [status : Stage \union {"deleted"}, active : Versions \union {NoVersion}]
    /\ ver \in [Versions -> [row : BOOLEAN, parse : Stage, routing : Stage, path : BOOLEAN,
                             revision : Nat \ {0}]]
    /\ nodes \in [Versions -> Nat]
    /\ job \in [Jobs -> [status : Stage \union {"none"}, version : Versions \union {NoVersion}]]
    /\ queue \in Seq(Jobs)
    /\ files \in [Versions -> [pdf : BOOLEAN, structure : {0, 1}, index : Nat]]
    /\ restore \in [Restores -> [at : {"new", "read", "done"}, version : Versions \union {NoVersion},
                                status : Stage, active : Versions \union {NoVersion}, parse : Stage]]
    /\ task \in [Workers -> Jobs \union {NoJob}]
    /\ build \in Nat /\ shared \subseteq Versions /\ faults \in 0..MaxFaults

(* What a row names is in the storage: the PDF of every committed version,  *)
(* and the structure of every version that is ready to be searched.         *)
ArtifactsStored ==
    \A v \in Live : /\ files[v].pdf
                    /\ ver[v].parse = "index_ready" => files[v].structure = 1

(* The routing rows of a version that is ready are those of its stored      *)
(* index, and no two builds carry the same routing_index_version, which     *)
(* keys the embedding artifacts: after reparses, failures and crashes, as   *)
(* long as no two jobs work on the version at once.                         *)
RoutingRebuilt ==
    /\ \A v \in Live \ shared :
          ver[v].routing = "index_ready" => nodes[v] = files[v].index
    /\ \A a, b \in builds :
          (a.version = b.version /\ a.version \notin shared /\ a.build # b.build)
             => a.revision # b.revision

(* A version that says it is being parsed has a job that is not settled, or *)
(* one whose failure a worker is just recording in the version: however     *)
(* jobs of the version overlap, none leaves it behind.  The exception is a  *)
(* handler of a failure that dies between its two commits.                  *)
NotLeftBehind ==
    \A v \in Live : ver[v].parse \in {"queued", "parsing"} =>
        \E j \in Jobs : /\ job[j].version = v
                        /\ \/ job[j].status \notin Settled
                           \/ \E w \in Workers : task[w] = j /\ pc[w] = "failing"
                           \/ job[j].status = "failed" /\ j \in lost

(* The document says "index_ready" of its active version only, however      *)
(* uploads, restores and jobs overlap, until one of them commits on a       *)
(* reading that another commit has made stale.                              *)
StatusOfActive ==
    (~crossed /\ doc.status = "index_ready") => ver[doc.active].parse = "index_ready"

(* A job that a worker has taken settles, whatever fails on the way, unless *)
(* its worker dies or the document is deleted.                              *)
JobsSettle ==
    \A j \in Jobs : (\E w \in Workers : task[w] = j)
        ~> (job[j].status \in Settled \union {"none"} \/ j \in lost)

=============================================================================
