----------------------------- MODULE DocumentsProofs -----------------------------
(***************************************************************************)
(* The safety of Documents for any versions, jobs, workers and faults.     *)
(* Jobs write what they loaded, so the invariant (IInv) says of a worker    *)
(* what it knows of the rows (WorkFits), of a version being parsed that a   *)
(* job before its point of success waits for it, or the handler of its      *)
(* failure (Awaited), and, of a version that no two jobs have shared, that  *)
(* what its worker knows of its routing columns is still so (KnownRouting), *)
(* from which the builds of a version are ordered.                          *)
(***************************************************************************)
EXTENDS Documents, TLAPS

Maybe == Versions \union {NoVersion}
Labels == {"idle", "queue", "mark", "parse", "ready", "index", "persist", "sync",
           "unrouted", "finish", "done", "failing"}

VersionRow == [row : BOOLEAN, parse : Stage, routing : Stage, path : BOOLEAN,
               revision : Nat \ {0}]
JobRow     == [status : Stage \union {"none"}, version : Maybe]
CopyRow    == [version : Maybe, active : Maybe, status : Stage \union {"deleted"},
               parse : Stage, routing : Stage, path : BOOLEAN, revision : Nat \ {0},
               bump : BOOLEAN, index : Nat, stored : BOOLEAN]
Request    == [at : {"new", "read", "stored", "done"}, status : Stage, source : Maybe]
RestoreRow == [at : {"new", "read", "done"}, version : Maybe, status : Stage,
               active : Maybe, parse : Stage]
Build      == [version : Versions, build : Nat \ {0}, revision : Nat \ {0}]

Typed == /\ doc \in [status : Stage \union {"deleted"}, active : Maybe]
         /\ ver \in [Versions -> VersionRow] /\ nodes \in [Versions -> Nat]
         /\ job \in [Jobs -> JobRow] /\ queue \in Seq(Jobs)
         /\ files \in [Versions -> [pdf : BOOLEAN, structure : {0, 1}, index : Nat]]
         /\ task \in [Workers -> Jobs \union {NoJob}]
         /\ build \in Nat /\ shared \subseteq Versions /\ faults \in 0..MaxFaults
         /\ request \in [Versions -> Request] /\ restore \in [Restores -> RestoreRow]
         /\ pc \in [Workers -> Labels] /\ copy \in [Workers -> CopyRow]
         /\ builds \subseteq Build /\ crossed \in BOOLEAN

(* Rows belong to a document that exists: versions to the document, jobs to *)
(* a version.                                                               *)
RowsFit ==
    /\ ~Exists => \A v \in Versions : ~ver[v].row
    /\ Exists => doc.active \in Live
    /\ \A j \in Jobs : IF job[j].status = "none" THEN job[j].version = NoVersion
                       ELSE job[j].version \in Live

(* A version that is not committed has no row, no nodes and no builds; its  *)
(* PDF is stored before it is.  A version that is being restored has a row. *)
RequestsFit ==
    /\ \A r \in Restores : restore[r].at = "read" =>
          restore[r].version \in Versions /\ (Exists => restore[r].version \in Live)
    /\ \A v \in Versions :
        /\ request[v].at = "stored" => Exists /\ files[v].pdf
        /\ request[v].at # "done" => /\ ~ver[v].row /\ nodes[v] = 0
                                     /\ \A b \in builds : b.version # v

(* A job is pushed once, so that one worker at most ever has it. *)
JobsOnce ==
    /\ \A i, k \in DOMAIN queue : queue[i] = queue[k] => i = k
    /\ \A i \in DOMAIN queue : /\ job[queue[i]].status \notin Settled
                               /\ \A w \in Workers : task[w] # queue[i]
    /\ \A u, w \in Workers : task[u] = task[w] /\ task[u] # NoJob => u = w

(* What a worker has loaded. *)
WorkFits(w) ==
    /\ pc[w] = "idle" => task[w] = NoJob /\ copy[w].version = NoVersion
    /\ Busy(w) => /\ task[w] \in Jobs /\ copy[w].version \in Versions
                  /\ Exists => /\ job[task[w]].status # "none"
                               /\ job[task[w]].version = copy[w].version
    /\ Busy(w) /\ Exists /\ pc[w] \notin {"done", "failing"} => job[task[w]].status \notin Settled
    /\ pc[w] = "failing" /\ Exists => job[task[w]].status = "failed"
    /\ pc[w] = "mark" => copy[w].parse = "queued"
    /\ pc[w] \in {"parse", "ready"} => copy[w].parse = "parsing"
    /\ pc[w] \in {"parse", "ready", "index", "persist"} => copy[w].routing = "parsing"
    /\ pc[w] = "ready" /\ Exists => files[copy[w].version].structure = 1
    /\ pc[w] = "persist" => copy[w].index # 0

(* The job that a version being parsed waits for has not passed the point   *)
(* at which it makes the version ready, or a worker that has read what the  *)
(* version says is about to fail it, or that worker has died.               *)
Early   == {"queue", "mark", "parse", "ready"}
Waiting == {"queued", "parsing"}
Pending(j) == /\ job[j].status \notin Settled
              /\ \A w \in Workers : task[w] = j => pc[w] \in Early
Failing(j) == \E w \in Workers : task[w] = j /\ pc[w] = "failing" /\ copy[w].parse \in Waiting
Lost(j)    == job[j].status = "failed" /\ j \in lost
Waits(v, j) == job[j].version = v /\ (Pending(j) \/ Failing(j) \/ Lost(j))
Awaited ==
    \A v \in Live : ver[v].parse \in Waiting => \E j \in Jobs : Waits(v, j)

(* A version that is not shared has one worker at most, which knows its     *)
(* routing columns as they are, and whose revision is a new one.            *)
Alone ==
    \A u, w \in Workers :
        (copy[u].version = copy[w].version /\ copy[u].version \in Versions \ shared) => u = w
KnownRouting(w) ==
    LET v == copy[w].version IN
    (v \in Versions \ shared /\ Exists) =>
        /\ copy[w].routing = ver[v].routing /\ copy[w].revision = ver[v].revision
        /\ pc[w] = "queue" => ((\E b \in builds : b.version = v) => copy[w].bump)
        /\ pc[w] \in {"mark", "parse", "ready", "index", "persist"} =>
              \A b \in builds : b.version = v => b.revision < copy[w].revision
        /\ pc[w] = "persist" => files[v].index = copy[w].index
BuildsFit ==
    \A b \in builds : (b.version \notin shared /\ Exists) =>
        b.revision <= ver[b.version].revision /\ nodes[b.version] # 0

IInv == /\ Typed /\ RowsFit /\ RequestsFit /\ JobsOnce
        /\ \A w \in Workers : WorkFits(w)
        /\ ArtifactsStored /\ Awaited /\ StatusOfActive
        /\ Alone /\ (\A w \in Workers : KnownRouting(w)) /\ BuildsFit /\ RoutingRebuilt
-----------------------------------------------------------------------------
(* What the job's steps do to the rows. *)

(* The type invariant in the words of this module. *)
LEMMA TypedIsTypeOK == Typed => TypeOK
  BY DEF Typed, TypeOK, VersionRow, JobRow, RestoreRow, Maybe

LEMMA FlushEffect ==
    ASSUME Typed, NEW w \in Workers, NEW v \in Versions, v = copy[w].version,
           NEW j \in Jobs, j = task[w], NEW s \in Stage, NEW new \in CopyRow,
           new.status \in Stage \/ new.status = copy[w].status,
           Flush(w, s, new)
    PROVE  /\ doc' \in [status : Stage \union {"deleted"}, active : Maybe]
           /\ ver' \in [Versions -> VersionRow] /\ job' \in [Jobs -> JobRow]
           /\ copy' \in [Workers -> CopyRow]
           /\ \A x \in Versions : /\ ver'[x].row = ver[x].row
                                  /\ x # v => ver'[x] = ver[x]
           /\ ver'[v].parse = Column(ver[v].parse, copy[w].parse, new.parse)
           /\ ver'[v].routing = Column(ver[v].routing, copy[w].routing, new.routing)
           /\ ver'[v].revision = Column(ver[v].revision, copy[w].revision, new.revision)
           /\ doc'.status = Column(doc.status, copy[w].status, new.status)
           /\ doc'.active = Column(doc.active, copy[w].active, new.active)
           /\ job'[j].status = s /\ job'[j].version = job[j].version
           /\ \A i \in Jobs : i # j => job'[i] = job[i]
           /\ copy'[w] = new /\ \A u \in Workers : u # w => copy'[u] = copy[u]
  <1> DEFINE c == copy[w]
  <1>1. c \in CopyRow /\ ver \in [Versions -> VersionRow] /\ job \in [Jobs -> JobRow]
        /\ doc \in [status : Stage \union {"deleted"}, active : Maybe]
        /\ copy \in [Workers -> CopyRow]
    BY DEF Typed
  <1> DEFINE row == [ver[v] EXCEPT !.parse    = Column(ver[v].parse, c.parse, new.parse),
                                   !.routing  = Column(ver[v].routing, c.routing, new.routing),
                                   !.path     = Column(ver[v].path, c.path, new.path),
                                   !.revision = Column(ver[v].revision, c.revision, new.revision)]
  <1>2. ver' = [ver EXCEPT ![v] = row]
    BY <1>1 DEF Flush
  <1>3. job' = [job EXCEPT ![j].status = s] /\ copy' = [copy EXCEPT ![w] = new]
        /\ doc' = [status |-> Column(doc.status, c.status, new.status),
                   active |-> Column(doc.active, c.active, new.active)]
    BY DEF Flush
  <1>4. /\ ver[v] \in VersionRow
        /\ Column(ver[v].parse, c.parse, new.parse) \in Stage
        /\ Column(ver[v].routing, c.routing, new.routing) \in Stage
        /\ Column(ver[v].path, c.path, new.path) \in BOOLEAN
        /\ Column(ver[v].revision, c.revision, new.revision) \in Nat \ {0}
    BY <1>1 DEF Column, VersionRow, CopyRow
  <1>5. /\ Column(doc.status, c.status, new.status) \in Stage \union {"deleted"}
        /\ Column(doc.active, c.active, new.active) \in Maybe
    BY <1>1 DEF Column, CopyRow
  <1> HIDE DEF c
  <1>6. /\ row \in VersionRow /\ row.row = ver[v].row
        /\ row.parse = Column(ver[v].parse, c.parse, new.parse)
        /\ row.routing = Column(ver[v].routing, c.routing, new.routing)
        /\ row.revision = Column(ver[v].revision, c.revision, new.revision)
    BY <1>4 DEF VersionRow
  <1> HIDE DEF row
  <1>7. /\ ver' \in [Versions -> VersionRow] /\ ver'[v] = row
        /\ \A x \in Versions : x # v => ver'[x] = ver[x]
    BY <1>1, <1>2, <1>6
  <1>8. /\ job' \in [Jobs -> JobRow] /\ job'[j].status = s /\ job'[j].version = job[j].version
        /\ \A i \in Jobs : i # j => job'[i] = job[i]
    BY <1>1, <1>3 DEF JobRow
  <1>9. /\ copy' \in [Workers -> CopyRow] /\ copy'[w] = new
        /\ \A u \in Workers : u # w => copy'[u] = copy[u]
    BY <1>1, <1>3
  <1>10. doc' \in [status : Stage \union {"deleted"}, active : Maybe]
    BY <1>3, <1>5
  <1>11. /\ doc'.status = Column(doc.status, c.status, new.status)
         /\ doc'.active = Column(doc.active, c.active, new.active)
    BY <1>3
  <1>12. \A x \in Versions : ver'[x].row = ver[x].row
    BY <1>6, <1>7
  <1> QED BY <1>6, <1>7, <1>8, <1>9, <1>10, <1>11, <1>12 DEF c
(* The five steps of a job that flush. *)
Marks(w) == MarkQueued(w) \/ MarkParsing(w) \/ MarkReady(w) \/ Persist(w) \/ MarkUnrouted(w)

Flushes(w, v, j, s, new) ==
    /\ v = copy[w].version /\ j = task[w] /\ Exists /\ Busy(w)
    /\ new.version = v /\ new.active \in {copy[w].active, v}
    /\ new.status \in Stage \/ new.status = copy[w].status
    /\ Flush(w, s, new)
    /\ UNCHANGED <<queue, requestVars, task, files, build, shared, lost, faults>>

(* What each of them writes, and the routing index that the last commits.   *)
Writes(w, label, new) ==
    LET c == copy[w] IN
    \/ /\ pc[w] = "queue" /\ label = "mark"
       /\ new.parse = "queued" /\ new.routing = "queued" /\ new.status = "queued"
       /\ new.active = c.active
       /\ new.revision = IF c.bump THEN c.revision + 1 ELSE c.revision
       /\ crossed' = (crossed \/ Stale(c)) /\ UNCHANGED <<nodes, builds>>
    \/ /\ pc[w] = "mark" /\ label = "parse"
       /\ new.parse = "parsing" /\ new.routing = "parsing" /\ new.status = "parsing"
       /\ new.active = c.active /\ new.revision = c.revision
       /\ crossed' = (crossed \/ Stale(c)) /\ UNCHANGED <<nodes, builds>>
    \/ /\ pc[w] = "ready" /\ label = "index"
       /\ new.parse = "index_ready" /\ new.routing = c.routing /\ new.status = "index_ready"
       /\ new.active = c.version /\ new.revision = c.revision
       /\ crossed' = (crossed \/ Stale(c)) /\ UNCHANGED <<nodes, builds>>
    \/ /\ pc[w] = "persist" /\ label = "sync"
       /\ new.parse = c.parse /\ new.routing = "index_ready" /\ new.status = c.status
       /\ new.active = c.active /\ new.revision = c.revision
       /\ nodes' = [nodes EXCEPT ![c.version] = c.index]
       /\ builds' = builds \union {[version |-> c.version, build |-> c.index,
                                    revision |-> c.revision]}
       /\ UNCHANGED crossed
    \/ /\ pc[w] = "unrouted" /\ label = "finish"
       /\ new.parse = c.parse /\ new.routing = "failed" /\ new.status = c.status
       /\ new.active = c.active /\ new.revision = c.revision
       /\ UNCHANGED <<nodes, builds, crossed>>

LEMMA MarksFlush ==
    ASSUME Typed, NEW w \in Workers, WorkFits(w), Marks(w)
    PROVE  \E v \in Versions, j \in Jobs, s \in Stage \ Settled, new \in CopyRow,
              label \in Labels :
              Flushes(w, v, j, s, new) /\ Writes(w, label, new) /\ pc' = [pc EXCEPT ![w] = label]
  <1> DEFINE c == copy[w]
  <1>1. c \in CopyRow /\ Exists /\ Busy(w)
    BY DEF Typed, Marks, MarkQueued, MarkParsing, MarkReady, Persist, MarkUnrouted, Busy
  <1>2. /\ task[w] \in Jobs /\ c.version \in Versions
        /\ job[task[w]].status \in Stage \ Settled
    <2>1. pc[w] \notin {"done", "failing"}
      BY DEF Marks, MarkQueued, MarkParsing, MarkReady, Persist, MarkUnrouted
    <2> QED BY <1>1, <2>1 DEF Typed, WorkFits, JobRow
  <1> PICK v \in Versions, j \in Jobs : v = c.version /\ j = task[w]
    BY <1>2
  <1>3. CASE MarkQueued(w)
    <2> DEFINE new == [copy[w] EXCEPT !.parse = "queued", !.routing = "queued",
                                      !.path = FALSE, !.status = "queued",
                                      !.revision = IF copy[w].bump THEN @ + 1 ELSE @]
    <2>1. /\ new \in CopyRow /\ new.version = c.version /\ new.active = c.active
          /\ new.status = "queued" /\ new.parse = "queued" /\ new.routing = "queued"
          /\ new.revision = IF c.bump THEN c.revision + 1 ELSE c.revision
          /\ "queued" \in Stage \ Settled
      <3>1. (IF c.bump THEN c.revision + 1 ELSE c.revision) \in Nat \ {0}
        BY <1>1 DEF CopyRow
      <3> QED BY <1>1, <3>1 DEF CopyRow, Stage, Settled
    <2>2. /\ Flush(w, "queued", new) /\ pc[w] = "queue" /\ pc' = [pc EXCEPT ![w] = "mark"]
          /\ crossed' = (crossed \/ Stale(copy[w]))
          /\ UNCHANGED <<nodes, queue, files, requestVars, task, builds, build, shared, lost, faults>>
      BY <1>3 DEF MarkQueued
    <2> HIDE DEF new
    <2>3. Writes(w, "mark", new)
      BY <2>1, <2>2 DEF Writes
    <2>4. Flushes(w, v, j, "queued", new)
      BY <1>1, <2>1, <2>2 DEF Flushes
    <2>5. "mark" \in Labels
      BY DEF Labels
    <2> QED BY <2>1, <2>2, <2>3, <2>4, <2>5
  <1>4. CASE MarkParsing(w)
    <2> DEFINE new == [copy[w] EXCEPT !.parse = "parsing", !.routing = "parsing",
                                      !.path = FALSE, !.status = "parsing"]
    <2>1. /\ new \in CopyRow /\ new.version = c.version /\ new.active = c.active
          /\ new.status = "parsing" /\ new.parse = "parsing" /\ new.routing = "parsing"
          /\ new.revision = c.revision
          /\ "parsing" \in Stage \ Settled
      BY <1>1 DEF CopyRow, Stage, Settled
    <2>2. /\ Flush(w, "parsing", new) /\ pc[w] = "mark" /\ pc' = [pc EXCEPT ![w] = "parse"]
          /\ crossed' = (crossed \/ Stale(copy[w]))
          /\ UNCHANGED <<nodes, queue, files, requestVars, task, builds, build, shared, lost, faults>>
      BY <1>4 DEF MarkParsing
    <2> HIDE DEF new
    <2>3. Writes(w, "parse", new)
      BY <2>1, <2>2 DEF Writes
    <2>4. Flushes(w, v, j, "parsing", new)
      BY <1>1, <2>1, <2>2 DEF Flushes
    <2>5. "parse" \in Labels
      BY DEF Labels
    <2> QED BY <2>1, <2>2, <2>3, <2>4, <2>5
  <1>5. CASE MarkReady(w)
    <2> DEFINE new == [copy[w] EXCEPT !.parse = "index_ready", !.status = "index_ready",
                                      !.active = copy[w].version]
    <2>1. /\ new \in CopyRow /\ new.version = c.version /\ new.active = c.version
          /\ new.status = "index_ready" /\ new.parse = "index_ready"
          /\ new.routing = c.routing /\ new.revision = c.revision /\ "index_ready" \in Stage
      BY <1>1 DEF CopyRow, Stage, Maybe
    <2>2. /\ Flush(w, job[j].status, new) /\ pc[w] = "ready" /\ pc' = [pc EXCEPT ![w] = "index"]
          /\ crossed' = (crossed \/ Stale(copy[w]))
          /\ UNCHANGED <<nodes, queue, files, requestVars, task, builds, build, shared, lost, faults>>
      BY <1>5 DEF MarkReady
    <2> HIDE DEF new
    <2>3. Writes(w, "index", new)
      BY <2>1, <2>2 DEF Writes
    <2>4. Flushes(w, v, j, job[j].status, new)
      BY <1>1, <2>1, <2>2 DEF Flushes
    <2>5. "index" \in Labels
      BY DEF Labels
    <2> QED BY <1>2, <2>1, <2>2, <2>3, <2>4, <2>5
  <1>6. CASE Persist(w)
    <2> DEFINE new == [copy[w] EXCEPT !.routing = "index_ready", !.path = TRUE,
                                      !.stored = TRUE]
    <2>1. /\ new \in CopyRow /\ new.version = c.version /\ new.active = c.active
          /\ new.status = c.status /\ new.parse = c.parse
          /\ new.routing = "index_ready" /\ new.revision = c.revision
      BY <1>1 DEF CopyRow, Stage
    <2>2. /\ Flush(w, job[j].status, new) /\ pc[w] = "persist" /\ pc' = [pc EXCEPT ![w] = "sync"]
          /\ nodes' = [nodes EXCEPT ![c.version] = c.index]
          /\ builds' = builds \union {[version |-> c.version, build |-> c.index,
                                       revision |-> c.revision]}
          /\ UNCHANGED <<queue, files, requestVars, task, build, shared, crossed, lost, faults>>
      BY <1>6 DEF Persist
    <2> HIDE DEF new
    <2>3. Writes(w, "sync", new)
      BY <2>1, <2>2 DEF Writes
    <2>4. Flushes(w, v, j, job[j].status, new)
      BY <1>1, <2>1, <2>2 DEF Flushes
    <2>5. "sync" \in Labels
      BY DEF Labels
    <2> QED BY <1>2, <2>1, <2>2, <2>3, <2>4, <2>5
  <1>7. CASE MarkUnrouted(w)
    <2> DEFINE new == [copy[w] EXCEPT !.routing = "failed", !.path = copy[w].stored]
    <2>1. /\ new \in CopyRow /\ new.version = c.version /\ new.active = c.active
          /\ new.status = c.status /\ new.parse = c.parse
          /\ new.routing = "failed" /\ new.revision = c.revision
      BY <1>1 DEF CopyRow, Stage
    <2>2. /\ Flush(w, job[j].status, new) /\ pc[w] = "unrouted" /\ pc' = [pc EXCEPT ![w] = "finish"]
          /\ UNCHANGED <<nodes, queue, files, requestVars, task, historyVars, faults>>
      BY <1>7 DEF MarkUnrouted
    <2> HIDE DEF new
    <2>3. Writes(w, "finish", new)
      BY <2>1, <2>2 DEF Writes, historyVars
    <2>4. Flushes(w, v, j, job[j].status, new)
      BY <1>1, <2>1, <2>2 DEF Flushes, historyVars
    <2>5. "finish" \in Labels
      BY DEF Labels
    <2> QED BY <1>2, <2>1, <2>2, <2>3, <2>4, <2>5
  <1> QED BY <1>3, <1>4, <1>5, <1>6, <1>7 DEF Marks

(* What a worker loads is a copy, and so is what it holds when it is idle. *)
LEMMA CopiesAreCopies ==
    ASSUME Typed
    PROVE  /\ IdleCopy \in CopyRow /\ IdleCopy.version = NoVersion
           /\ \A v \in Versions, bump \in BOOLEAN :
                 /\ CopyOf(v, bump) \in CopyRow /\ CopyOf(v, bump).version = v
                 /\ CopyOf(v, bump).active = doc.active /\ CopyOf(v, bump).status = doc.status
                 /\ CopyOf(v, bump).parse = ver[v].parse
                 /\ CopyOf(v, bump).routing = ver[v].routing
                 /\ CopyOf(v, bump).revision = ver[v].revision
                 /\ CopyOf(v, bump).bump = bump
  <1>1. IdleCopy \in CopyRow /\ IdleCopy.version = NoVersion
    BY DEF IdleCopy, CopyRow, Maybe, Stage
  <1>2. ASSUME NEW v \in Versions, NEW bump \in BOOLEAN
        PROVE  /\ CopyOf(v, bump) \in CopyRow /\ CopyOf(v, bump).version = v
               /\ CopyOf(v, bump).active = doc.active /\ CopyOf(v, bump).status = doc.status
               /\ CopyOf(v, bump).parse = ver[v].parse
               /\ CopyOf(v, bump).routing = ver[v].routing
               /\ CopyOf(v, bump).revision = ver[v].revision
               /\ CopyOf(v, bump).bump = bump
    <2>1. /\ doc.active \in Maybe /\ doc.status \in Stage \union {"deleted"}
          /\ ver[v] \in VersionRow /\ v \in Maybe
      BY DEF Typed, Maybe
    <2>2. /\ ver[v].parse \in Stage /\ ver[v].routing \in Stage /\ ver[v].path \in BOOLEAN
          /\ ver[v].revision \in Nat \ {0}
      BY <2>1 DEF VersionRow
    <2> QED BY <2>1, <2>2 DEF CopyOf, CopyRow
  <1> QED BY <1>1, <1>2

LEMMA IdleEffect ==
    ASSUME Typed, NEW w \in Workers, Idle(w)
    PROVE  /\ pc' \in [Workers -> Labels] /\ copy' \in [Workers -> CopyRow]
           /\ task' \in [Workers -> Jobs \union {NoJob}]
           /\ pc'[w] = "idle" /\ task'[w] = NoJob /\ copy'[w].version = NoVersion
           /\ \A u \in Workers \ {w} : /\ pc'[u] = pc[u] /\ task'[u] = task[u]
                                       /\ copy'[u] = copy[u]
  BY CopiesAreCopies DEF Typed, Idle, Labels

LEMMA FaultTyped == ASSUME Typed, Fault PROVE faults' \in 0..MaxFaults
  BY FaultsAssumption DEF Typed, Fault

(* What a worker knows once it has read the rows again. *)
Rereads(w) ==
    LET v == copy[w].version IN
    /\ copy' \in [Workers -> CopyRow]
    /\ copy'[w].version = v /\ copy'[w].active = doc.active /\ copy'[w].status = doc.status
    /\ copy'[w].parse = ver[v].parse /\ copy'[w].routing = ver[v].routing
    /\ copy'[w].revision = ver[v].revision
    /\ \A u \in Workers : u # w => copy'[u] = copy[u]

LEMMA RoutingEffect ==
    ASSUME Typed, NEW w \in Workers, WorkFits(w), RoutingFails(w)
    PROVE  /\ pc[w] \in {"index", "persist", "sync"} /\ pc' = [pc EXCEPT ![w] = "unrouted"]
           /\ Exists /\ Busy(w) /\ Rereads(w)
           /\ UNCHANGED <<doc, ver, nodes, job, queue, files, requestVars, task, historyVars>>
  <1> DEFINE v == copy[w].version
             c == CopyOf(v, FALSE)
             cc == [c EXCEPT !.stored = copy[w].stored]
  <1>1. v \in Versions /\ copy[w].stored \in BOOLEAN /\ copy \in [Workers -> CopyRow]
    BY DEF RoutingFails, WorkFits, Busy, Typed, CopyRow
  <1>2. /\ c \in CopyRow /\ c.version = v /\ c.active = doc.active /\ c.status = doc.status
        /\ c.parse = ver[v].parse /\ c.routing = ver[v].routing /\ c.revision = ver[v].revision
    BY <1>1, CopiesAreCopies, FALSE \in BOOLEAN
  <1>3. copy' = [copy EXCEPT ![w] = cc]
    BY <1>1 DEF RoutingFails
  <1> HIDE DEF c
  <1>4. /\ cc \in CopyRow /\ cc.version = c.version /\ cc.active = c.active
        /\ cc.status = c.status /\ cc.parse = c.parse /\ cc.routing = c.routing
        /\ cc.revision = c.revision
    BY <1>1, <1>2 DEF CopyRow
  <1> HIDE DEF cc
  <1>5. Rereads(w)
    BY <1>1, <1>2, <1>3, <1>4 DEF Rereads
  <1> QED BY <1>5 DEF RoutingFails, rowVars, Busy

LEMMA FailJobEffect ==
    ASSUME Typed, NEW w \in Workers, WorkFits(w), FailJob(w), NEW j \in Jobs, j = task[w]
    PROVE  /\ Exists /\ Busy(w) /\ pc[w] # "failing" /\ pc' = [pc EXCEPT ![w] = "failing"]
           /\ Rereads(w)
           /\ job' \in [Jobs -> JobRow]
           /\ job'[j].status = "failed" /\ job'[j].version = job[j].version
           /\ \A i \in Jobs : i # j => job'[i] = job[i]
           /\ UNCHANGED <<doc, ver, nodes, queue, files, requestVars, task, historyVars>>
  <1> DEFINE v == copy[w].version
             c == CopyOf(v, FALSE)
  <1>1. v \in Versions /\ copy \in [Workers -> CopyRow]
    BY DEF FailJob, WorkFits, Typed
  <1>2. /\ c \in CopyRow /\ c.version = v /\ c.active = doc.active /\ c.status = doc.status
        /\ c.parse = ver[v].parse /\ c.routing = ver[v].routing /\ c.revision = ver[v].revision
    BY <1>1, CopiesAreCopies, FALSE \in BOOLEAN
  <1>3. copy' = [copy EXCEPT ![w] = c]
    BY <1>1 DEF FailJob
  <1> HIDE DEF c
  <1>4. Rereads(w)
    BY <1>1, <1>2, <1>3 DEF Rereads
  <1>5. /\ job \in [Jobs -> JobRow] /\ job' = [job EXCEPT ![j].status = "failed"]
    BY DEF Typed, FailJob
  <1>6. /\ job' \in [Jobs -> JobRow]
        /\ job'[j].status = "failed" /\ job'[j].version = job[j].version
        /\ \A i \in Jobs : i # j => job'[i] = job[i]
    BY <1>5 DEF JobRow, Stage
  <1> QED BY <1>4, <1>6 DEF FailJob

LEMMA FailVersionEffect ==
    ASSUME Typed, NEW w \in Workers, WorkFits(w), FailVersion(w),
           NEW v \in Versions, v = copy[w].version
    PROVE  /\ Exists /\ pc[w] = "failing" /\ Busy(w) /\ Idle(w)
           /\ doc' \in [status : Stage \union {"deleted"}, active : Maybe]
           /\ ver' \in [Versions -> VersionRow]
           /\ doc'.status = Column(doc.status, copy[w].status, "failed")
           /\ doc'.active = doc.active
           /\ \A x \in Versions : /\ ver'[x].row = ver[x].row
                                  /\ x # v => ver'[x] = ver[x]
           /\ ver'[v].parse = Column(ver[v].parse, copy[w].parse, "failed")
           /\ ver'[v].routing = Column(ver[v].routing, copy[w].routing, "failed")
           /\ ver'[v].revision = ver[v].revision
           /\ crossed' = (crossed \/ Stale(copy[w]))
           /\ UNCHANGED <<nodes, job, queue, files, requestVars, builds, build, shared, lost, faults>>
  <1> DEFINE c == copy[w]
             row == [ver[v] EXCEPT !.parse   = Column(ver[v].parse, c.parse, "failed"),
                                   !.routing = Column(ver[v].routing, c.routing, "failed"),
                                   !.path    = Column(ver[v].path, c.path, FALSE)]
  <1>1. /\ ver \in [Versions -> VersionRow]
        /\ doc \in [status : Stage \union {"deleted"}, active : Maybe]
    BY DEF Typed
  <1>2. ver' = [ver EXCEPT ![v] = row]
    BY <1>1 DEF FailVersion
  <1>3. doc' = [doc EXCEPT !.status = Column(doc.status, c.status, "failed")]
    BY DEF FailVersion
  <1>4. /\ ver[v] \in VersionRow
        /\ Column(ver[v].parse, c.parse, "failed") \in Stage
        /\ Column(ver[v].routing, c.routing, "failed") \in Stage
        /\ Column(ver[v].path, c.path, FALSE) \in BOOLEAN
        /\ Column(doc.status, c.status, "failed") \in Stage \union {"deleted"}
    BY <1>1 DEF Column, VersionRow, Stage
  <1> HIDE DEF c
  <1>5. /\ row \in VersionRow /\ row.row = ver[v].row
        /\ row.parse = Column(ver[v].parse, c.parse, "failed")
        /\ row.routing = Column(ver[v].routing, c.routing, "failed")
        /\ row.revision = ver[v].revision
    BY <1>4 DEF VersionRow
  <1> HIDE DEF row
  <1>6. /\ ver' \in [Versions -> VersionRow] /\ ver'[v] = row
        /\ \A x \in Versions : x # v => ver'[x] = ver[x]
    BY <1>1, <1>2, <1>5
  <1>7. /\ doc' \in [status : Stage \union {"deleted"}, active : Maybe]
        /\ doc'.status = Column(doc.status, c.status, "failed") /\ doc'.active = doc.active
    BY <1>1, <1>3, <1>4
  <1>8. \A x \in Versions : ver'[x].row = ver[x].row
    BY <1>5, <1>6
  <1>9. /\ Exists /\ pc[w] = "failing" /\ Busy(w) /\ Idle(w)
        /\ crossed' = (crossed \/ Stale(copy[w]))
        /\ UNCHANGED <<nodes, job, queue, files, requestVars, builds, build, shared, lost, faults>>
    BY DEF FailVersion, Busy
  <1> QED BY <1>5, <1>6, <1>7, <1>8, <1>9 DEF c
-----------------------------------------------------------------------------
(* Types. *)

(* A version without a row, and one that has just got its row. *)
NewRow == [NoRow EXCEPT !.row = TRUE]

LEMMA NoRowIsARow ==
    /\ NoRow \in VersionRow /\ ~NoRow.row /\ NewRow \in VersionRow /\ NewRow.row
    /\ NewRow.parse = "uploaded" /\ NewRow.routing = "uploaded" /\ NewRow.revision = 1
  <1>1. NoRow \in VersionRow
    <2>1. 1 \in Nat \ {0}
      OBVIOUS
    <2>2. "uploaded" \in Stage
      BY DEF Stage
    <2> QED BY <2>1, <2>2 DEF NoRow, VersionRow
  <1>2. /\ NewRow.row = TRUE /\ NewRow.parse = NoRow.parse
        /\ NewRow.routing = NoRow.routing /\ NewRow.revision = NoRow.revision
    BY <1>1 DEF NewRow, VersionRow
  <1>3. NewRow \in VersionRow
    BY <1>1 DEF NewRow, VersionRow
  <1> QED BY <1>1, <1>2, <1>3 DEF NoRow

LEMMA RequestsTyped ==
    ASSUME Typed, NEW v \in Versions,
           Upload(v) \/ Rebuild(v) \/ StorePdf(v) \/ CommitVersion(v) \/ AbortVersion(v)
    PROVE  Typed'
  <1> USE DEF Typed, rowVars, requestVars, workerVars, historyVars
  <1>1. ASSUME NEW source \in Maybe, BeginVersion(v, source) PROVE Typed'
    <2>1. doc.status \in Stage
      BY <1>1 DEF BeginVersion, Exists
    <2>2. [at |-> "read", status |-> doc.status, source |-> source] \in Request
      BY <2>1 DEF Request
    <2> QED BY <1>1, <2>2 DEF BeginVersion
  <1>2. ASSUME Upload(v) \/ Rebuild(v) PROVE Typed'
    BY <1>1, <1>2 DEF Upload, Rebuild, Live, Maybe
  <1>3. ASSUME StorePdf(v) PROVE Typed'
    <2>1. request' \in [Versions -> Request]
      BY <1>3 DEF StorePdf, Request
    <2> QED BY <1>3, <2>1 DEF StorePdf
  <1>4. Answered \in Request
    BY DEF Answered, Request, Stage, Maybe
  <1>5. ASSUME CommitVersion(v) PROVE Typed'
    <2>1. [NoRow EXCEPT !.row = TRUE] \in VersionRow
      BY NoRowIsARow DEF NewRow
    <2>2. request[v].status \in Stage
      BY DEF Request
    <2>3. doc' \in [status : Stage \union {"deleted"}, active : Maybe]
      BY <1>5, <2>2 DEF CommitVersion, Column, Stage, Maybe
    <2> QED BY <1>4, <1>5, <2>1, <2>3 DEF CommitVersion
  <1>6. ASSUME AbortVersion(v) PROVE Typed'
    <2>1. faults' \in 0..MaxFaults
      BY <1>6, FaultTyped DEF AbortVersion
    <2> QED BY <1>4, <1>6, <2>1 DEF AbortVersion
  <1> QED BY <1>2, <1>3, <1>5, <1>6

(* The two steps of a restore. *)
Restoring(r) == (\E v \in Versions : BeginRestore(r, v)) \/ CommitRestore(r)

LEMMA RestoreTyped ==
    ASSUME Typed, RequestsFit, NEW r \in Restores, Restoring(r)
    PROVE  Typed'
  <1> USE DEF Typed, rowVars, requestVars, workerVars, historyVars
  <1>1. ASSUME NEW v \in Versions, BeginRestore(r, v) PROVE Typed'
    <2>1. doc.status \in Stage /\ doc.active \in Maybe /\ ver[v].parse \in Stage
      BY <1>1 DEF BeginRestore, Exists, VersionRow
    <2>2. [at |-> "read", version |-> v, status |-> doc.status, active |-> doc.active,
           parse |-> ver[v].parse] \in RestoreRow
      BY <2>1 DEF RestoreRow, Maybe
    <2> QED BY <1>1, <2>2 DEF BeginRestore
  <1>2. ASSUME CommitRestore(r) PROVE Typed'
    <2>1. [Unread EXCEPT !.at = "done"] \in RestoreRow
      BY DEF Unread, RestoreRow, Stage, Maybe
    <2>2. restore[r] \in RestoreRow
      OBVIOUS
    <2>3. doc' \in [status : Stage \union {"deleted"}, active : Maybe]
      BY <1>2, <2>2 DEF CommitRestore, Column, RestoreRow
    <2>4. restore' \in [Restores -> RestoreRow]
      BY <1>2, <2>1 DEF CommitRestore
    <2>5. crossed' \in BOOLEAN
      BY <1>2 DEF CommitRestore, Stale
    <2> QED BY <1>2, <2>3, <2>4, <2>5 DEF CommitRestore
  <1> QED BY <1>1, <1>2 DEF Restoring

LEMMA DocumentTyped ==
    ASSUME Typed, \/ DeleteDocument \/ DeleteTree
                  \/ \E j \in Jobs, v \in Versions : CreateJob(j, v)
    PROVE  Typed'
  <1> USE DEF Typed, rowVars, requestVars, workerVars, historyVars
  <1>1. ASSUME DeleteDocument PROVE Typed'
    <2>1. NoRow \in VersionRow /\ [status |-> "none", version |-> NoVersion] \in JobRow
      BY DEF NoRow, VersionRow, JobRow, Stage, Maybe
    <2>2. doc' \in [status : Stage \union {"deleted"}, active : Maybe]
      BY <1>1 DEF DeleteDocument, Maybe
    <2> QED BY <1>1, <2>1, <2>2 DEF DeleteDocument
  <1>2. ASSUME DeleteTree PROVE Typed'
    BY <1>2 DEF DeleteTree
  <1>3. ASSUME NEW j \in Jobs, NEW v \in Versions, CreateJob(j, v) PROVE Typed'
    <2>1. [status |-> "uploaded", version |-> v] \in JobRow
      BY DEF JobRow, Stage, Maybe
    <2>2. queue' \in Seq(Jobs) /\ faults' \in 0..MaxFaults
      <3>1. CASE queue' = Append(queue, j) /\ UNCHANGED faults
        BY <3>1
      <3>2. CASE Fault /\ UNCHANGED queue
        BY <3>2, FaultTyped
      <3> QED BY <1>3, <3>1, <3>2 DEF CreateJob
    <2> QED BY <1>3, <2>1, <2>2 DEF CreateJob
  <1> QED BY <1>1, <1>2, <1>3

LEMMA PopTyped ==
    ASSUME Typed, RowsFit, NEW w \in Workers, Pop(w)
    PROVE  Typed'
  <1> DEFINE j == Head(queue)
  <1>1. j \in Jobs /\ queue' \in Seq(Jobs)
    BY DEF Typed, Pop
  <1>2. CASE job[j].status = "none" /\ UNCHANGED <<pc, task, copy, shared>>
    BY <1>1, <1>2 DEF Typed, Pop, rowVars, requestVars
  <1>3. CASE /\ job[j].status # "none"
             /\ pc' = [pc EXCEPT ![w] = "queue"] /\ task' = [task EXCEPT ![w] = j]
             /\ copy' = [copy EXCEPT ![w] = CopyOf(job[j].version, BuiltBefore(job[j].version))]
             /\ shared' = IF \E u \in Workers : copy[u].version = job[j].version
                          THEN shared \union {job[j].version} ELSE shared
    <2>1. job[j].version \in Versions
      BY <1>1, <1>3 DEF RowsFit, Live
    <2>2. BuiltBefore(job[j].version) \in BOOLEAN
      BY <2>1 DEF BuiltBefore, Typed, VersionRow
    <2>3. CopyOf(job[j].version, BuiltBefore(job[j].version)) \in CopyRow
      BY <2>1, <2>2, CopiesAreCopies
    <2>4. copy' \in [Workers -> CopyRow]
      BY <1>3, <2>3 DEF Typed
    <2> QED BY <1>1, <1>3, <2>1, <2>4 DEF Typed, Pop, rowVars, requestVars, Labels
  <1> QED BY <1>2, <1>3 DEF Pop

LEMMA WorkTyped ==
    ASSUME Typed, RowsFit, NEW w \in Workers, WorkFits(w),
           JobStep(w) \/ FailureStep(w) \/ Crash(w)
    PROVE  Typed'
  <1>1. ASSUME Marks(w) PROVE Typed'
    <2> PICK v \in Versions, j \in Jobs, s \in Stage \ Settled, new \in CopyRow,
            label \in Labels : /\ Flushes(w, v, j, s, new) /\ Writes(w, label, new)
                               /\ pc' = [pc EXCEPT ![w] = label]
      BY <1>1, MarksFlush
    <2>1. /\ doc' \in [status : Stage \union {"deleted"}, active : Maybe]
          /\ ver' \in [Versions -> VersionRow] /\ job' \in [Jobs -> JobRow]
          /\ copy' \in [Workers -> CopyRow]
      BY FlushEffect DEF Flushes
    <2>2. /\ UNCHANGED <<queue, files, request, restore, task, faults, build, shared>>
          /\ pc' \in [Workers -> Labels] /\ crossed' \in BOOLEAN
      BY DEF Flushes, Writes, Typed, Stale, requestVars
    <2>3. nodes' \in [Versions -> Nat] /\ builds' \subseteq Build
      <3>1. CASE Persist(w)
        <4>1. copy[w] \in CopyRow /\ copy[w].version \in Versions /\ copy[w].index # 0
          BY <3>1 DEF Typed, Persist, WorkFits, Busy
        <4>2. /\ copy[w].index \in Nat
              /\ [version |-> copy[w].version, build |-> copy[w].index,
                  revision |-> copy[w].revision] \in Build
          BY <4>1 DEF CopyRow, Build
        <4> QED BY <3>1, <4>2 DEF Persist, Typed
      <3>2. CASE ~Persist(w)
        BY <1>1, <3>2 DEF Marks, MarkQueued, MarkParsing, MarkReady, MarkUnrouted, historyVars, Typed
      <3> QED BY <3>1, <3>2
    <2> QED BY <2>1, <2>2, <2>3 DEF Typed
  <1>2. ASSUME Parse(w) PROVE Typed'
    BY <1>2 DEF Parse, Typed, rowVars, requestVars, historyVars, Labels
  <1>3. ASSUME WriteIndex(w) PROVE Typed'
    <2>1. build' = build + 1 /\ build' \in Nat /\ copy[w] \in CopyRow
      BY <1>3 DEF WriteIndex, Typed
    <2>2. [copy[w] EXCEPT !.index = build + 1] \in CopyRow
      BY <2>1 DEF CopyRow
    <2>3. /\ copy' \in [Workers -> CopyRow] /\ pc' \in [Workers -> Labels]
          /\ files' \in [Versions -> [pdf : BOOLEAN, structure : {0, 1}, index : Nat]]
      BY <1>3, <2>1, <2>2 DEF WriteIndex, Typed, Labels
    <2> QED BY <1>3, <2>1, <2>3 DEF WriteIndex, Typed, rowVars, requestVars
  <1>4. ASSUME SyncText(w) PROVE Typed'
    BY <1>4 DEF SyncText, Typed, rowVars, requestVars, historyVars, Labels
  <1>5. ASSUME Finish(w) PROVE Typed'
    <2>1. job' \in [Jobs -> JobRow]
      <3>1. task[w] \in Jobs /\ job[task[w]] \in JobRow
        BY <1>5 DEF Finish, Busy, WorkFits, Typed
      <3>2. [job[task[w]] EXCEPT !.status = "index_ready"] \in JobRow
        BY <3>1 DEF JobRow, Stage
      <3> QED BY <1>5, <3>2 DEF Finish, Typed
    <2> QED BY <1>5, <2>1 DEF Finish, Typed, requestVars, historyVars, Labels
  <1>6. ASSUME Leave(w) \/ Vanish(w) \/ Crash(w) PROVE Typed'
    <2>1. Idle(w) /\ faults' \in 0..MaxFaults
      BY <1>6, FaultTyped DEF Leave, Vanish, Crash, Typed
    <2> QED BY <1>6, <2>1, IdleEffect DEF Leave, Vanish, Crash, Typed, rowVars, requestVars, historyVars
  <1>7. ASSUME RoutingFails(w) PROVE Typed'
    <2>1. /\ copy' \in [Workers -> CopyRow] /\ faults' \in 0..MaxFaults
          /\ pc' = [pc EXCEPT ![w] = "unrouted"]
      BY <1>7, RoutingEffect, FaultTyped DEF RoutingFails, Rereads
    <2> QED BY <1>7, <2>1 DEF RoutingFails, Typed, rowVars, requestVars, historyVars, Labels
  <1>8. ASSUME FailJob(w) PROVE Typed'
    <2> PICK v \in Versions, j \in Jobs : v = copy[w].version /\ j = task[w]
      BY <1>8 DEF FailJob, WorkFits
    <2>1. /\ copy' \in [Workers -> CopyRow] /\ job' \in [Jobs -> JobRow]
          /\ pc' = [pc EXCEPT ![w] = "failing"] /\ faults' \in 0..MaxFaults
      BY <1>8, FailJobEffect, FaultTyped DEF FailJob, Rereads
    <2> QED BY <1>8, <2>1 DEF FailJob, Typed, requestVars, historyVars, Labels
  <1>9. ASSUME FailVersion(w) PROVE Typed'
    <2> PICK v \in Versions : v = copy[w].version
      BY <1>9 DEF FailVersion, WorkFits, Busy
    <2>1. /\ doc' \in [status : Stage \union {"deleted"}, active : Maybe]
          /\ ver' \in [Versions -> VersionRow] /\ crossed' \in BOOLEAN /\ Idle(w)
          /\ UNCHANGED <<nodes, job, queue, files, requestVars, builds, build, shared, lost, faults>>
      BY <1>9, FailVersionEffect DEF Typed, Stale
    <2> QED BY <2>1, IdleEffect DEF Typed, requestVars
  <1> QED BY <1>1, <1>2, <1>3, <1>4, <1>5, <1>6, <1>7, <1>8, <1>9 DEF JobStep, FailureStep, Marks

LEMMA TypedStep ==
    ASSUME Typed, RowsFit, RequestsFit, \A w \in Workers : WorkFits(w), [Next]_vars
    PROVE  Typed'
  <1>1. CASE UNCHANGED vars
    BY <1>1 DEF Typed, vars, rowVars, requestVars, workerVars, historyVars
  <1> QED BY <1>1, RequestsTyped, RestoreTyped, DocumentTyped, PopTyped, WorkTyped DEF Next, Restoring
-----------------------------------------------------------------------------
(* What the other steps of a worker do to the rows. *)

LEMMA FinishEffect ==
    ASSUME Typed, NEW w \in Workers, WorkFits(w), Finish(w), NEW j \in Jobs, j = task[w]
    PROVE  /\ Exists /\ pc[w] = "finish" /\ pc' = [pc EXCEPT ![w] = "done"]
           /\ job'[j].status = "index_ready" /\ job'[j].version = job[j].version
           /\ \A i \in Jobs : i # j => job'[i] = job[i]
           /\ UNCHANGED <<doc, ver, nodes, queue, files, requestVars, task, copy, historyVars>>
  BY DEF Typed, Finish, JobRow

(* What the two steps that write an artifact do to the storage. *)
LEMMA ParseEffect ==
    ASSUME Typed, NEW w \in Workers, Parse(w), NEW v \in Versions, v = copy[w].version
    PROVE  /\ pc[w] = "parse" /\ pc' = [pc EXCEPT ![w] = "ready"]
           /\ files'[v].structure = 1 /\ files'[v].pdf = files[v].pdf
           /\ files'[v].index = files[v].index
           /\ \A x \in Versions : x # v => files'[x] = files[x]
           /\ UNCHANGED <<rowVars, queue, requestVars, task, copy, historyVars, faults>>
  <1>1. /\ files \in [Versions -> [pdf : BOOLEAN, structure : {0, 1}, index : Nat]]
        /\ files' = [files EXCEPT ![v].structure = 1]
    BY DEF Typed, Parse
  <1> QED BY <1>1 DEF Parse

LEMMA WriteIndexEffect ==
    ASSUME Typed, NEW w \in Workers, WriteIndex(w), NEW v \in Versions, v = copy[w].version
    PROVE  /\ pc[w] = "index" /\ pc' = [pc EXCEPT ![w] = "persist"]
           /\ files'[v].structure = files[v].structure /\ files'[v].pdf = files[v].pdf
           /\ files'[v].index = build + 1 /\ copy'[w].index = build + 1 /\ build + 1 # 0
           /\ \A x \in Versions : x # v => files'[x] = files[x]
           /\ copy'[w].version = v /\ copy'[w].parse = copy[w].parse
           /\ copy'[w].routing = copy[w].routing /\ copy'[w].revision = copy[w].revision
           /\ copy'[w].status = copy[w].status /\ copy'[w].active = copy[w].active
           /\ \A u \in Workers : u # w => copy'[u] = copy[u]
           /\ UNCHANGED <<rowVars, queue, requestVars, task, builds, shared, crossed, lost, faults>>
  <1>1. /\ files \in [Versions -> [pdf : BOOLEAN, structure : {0, 1}, index : Nat]]
        /\ files' = [files EXCEPT ![v].index = build + 1] /\ build \in Nat
        /\ copy \in [Workers -> CopyRow] /\ copy' = [copy EXCEPT ![w].index = build + 1]
    BY DEF Typed, WriteIndex
  <1>2. /\ files'[v].structure = files[v].structure /\ files'[v].pdf = files[v].pdf
        /\ files'[v].index = build + 1 /\ build + 1 # 0
        /\ \A x \in Versions : x # v => files'[x] = files[x]
    BY <1>1
  <1>3. /\ copy'[w].version = v /\ copy'[w].parse = copy[w].parse
        /\ copy'[w].routing = copy[w].routing /\ copy'[w].revision = copy[w].revision
        /\ copy'[w].status = copy[w].status /\ copy'[w].active = copy[w].active
        /\ copy'[w].index = build + 1
        /\ \A u \in Workers : u # w => copy'[u] = copy[u]
    BY <1>1 DEF CopyRow
  <1> QED BY <1>2, <1>3 DEF WriteIndex

(* A popped job is one that was deleted, or the worker's from now on. *)
PopsNothing(w) == UNCHANGED <<pc, task, copy, shared>>
PopsJob(w, j, v) ==
    /\ job[j].status # "none" /\ v = job[j].version /\ ver[v].row
    /\ pc' = [pc EXCEPT ![w] = "queue"] /\ task' = [task EXCEPT ![w] = j]
    /\ copy' = [copy EXCEPT ![w] = CopyOf(v, BuiltBefore(v))]
    /\ shared' = IF \E u \in Workers : copy[u].version = v THEN shared \union {v} ELSE shared

LEMMA PopEffect ==
    ASSUME Typed, RowsFit, NEW w \in Workers, Pop(w)
    PROVE  /\ pc[w] = "idle" /\ queue # <<>> /\ queue' = Tail(queue)
           /\ UNCHANGED <<rowVars, files, requestVars, builds, build, crossed, lost, faults>>
           /\ \/ PopsNothing(w)
              \/ \E j \in Jobs, v \in Versions : j = Head(queue) /\ PopsJob(w, j, v)
  <1>1. Head(queue) \in Jobs
    BY DEF Typed, Pop
  <1>2. job[Head(queue)].status # "none" =>
           job[Head(queue)].version \in Versions /\ ver[job[Head(queue)].version].row
    BY <1>1 DEF RowsFit, Live
  <1> QED BY <1>1, <1>2 DEF Pop, PopsNothing, PopsJob

-----------------------------------------------------------------------------
(* Rows belong to a document. *)

(* A step that keeps the rows and the jobs' versions, and makes a row's     *)
(* version the active one if any.                                           *)
LEMMA RowsFitKept ==
    ASSUME RowsFit, Typed, Exists' <=> Exists,
           \A x \in Versions : ver'[x].row = ver[x].row,
           Exists => doc'.active \in Live,
           \A i \in Jobs : /\ job'[i].version = job[i].version
                           /\ job'[i].status = "none" <=> job[i].status = "none"
    PROVE  RowsFit'
  <1>1. Live' = Live
    BY DEF Live
  <1> QED BY <1>1 DEF RowsFit

LEMMA RowsFitStep ==
    ASSUME Typed, RowsFit, RequestsFit, \A w \in Workers : WorkFits(w), [Next]_vars
    PROVE  RowsFit'
  <1>1. ASSUME NEW v \in Versions, Upload(v) \/ Rebuild(v) \/ StorePdf(v) \/ AbortVersion(v)
        PROVE  RowsFit'
    BY <1>1 DEF Upload, Rebuild, BeginVersion, StorePdf, AbortVersion, RowsFit, Live, Exists,
                rowVars
  <1>2. ASSUME NEW v \in Versions, CommitVersion(v) PROVE RowsFit'
    <2>1. Exists /\ request[v].status \in Stage /\ doc.status \in Stage \union {"deleted"}
      BY <1>2 DEF RequestsFit, CommitVersion, Typed, Request
    <2>2. /\ ver' = [ver EXCEPT ![v] = NewRow] /\ job' = job /\ doc'.active = v
          /\ doc'.status \in {doc.status, "uploaded"}
      BY <1>2 DEF CommitVersion, NewRow, Column
    <2>3. \A x \in Versions : ver'[x].row <=> ver[x].row \/ x = v
      BY <2>2, NoRowIsARow DEF Typed
    <2>4. Exists'
      BY <2>1, <2>2 DEF Exists
    <2> QED BY <2>1, <2>2, <2>3, <2>4 DEF RowsFit, Live
  <1>3. ASSUME NEW r \in Restores, Restoring(r) PROVE RowsFit'
    <2>1. ASSUME NEW v \in Versions, BeginRestore(r, v) PROVE RowsFit'
      BY <2>1 DEF BeginRestore, RowsFit, Live, Exists, rowVars
    <2>2. ASSUME CommitRestore(r) PROVE RowsFit'
      <3>1. /\ restore[r].version \in Live /\ Exists /\ restore[r].parse \in Stage
            /\ doc.active \in Live
        BY <2>2 DEF CommitRestore, RequestsFit, RowsFit, Typed, RestoreRow
      <3>2. /\ ver' = ver /\ job' = job /\ doc'.active \in {doc.active, restore[r].version}
            /\ doc'.status \in {doc.status, restore[r].parse}
        BY <2>2 DEF CommitRestore, Column
      <3>3. Exists'
        BY <3>1, <3>2 DEF Exists, Stage
      <3> QED BY <3>1, <3>2, <3>3, RowsFitKept
    <2> QED BY <1>3, <2>1, <2>2 DEF Restoring
  <1>4. CASE DeleteDocument
    BY <1>4, NoRowIsARow DEF DeleteDocument, RowsFit, Exists
  <1>5. CASE DeleteTree
    BY <1>5 DEF DeleteTree, RowsFit, Live, Exists, rowVars
  <1>6. ASSUME NEW j \in Jobs, NEW v \in Versions, CreateJob(j, v) PROVE RowsFit'
    <2>1. /\ ver' = ver /\ doc' = doc /\ v \in Live
          /\ job' = [job EXCEPT ![j] = [status |-> "uploaded", version |-> v]]
      BY <1>6 DEF CreateJob
    <2>2. job'[j].status = "uploaded" /\ job'[j].version = v
          /\ \A i \in Jobs : i # j => job'[i] = job[i]
      BY <2>1 DEF Typed
    <2> QED BY <2>1, <2>2 DEF RowsFit, Live, Exists
  <1>7. ASSUME NEW w \in Workers, Pop(w) PROVE RowsFit'
    BY <1>7, PopEffect DEF RowsFit, Live, Exists, rowVars
  <1>8. ASSUME NEW w \in Workers, Marks(w) PROVE RowsFit'
    <2> PICK v \in Versions, j \in Jobs, s \in Stage \ Settled, new \in CopyRow,
            label \in Labels : /\ Flushes(w, v, j, s, new) /\ Writes(w, label, new)
                               /\ pc' = [pc EXCEPT ![w] = label]
      BY <1>8, MarksFlush
    <2>1. /\ Exists /\ Busy(w) /\ job[j].version = v /\ job[j].status # "none"
      BY DEF Flushes, WorkFits
    <2>2. v \in Live /\ doc.active \in Live
      BY <2>1 DEF RowsFit
    <2>3. /\ \A x \in Versions : ver'[x].row = ver[x].row
          /\ doc'.status = Column(doc.status, copy[w].status, new.status)
          /\ doc'.active = Column(doc.active, copy[w].active, new.active)
          /\ job'[j].status = s /\ job'[j].version = job[j].version
          /\ \A i \in Jobs : i # j => job'[i] = job[i]
      BY FlushEffect DEF Flushes
    <2>4. Exists'
      BY <2>1, <2>3 DEF Exists, Column, Flushes, Stage
    <2>5. doc'.active \in Live
      BY <2>2, <2>3 DEF Column, Flushes
    <2>6. s # "none"
      BY DEF Stage
    <2> QED BY <2>1, <2>3, <2>4, <2>5, <2>6, RowsFitKept
  <1>9. ASSUME NEW w \in Workers, FailVersion(w) PROVE RowsFit'
    <2> PICK v \in Versions : v = copy[w].version
      BY <1>9 DEF WorkFits, Busy, FailVersion
    <2>1. Exists /\ doc.active \in Live
      BY <1>9, FailVersionEffect DEF RowsFit
    <2>2. /\ doc'.active = doc.active /\ doc'.status \in {doc.status, "failed"} /\ job' = job
          /\ \A x \in Versions : ver'[x].row = ver[x].row
      BY <1>9, FailVersionEffect DEF Column
    <2>3. Exists'
      BY <2>1, <2>2 DEF Exists
    <2> QED BY <2>1, <2>2, <2>3, RowsFitKept
  <1>10. ASSUME NEW w \in Workers, Finish(w) \/ FailJob(w) PROVE RowsFit'
    <2> PICK j \in Jobs : j = task[w]
      BY <1>10 DEF WorkFits, Busy, Finish, FailJob
    <2>1. job[j].status # "none" /\ Exists /\ doc.active \in Live
      BY <1>10 DEF WorkFits, RowsFit, Finish, FailJob, Busy
    <2>2. /\ doc' = doc /\ ver' = ver /\ job'[j].status # "none"
          /\ job'[j].version = job[j].version /\ \A i \in Jobs : i # j => job'[i] = job[i]
      BY <1>10, FinishEffect, FailJobEffect
    <2> QED BY <2>1, <2>2, RowsFitKept DEF Exists
  <1>11. ASSUME NEW w \in Workers, RoutingFails(w) \/ Leave(w) PROVE RowsFit'
    BY <1>11 DEF RoutingFails, Leave, RowsFit, Live, Exists, rowVars
  <1>12. ASSUME NEW w \in Workers,
                Parse(w) \/ WriteIndex(w) \/ SyncText(w) \/ Vanish(w) \/ Crash(w)
         PROVE  RowsFit'
    BY <1>12 DEF Parse, WriteIndex, SyncText, Vanish, Crash, RowsFit, Live, Exists, rowVars
  <1>13. CASE UNCHANGED vars
    BY <1>13 DEF vars, RowsFit, Live, Exists, rowVars
  <1> QED BY <1>1, <1>2, <1>3, <1>4, <1>5, <1>6, <1>7, <1>8, <1>9, <1>10, <1>11, <1>12, <1>13
      DEF Next, Restoring, JobStep, FailureStep, Marks
-----------------------------------------------------------------------------
(* Requests. *)

(* A worker touches neither the requests nor the PDFs, and writes nodes and *)
(* builds of versions that have a row only.                                 *)
LEMMA WorkKeeps ==
    ASSUME Typed, RowsFit, NEW w \in Workers, WorkFits(w),
           Pop(w) \/ JobStep(w) \/ FailureStep(w) \/ Crash(w)
    PROVE  /\ request' = request /\ restore' = restore /\ (Exists' <=> Exists)
           /\ \A x \in Versions : /\ ver'[x].row = ver[x].row
                                  /\ files'[x].pdf = files[x].pdf
                                  /\ nodes'[x] = nodes[x] \/ ver[x].row
           /\ \A b \in builds' : b \in builds \/ ver[b.version].row
  <1>1. CASE Pop(w)
    BY <1>1, PopEffect DEF rowVars, requestVars, Exists
  <1>2. CASE Marks(w)
    <2> PICK v \in Versions, j \in Jobs, s \in Stage \ Settled, new \in CopyRow,
            label \in Labels : /\ Flushes(w, v, j, s, new) /\ Writes(w, label, new)
                               /\ pc' = [pc EXCEPT ![w] = label]
      BY <1>2, MarksFlush
    <2>1. /\ Exists /\ Busy(w) /\ job[j].version = v /\ job[j].status # "none"
          /\ request' = request /\ restore' = restore /\ files' = files
      BY DEF Flushes, WorkFits, requestVars
    <2>2. ver[v].row
      BY <2>1 DEF RowsFit, Live
    <2>3. /\ \A x \in Versions : ver'[x].row = ver[x].row
          /\ doc'.status = Column(doc.status, copy[w].status, new.status)
      BY FlushEffect DEF Flushes
    <2>4. Exists'
      BY <2>1, <2>3 DEF Exists, Column, Flushes, Stage
    <2>5. /\ \A x \in Versions : nodes'[x] = nodes[x] \/ x = v
          /\ \A b \in builds' : b \in builds \/ b.version = v
      BY DEF Writes, Flushes, Typed
    <2> QED BY <2>1, <2>2, <2>3, <2>4, <2>5
  <1>3. CASE FailVersion(w)
    <2> PICK v \in Versions : v = copy[w].version
      BY <1>3 DEF WorkFits, Busy, FailVersion
    <2>1. Exists /\ doc'.status \in {doc.status, "failed"}
      BY <1>3, FailVersionEffect DEF Column
    <2> QED BY <1>3, <2>1, FailVersionEffect DEF Exists, requestVars
  <1>4. CASE Finish(w) \/ FailJob(w)
    BY <1>4 DEF Finish, FailJob, Exists, requestVars, historyVars
  <1>5. CASE RoutingFails(w) \/ Leave(w)
    BY <1>5 DEF RoutingFails, Leave, Exists, rowVars, requestVars, historyVars
  <1>6. CASE Parse(w) \/ WriteIndex(w)
    <2> PICK v \in Versions : v = copy[w].version
      BY <1>6 DEF WorkFits, Busy, Parse, WriteIndex
    <2>1. \A x \in Versions : files'[x].pdf = files[x].pdf
      BY <1>6, ParseEffect, WriteIndexEffect
    <2> QED BY <1>6, <2>1 DEF Parse, WriteIndex, rowVars, requestVars, historyVars, Exists
  <1>7. CASE SyncText(w) \/ Vanish(w) \/ Crash(w)
    BY <1>7 DEF SyncText, Vanish, Crash, rowVars, requestVars, historyVars, Exists
  <1> QED BY <1>1, <1>2, <1>3, <1>4, <1>5, <1>6, <1>7 DEF JobStep, FailureStep, Marks

LEMMA RequestsFitStep ==
    ASSUME Typed, RowsFit, RequestsFit, \A w \in Workers : WorkFits(w), RowsFit', [Next]_vars
    PROVE  RequestsFit'
  <1>1. ASSUME NEW v \in Versions, NEW source \in Maybe, BeginVersion(v, source)
        PROVE  RequestsFit'
    <2>1. request'[v].at = "read" /\ \A x \in Versions : x # v => request'[x] = request[x]
      BY <1>1 DEF BeginVersion, Typed
    <2> QED BY <1>1, <2>1 DEF BeginVersion, RequestsFit, rowVars, historyVars, Exists, Live
  <1>2. ASSUME NEW v \in Versions, Upload(v) \/ Rebuild(v) PROVE RequestsFit'
    BY <1>1, <1>2 DEF Upload, Rebuild, Live, Maybe
  <1>3. ASSUME NEW v \in Versions, StorePdf(v) PROVE RequestsFit'
    <2>1. /\ request[v] \in Request /\ request \in [Versions -> Request]
          /\ files \in [Versions -> [pdf : BOOLEAN, structure : {0, 1}, index : Nat]]
      BY DEF Typed
    <2>2. /\ request' = [request EXCEPT ![v].at = "stored"]
          /\ files' = [files EXCEPT ![v].pdf = TRUE] /\ request[v].at = "read" /\ Exists
      BY <1>3 DEF StorePdf
    <2>3. /\ request'[v].at = "stored" /\ \A x \in Versions : x # v => request'[x] = request[x]
          /\ files'[v].pdf /\ \A x \in Versions : x # v => files'[x] = files[x]
      BY <2>1, <2>2 DEF Request
    <2> QED BY <1>3, <2>2, <2>3 DEF StorePdf, RequestsFit, rowVars, historyVars, Exists, Live
  <1>4. ASSUME NEW v \in Versions, CommitVersion(v) PROVE RequestsFit'
    <2>1. /\ request'[v].at = "done" /\ \A x \in Versions : x # v => request'[x] = request[x]
      BY <1>4 DEF CommitVersion, Typed, Answered
    <2>2. /\ \A x \in Versions : x # v => ver'[x] = ver[x]
          /\ nodes' = nodes /\ builds' = builds /\ files' = files /\ restore' = restore
          /\ ver'[v].row
      BY <1>4, NoRowIsARow DEF CommitVersion, Typed, NewRow
    <2>3. Exists'
      <3>1. Exists /\ request[v].status \in Stage
        BY <1>4 DEF RequestsFit, CommitVersion, Typed, Request
      <3> QED BY <1>4, <3>1 DEF CommitVersion, Column, Exists, Stage
    <2>4. Exists /\ Live \subseteq Live'
      BY <1>4, <2>2 DEF CommitVersion, RequestsFit, Live
    <2> QED BY <2>1, <2>2, <2>3, <2>4 DEF RequestsFit
  <1>5. ASSUME NEW v \in Versions, AbortVersion(v) PROVE RequestsFit'
    <2>1. /\ request'[v].at = "done" /\ \A x \in Versions : x # v => request'[x] = request[x]
      BY <1>5 DEF AbortVersion, Typed, Answered
    <2> QED BY <1>5, <2>1 DEF AbortVersion, RequestsFit, rowVars, historyVars, Exists, Live
  <1>6. ASSUME NEW r \in Restores, Restoring(r) PROVE RequestsFit'
    <2>1. UNCHANGED <<ver, nodes, files, request, builds>> /\ Exists
      BY <1>6 DEF Restoring, BeginRestore, CommitRestore, rowVars, historyVars
    <2>2. Exists'
      <3>1. ASSUME NEW v \in Versions, BeginRestore(r, v) PROVE Exists'
        BY <2>1, <3>1 DEF BeginRestore, rowVars, Exists
      <3>2. ASSUME CommitRestore(r) PROVE Exists'
        BY <2>1, <3>2 DEF CommitRestore, Column, Typed, RestoreRow, Exists, Stage
      <3> QED BY <1>6, <3>1, <3>2 DEF Restoring
    <2>3. /\ restore'[r].at = "read" => restore'[r].version \in Live
          /\ \A q \in Restores : q # r => restore'[q] = restore[q]
      BY <1>6 DEF Restoring, BeginRestore, CommitRestore, Typed, Unread
    <2>4. Live' = Live
      BY <2>1 DEF Live
    <2> QED BY <2>1, <2>2, <2>3, <2>4 DEF RequestsFit, Live
  <1>7. CASE DeleteDocument
    BY <1>7, NoRowIsARow DEF DeleteDocument, RequestsFit, requestVars, historyVars, Exists
  <1>8. CASE DeleteTree
    BY <1>8 DEF DeleteTree, RequestsFit, Exists, Live, rowVars, requestVars, historyVars
  <1>9. ASSUME NEW j \in Jobs, NEW v \in Versions, CreateJob(j, v) PROVE RequestsFit'
    BY <1>9 DEF CreateJob, RequestsFit, Exists, Live, requestVars, historyVars
  <1>10. ASSUME NEW w \in Workers,
                Pop(w) \/ JobStep(w) \/ FailureStep(w) \/ Crash(w)
         PROVE  RequestsFit'
    BY <1>10, WorkKeeps DEF RequestsFit, Live
  <1>11. CASE UNCHANGED vars
    BY <1>11 DEF vars, RequestsFit, Exists, Live, rowVars, requestVars, historyVars
  <1> QED BY <1>2, <1>3, <1>4, <1>5, <1>6, <1>7, <1>8, <1>9, <1>10, <1>11 DEF Next, Restoring
-----------------------------------------------------------------------------
(* Jobs and the queue. *)

LEMMA JobsOnceKept ==
    ASSUME Typed, JobsOnce, queue' = queue,
           \A i \in Jobs : job'[i].status \in Settled =>
               job[i].status \in Settled \/ \E u \in Workers : task[u] = i,
           \A u \in Workers : task'[u] \in {task[u], NoJob}
    PROVE  JobsOnce'
  <1>1. \A i \in DOMAIN queue : queue[i] \in Jobs
    BY DEF Typed
  <1> QED BY <1>1, JobsAssumption DEF JobsOnce

LEMMA JobsOnceStep ==
    ASSUME Typed, RowsFit, JobsOnce, \A w \in Workers : WorkFits(w), [Next]_vars
    PROVE  JobsOnce'
  <1>1. ASSUME NEW v \in Versions, \/ Upload(v) \/ Rebuild(v) \/ StorePdf(v)
                                   \/ CommitVersion(v) \/ AbortVersion(v)
        PROVE  JobsOnce'
    <2>1. UNCHANGED <<job, queue, task>>
      BY <1>1 DEF Upload, Rebuild, BeginVersion, StorePdf, CommitVersion, AbortVersion,
                  rowVars, workerVars
    <2> QED BY <2>1, JobsOnceKept
  <1>2. CASE DeleteDocument
    <2>1. \A i \in Jobs : job'[i].status \notin Settled
      BY <1>2 DEF DeleteDocument, Settled
    <2> QED BY <1>2, <2>1, JobsOnceKept DEF DeleteDocument, workerVars
  <1>3. CASE DeleteTree
    BY <1>3, JobsOnceKept DEF DeleteTree, rowVars, workerVars
  <1>4. ASSUME NEW j \in Jobs, NEW v \in Versions, CreateJob(j, v) PROVE JobsOnce'
    <2>1. /\ task' = task /\ job'[j].status = "uploaded"
          /\ \A i \in Jobs : i # j => job'[i] = job[i]
      BY <1>4 DEF CreateJob, workerVars, Typed
    <2>2. "uploaded" \notin Settled
      BY DEF Settled
    <2>3. CASE queue' = queue
      BY <2>1, <2>2, <2>3, JobsOnceKept
    <2>4. CASE queue' = Append(queue, j)
      <3>1. /\ queue \in Seq(Jobs) /\ \A i \in DOMAIN queue : queue[i] \in Jobs /\ queue[i] # j
            /\ \A u \in Workers : task[u] # j
        BY <1>4 DEF CreateJob, Typed
      <3>2. /\ DOMAIN queue' = DOMAIN queue \union {Len(queue) + 1}
            /\ \A i \in DOMAIN queue : queue'[i] = queue[i]
            /\ queue'[Len(queue) + 1] = j
        BY <2>4, <3>1
      <3> QED BY <2>1, <2>2, <3>1, <3>2 DEF JobsOnce
    <2> QED BY <1>4, <2>3, <2>4 DEF CreateJob
  <1>5. ASSUME NEW w \in Workers, Pop(w) PROVE JobsOnce'
    <2>1. /\ queue \in Seq(Jobs) /\ queue # <<>> /\ queue' = Tail(queue) /\ job' = job
      BY <1>5, PopEffect DEF Typed, rowVars
    <2>2. /\ \A i \in DOMAIN queue' : i + 1 \in DOMAIN queue /\ queue'[i] = queue[i + 1] /\ i \in Nat /\ i # 0
          /\ Head(queue) = queue[1] /\ 1 \in DOMAIN queue
      BY <2>1
    <2>3. /\ \A i, k \in DOMAIN queue' : queue'[i] = queue'[k] => i = k
          /\ \A i \in DOMAIN queue' : /\ queue'[i] # Head(queue)
                                      /\ job'[queue'[i]].status \notin Settled
                                      /\ \A u \in Workers : task[u] # queue'[i]
      BY <2>1, <2>2 DEF JobsOnce
    <2>4. CASE task' = task
      BY <2>3, <2>4 DEF JobsOnce
    <2>5. CASE task' = [task EXCEPT ![w] = Head(queue)]
      <3>1. task'[w] = Head(queue) /\ \A u \in Workers : u # w => task'[u] = task[u]
        BY <2>5 DEF Typed
      <3>2. \A u \in Workers : task[u] # Head(queue)
        BY <2>2 DEF JobsOnce
      <3> QED BY <2>3, <3>1, <3>2 DEF JobsOnce
    <2> QED BY <1>5, <2>4, <2>5, PopEffect DEF PopsNothing, PopsJob
  <1>6. ASSUME NEW w \in Workers, Marks(w) PROVE JobsOnce'
    <2> PICK v \in Versions, j \in Jobs, s \in Stage \ Settled, new \in CopyRow,
            label \in Labels : /\ Flushes(w, v, j, s, new) /\ Writes(w, label, new)
                               /\ pc' = [pc EXCEPT ![w] = label]
      BY <1>6, MarksFlush
    <2>1. /\ job'[j].status = s /\ \A i \in Jobs : i # j => job'[i] = job[i]
          /\ queue' = queue /\ task' = task
      BY FlushEffect DEF Flushes
    <2> QED BY <2>1, JobsOnceKept
  <1>7. ASSUME NEW w \in Workers, Finish(w) \/ FailJob(w) PROVE JobsOnce'
    <2> PICK j \in Jobs : j = task[w]
      BY <1>7 DEF WorkFits, Busy, Finish, FailJob
    <2>1. /\ queue' = queue /\ task' = task /\ \A i \in Jobs : i # j => job'[i] = job[i]
      BY <1>7, FinishEffect, FailJobEffect
    <2> QED BY <2>1, JobsOnceKept
  <1>8. ASSUME NEW w \in Workers, Leave(w) \/ Vanish(w) \/ Crash(w) \/ FailVersion(w)
        PROVE  JobsOnce'
    BY <1>8, IdleEffect, JobsOnceKept DEF Leave, Vanish, Crash, FailVersion, rowVars
  <1>9. ASSUME NEW w \in Workers, Parse(w) \/ WriteIndex(w) \/ SyncText(w) \/ RoutingFails(w)
        PROVE  JobsOnce'
    BY <1>9, JobsOnceKept DEF Parse, WriteIndex, SyncText, RoutingFails, rowVars
  <1>10. CASE UNCHANGED vars
    BY <1>10, JobsOnceKept DEF vars, rowVars, workerVars
  <1>11. ASSUME NEW r \in Restores, Restoring(r) PROVE JobsOnce'
    <2>1. UNCHANGED <<job, queue, task>>
      BY <1>11 DEF Restoring, BeginRestore, CommitRestore, rowVars, workerVars
    <2> QED BY <2>1, JobsOnceKept
  <1> QED BY <1>1, <1>2, <1>3, <1>4, <1>5, <1>6, <1>7, <1>8, <1>9, <1>10, <1>11
      DEF Next, Restoring, JobStep, FailureStep, Marks
-----------------------------------------------------------------------------
(* What the requests do to the workers, the rows and the storage. *)

Requests ==
    \/ \E v \in Versions : \/ Upload(v) \/ Rebuild(v) \/ StorePdf(v) \/ CommitVersion(v)
                           \/ AbortVersion(v)
    \/ \E r \in Restores : Restoring(r)
    \/ DeleteDocument \/ DeleteTree
    \/ \E j \in Jobs, v \in Versions : CreateJob(j, v)

LEMMA RequestsKeep ==
    ASSUME Typed, RowsFit, RequestsFit, Requests
    PROVE  /\ UNCHANGED <<pc, task, copy, builds, build, shared, lost>>
           /\ crossed => crossed'
           /\ Exists' => Exists
           /\ Exists' =>
                 /\ nodes' = nodes
                 /\ \A x \in Versions :
                       /\ \/ ver'[x] = ver[x]
                          \/ /\ ver'[x].row /\ ver'[x].parse = "uploaded"
                             /\ ver'[x].routing = "uploaded" /\ ~ver[x].row /\ files[x].pdf
                             /\ request[x].at = "stored"
                       /\ files[x].pdf => files'[x].pdf
                       /\ files'[x].structure = files[x].structure
                       /\ files'[x].index = files[x].index
                 /\ \A i \in Jobs :
                       \/ job'[i] = job[i]
                       \/ /\ job[i].status = "none" /\ job'[i].status \notin Settled
                          /\ \A w \in Workers : task[w] # i
           /\ (Exists' /\ ~crossed') =>
                 \/ doc' = doc
                 \/ doc'.status = "index_ready" => ver'[doc'.active].parse = "index_ready"
  <1> USE DEF rowVars, workerVars, historyVars
  <1>1. ASSUME NEW v \in Versions, Upload(v) \/ Rebuild(v) \/ AbortVersion(v)
        PROVE  UNCHANGED <<doc, ver, nodes, job, files, pc, task, copy, builds, build,
                           shared, crossed, lost>>
    BY <1>1 DEF Upload, Rebuild, BeginVersion, AbortVersion
  <1>2. ASSUME NEW v \in Versions, StorePdf(v)
        PROVE  /\ UNCHANGED <<doc, ver, nodes, job, pc, task, copy, builds, build,
                              shared, crossed, lost>>
               /\ \A x \in Versions : /\ files[x].pdf => files'[x].pdf
                                      /\ files'[x].structure = files[x].structure
                                      /\ files'[x].index = files[x].index
    <2>1. /\ files \in [Versions -> [pdf : BOOLEAN, structure : {0, 1}, index : Nat]]
          /\ files' = [files EXCEPT ![v].pdf = TRUE]
      BY <1>2 DEF StorePdf, Typed
    <2>2. \A x \in Versions : /\ files[x].pdf => files'[x].pdf
                              /\ files'[x].structure = files[x].structure
                              /\ files'[x].index = files[x].index
      BY <2>1
    <2> QED BY <1>2, <2>2 DEF StorePdf
  <1>3. ASSUME NEW v \in Versions, CommitVersion(v)
        PROVE  /\ UNCHANGED <<nodes, job, files, pc, task, copy, builds, build, shared, lost>>
               /\ crossed => crossed'
               /\ Exists
               /\ \A x \in Versions :
                     \/ ver'[x] = ver[x]
                     \/ /\ ver'[x].row /\ ver'[x].parse = "uploaded"
                        /\ ver'[x].routing = "uploaded" /\ ~ver[x].row /\ files[x].pdf
                        /\ request[x].at = "stored"
               /\ ~crossed' => doc'.status = "uploaded"
    <2>1. /\ ver'[v] = NewRow /\ \A x \in Versions : x # v => ver'[x] = ver[x]
          /\ request[v].at = "stored"
      BY <1>3 DEF CommitVersion, Typed, NewRow
    <2>2. Exists /\ files[v].pdf /\ ~ver[v].row
      BY <2>1 DEF RequestsFit
    <2>3. ~crossed' => doc'.status = "uploaded"
      BY <1>3 DEF CommitVersion, Column
    <2> QED BY <1>3, <2>1, <2>2, <2>3, NoRowIsARow DEF CommitVersion
  <1>4. ASSUME NEW r \in Restores, Restoring(r)
        PROVE  /\ UNCHANGED <<ver, nodes, job, files, pc, task, copy, builds, build, shared, lost>>
               /\ crossed => crossed'
               /\ Exists
               /\ \/ doc' = doc
                  \/ ~crossed' => doc'.status = ver'[doc'.active].parse
    <2>1. CASE \E v \in Versions : BeginRestore(r, v)
      BY <2>1 DEF BeginRestore
    <2>2. CASE CommitRestore(r)
      <3>1. ~crossed' => doc'.status = ver'[doc'.active].parse
        BY <2>2 DEF CommitRestore, Stale, Column
      <3>2. /\ UNCHANGED <<ver, nodes, job, files, pc, task, copy, builds, build, shared, lost>>
            /\ crossed => crossed'
            /\ Exists
        BY <2>2 DEF CommitRestore
      <3> QED BY <3>1, <3>2
    <2> QED BY <1>4, <2>1, <2>2 DEF Restoring
  <1>5. CASE DeleteDocument
    BY <1>5 DEF DeleteDocument, Exists
  <1>6. CASE DeleteTree
    BY <1>6 DEF DeleteTree, Exists
  <1>7. ASSUME NEW j \in Jobs, NEW v \in Versions, CreateJob(j, v)
        PROVE  /\ UNCHANGED <<doc, ver, nodes, files, pc, task, copy, builds, build,
                              shared, crossed, lost>>
               /\ job[j].status = "none" /\ job'[j].status \notin Settled
               /\ \A i \in Jobs : i # j => job'[i] = job[i]
               /\ \A w \in Workers : task[w] # j
    BY <1>7 DEF CreateJob, Typed, Settled
  <1>8. ASSUME \/ \E v \in Versions : \/ Upload(v) \/ Rebuild(v) \/ StorePdf(v)
                                      \/ CommitVersion(v) \/ AbortVersion(v)
               \/ \E r \in Restores : Restoring(r)
        PROVE  /\ UNCHANGED <<nodes, job, pc, task, copy, builds, build, shared, lost>>
               /\ crossed => crossed'
               /\ Exists' => Exists
               /\ \A x \in Versions :
                       /\ \/ ver'[x] = ver[x]
                          \/ /\ ver'[x].row /\ ver'[x].parse = "uploaded"
                             /\ ver'[x].routing = "uploaded" /\ ~ver[x].row /\ files[x].pdf
                             /\ request[x].at = "stored"
                       /\ files[x].pdf => files'[x].pdf
                       /\ files'[x].structure = files[x].structure
                       /\ files'[x].index = files[x].index
               /\ ~crossed' =>
                     \/ doc' = doc
                     \/ doc'.status = "index_ready" => ver'[doc'.active].parse = "index_ready"
    <2>1. CASE \E v \in Versions : Upload(v) \/ Rebuild(v) \/ AbortVersion(v)
      BY <2>1, <1>1 DEF Exists
    <2>2. CASE \E v \in Versions : StorePdf(v)
      BY <2>2, <1>2 DEF Exists
    <2>3. CASE \E v \in Versions : CommitVersion(v)
      BY <2>3, <1>3
    <2>4. CASE \E r \in Restores : Restoring(r)
      BY <2>4, <1>4
    <2> QED BY <1>8, <2>1, <2>2, <2>3, <2>4
  <1>9. CASE \E j \in Jobs, v \in Versions : CreateJob(j, v)
    BY <1>7, <1>9 DEF Exists
  <1> QED BY <1>5, <1>6, <1>8, <1>9 DEF Requests
-----------------------------------------------------------------------------
(* What a worker has loaded. *)

LEMMA WorkFitsKept ==
    ASSUME NEW w \in Workers, WorkFits(w), pc'[w] = pc[w], task'[w] = task[w],
           copy'[w] = copy[w], Exists' => Exists,
           Exists' /\ Busy(w) =>
              /\ job'[task[w]] = job[task[w]]
              /\ files[copy[w].version].structure = 1 =>
                    files'[copy[w].version].structure = 1
    PROVE  WorkFits(w)'
  BY DEF WorkFits, Busy

(* A worker's step leaves the job and the copy of another worker alone. *)
LEMMA OtherWorkers ==
    ASSUME Typed, RowsFit, JobsOnce, NEW w \in Workers, WorkFits(w),
           NEW u \in Workers, u # w, WorkFits(u),
           Pop(w) \/ JobStep(w) \/ FailureStep(w) \/ Crash(w)
    PROVE  /\ pc'[u] = pc[u] /\ task'[u] = task[u] /\ copy'[u] = copy[u]
           /\ Busy(u) => job'[task[u]] = job[task[u]]
           /\ Busy(u) /\ files[copy[u].version].structure = 1 =>
                 files'[copy[u].version].structure = 1
  <1>1. Busy(u) => task[u] \in Jobs /\ task[u] # task[w] /\ copy[u].version \in Versions
    BY JobsAssumption DEF JobsOnce, WorkFits
  <1>2. CASE Pop(w)
    <2>1. PopsNothing(w) \/ \E j \in Jobs, v \in Versions : j = Head(queue) /\ PopsJob(w, j, v)
      BY <1>2, PopEffect
    <2>2. pc'[u] = pc[u] /\ task'[u] = task[u] /\ copy'[u] = copy[u]
      BY <2>1 DEF PopsNothing, PopsJob, Typed
    <2> QED BY <1>2, <2>2, PopEffect DEF rowVars
  <1>3. CASE Marks(w)
    <2> PICK v \in Versions, j \in Jobs, s \in Stage \ Settled, new \in CopyRow,
            label \in Labels : /\ Flushes(w, v, j, s, new) /\ Writes(w, label, new)
                               /\ pc' = [pc EXCEPT ![w] = label]
      BY <1>3, MarksFlush
    <2>1. /\ pc'[u] = pc[u] /\ task' = task /\ files' = files
      BY DEF Flushes, Typed
    <2>2. /\ copy'[u] = copy[u] /\ j = task[w]
          /\ \A i \in Jobs : i # j => job'[i] = job[i]
      BY FlushEffect DEF Flushes
    <2> QED BY <1>1, <2>1, <2>2
  <1>4. CASE Finish(w) \/ FailJob(w)
    <2> PICK j \in Jobs : j = task[w]
      BY <1>4 DEF WorkFits, Busy, Finish, FailJob
    <2>1. /\ files' = files /\ task' = task /\ copy'[u] = copy[u]
          /\ pc' = [pc EXCEPT ![w] = "done"] \/ pc' = [pc EXCEPT ![w] = "failing"]
          /\ \A i \in Jobs : i # j => job'[i] = job[i]
      BY <1>4, FinishEffect, FailJobEffect DEF Rereads
    <2> QED BY <1>1, <2>1 DEF Typed
  <1>5. CASE Leave(w) \/ Vanish(w) \/ Crash(w) \/ FailVersion(w)
    BY <1>5, IdleEffect DEF Leave, Vanish, Crash, FailVersion, rowVars
  <1>6. CASE RoutingFails(w)
    <2>1. /\ pc' = [pc EXCEPT ![w] = "unrouted"] /\ copy'[u] = copy[u]
          /\ UNCHANGED <<job, files, task>>
      BY <1>6, RoutingEffect DEF Rereads
    <2> QED BY <2>1 DEF Typed
  <1>7. CASE Parse(w) \/ WriteIndex(w)
    <2> PICK v \in Versions : v = copy[w].version
      BY <1>7 DEF WorkFits, Busy, Parse, WriteIndex
    <2>1. pc'[u] = pc[u] /\ task' = task /\ job' = job /\ copy'[u] = copy[u]
      <3>1. CASE Parse(w)
        <4>1. /\ pc' = [pc EXCEPT ![w] = "ready"] /\ copy' = copy
              /\ UNCHANGED <<rowVars, task>>
          BY <3>1, ParseEffect
        <4> QED BY <4>1 DEF rowVars, Typed
      <3>2. CASE WriteIndex(w)
        <4>1. /\ pc' = [pc EXCEPT ![w] = "persist"] /\ copy'[u] = copy[u]
              /\ UNCHANGED <<rowVars, task>>
          BY <3>2, WriteIndexEffect
        <4> QED BY <4>1 DEF rowVars, Typed
      <3> QED BY <1>7, <3>1, <3>2
    <2>2. \A x \in Versions : files[x].structure = 1 => files'[x].structure = 1
      BY <1>7, ParseEffect, WriteIndexEffect
    <2> QED BY <1>1, <2>1, <2>2
  <1>8. CASE SyncText(w)
    BY <1>8 DEF SyncText, rowVars, Typed
  <1> QED BY <1>2, <1>3, <1>4, <1>5, <1>6, <1>7, <1>8 DEF JobStep, FailureStep, Marks
LEMMA PopsCopy ==
    ASSUME Typed, NEW w \in Workers, NEW j \in Jobs, NEW v \in Versions, PopsJob(w, j, v)
    PROVE  /\ pc'[w] = "queue" /\ task'[w] = j
           /\ copy'[w].version = v /\ copy'[w].active = doc.active
           /\ copy'[w].status = doc.status /\ copy'[w].parse = ver[v].parse
           /\ copy'[w].routing = ver[v].routing /\ copy'[w].revision = ver[v].revision
           /\ copy'[w].bump = BuiltBefore(v)
           /\ \A u \in Workers : u # w => /\ pc'[u] = pc[u] /\ task'[u] = task[u]
                                          /\ copy'[u] = copy[u]
  <1>1. /\ pc' = [pc EXCEPT ![w] = "queue"] /\ task' = [task EXCEPT ![w] = j]
        /\ copy' = [copy EXCEPT ![w] = CopyOf(v, BuiltBefore(v))]
        /\ pc \in [Workers -> Labels] /\ task \in [Workers -> Jobs \union {NoJob}]
        /\ copy \in [Workers -> CopyRow]
    BY DEF PopsJob, Typed
  <1>2. BuiltBefore(v) \in BOOLEAN
    BY DEF BuiltBefore, Typed, VersionRow
  <1>3. copy'[w] = CopyOf(v, BuiltBefore(v))
    BY <1>1
  <1> QED BY <1>1, <1>2, <1>3, CopiesAreCopies

LEMMA WorkFitsStep ==
    ASSUME Typed, RowsFit, RequestsFit, JobsOnce, \A w \in Workers : WorkFits(w),
           NEW u \in Workers, [Next]_vars
    PROVE  WorkFits(u)'
  <1>1. CASE Requests
    <2>1. Busy(u) /\ Exists => /\ task[u] \in Jobs /\ copy[u].version \in Versions
                               /\ job[task[u]].status # "none"
      BY DEF WorkFits
    <2>2. Exists' /\ Busy(u) =>
              /\ job'[task[u]] = job[task[u]]
              /\ files[copy[u].version].structure = 1 =>
                    files'[copy[u].version].structure = 1
      BY <1>1, <2>1, RequestsKeep
    <2>3. /\ pc'[u] = pc[u] /\ task'[u] = task[u] /\ copy'[u] = copy[u] /\ Exists' => Exists
      BY <1>1, RequestsKeep
    <2> QED BY <1>1, <2>2, <2>3, RequestsKeep, WorkFitsKept
  <1>2. ASSUME NEW w \in Workers, w # u,
               Pop(w) \/ JobStep(w) \/ FailureStep(w) \/ Crash(w)
        PROVE  WorkFits(u)'
    <2>1. Exists' <=> Exists
      BY <1>2, WorkKeeps
    <2> QED BY <1>2, <2>1, OtherWorkers, WorkFitsKept
  <1>3. CASE Pop(u)
    <2>1. CASE PopsNothing(u)
      <3>1. UNCHANGED <<doc, job, files, pc, task, copy>>
        BY <1>3, <2>1, PopEffect DEF PopsNothing, rowVars
      <3> QED BY <3>1 DEF WorkFits, Busy, Exists
    <2>2. ASSUME NEW j \in Jobs, NEW v \in Versions, j = Head(queue), PopsJob(u, j, v)
          PROVE  WorkFits(u)'
      <3>1. /\ pc'[u] = "queue" /\ task'[u] = j /\ copy'[u].version = v
        BY <2>2, PopsCopy
      <3>2. job' = job /\ job[j].status # "none" /\ v = job[j].version
        BY <1>3, <2>2, PopEffect DEF PopsJob, rowVars
      <3>3. job[j].status \notin Settled
        <4>1. 1 \in DOMAIN queue /\ queue[1] = j
          BY <1>3, <2>2, PopEffect DEF Typed
        <4> QED BY <4>1 DEF JobsOnce
      <3> QED BY <3>1, <3>2, <3>3 DEF WorkFits, Busy
    <2> QED BY <1>3, <2>1, <2>2, PopEffect
  <1>4. CASE Marks(u)
    <2> PICK v \in Versions, j \in Jobs, s \in Stage \ Settled, new \in CopyRow,
            label \in Labels : /\ Flushes(u, v, j, s, new) /\ Writes(u, label, new)
                               /\ pc' = [pc EXCEPT ![u] = label]
      BY <1>4, MarksFlush
    <2>1. /\ pc'[u] = label /\ task'[u] = j /\ j = task[u] /\ copy[u].version = v
          /\ files' = files /\ Exists /\ Busy(u) /\ new.version = v
      BY DEF Flushes, Typed
    <2>2. /\ copy'[u] = new /\ job'[j].status = s /\ job'[j].version = job[j].version
      BY FlushEffect DEF Flushes
    <2>3. s \notin Settled \union {"none"} /\ job[j].version = v
      BY <2>1 DEF Stage, WorkFits
    <2>4. /\ label = "mark" => new.parse = "queued"
          /\ label = "parse" => new.parse = "parsing" /\ new.routing = "parsing"
          /\ label = "index" => new.routing = copy[u].routing /\ pc[u] = "ready"
          /\ label \in {"mark", "parse", "index", "sync", "finish"}
      BY DEF Writes
    <2> QED BY <2>1, <2>2, <2>3, <2>4 DEF WorkFits, Busy
  <1>5. CASE Leave(u) \/ FailVersion(u) \/ Vanish(u) \/ Crash(u)
    <2>1. Idle(u)
      BY <1>5 DEF Leave, FailVersion, Vanish, Crash
    <2>2. pc'[u] = "idle" /\ task'[u] = NoJob /\ copy'[u].version = NoVersion
      BY <2>1, IdleEffect
    <2> QED BY <2>2 DEF WorkFits, Busy
  <1>6. CASE RoutingFails(u)
    <2> PICK v \in Versions : v = copy[u].version
      BY <1>6 DEF WorkFits, Busy, RoutingFails
    <2>1. /\ pc' = [pc EXCEPT ![u] = "unrouted"] /\ UNCHANGED <<doc, job, task>>
          /\ copy'[u].version = v /\ Busy(u) /\ pc[u] \notin {"done", "failing"}
      BY <1>6, RoutingEffect DEF Rereads
    <2>2. pc'[u] = "unrouted"
      BY <2>1 DEF Typed
    <2> QED BY <2>1, <2>2 DEF WorkFits, Busy, Exists
  <1>11. CASE Finish(u) \/ FailJob(u)
    <2> PICK v \in Versions, j \in Jobs : v = copy[u].version /\ j = task[u]
      BY <1>11 DEF WorkFits, Busy, Finish, FailJob
    <2>1. /\ doc' = doc /\ task' = task /\ copy'[u].version = v /\ Busy(u) /\ Exists
          /\ job'[j].version = job[j].version
          /\ \/ /\ pc' = [pc EXCEPT ![u] = "done"] /\ job'[j].status = "index_ready"
             \/ /\ pc' = [pc EXCEPT ![u] = "failing"] /\ job'[j].status = "failed"
      BY <1>11, FinishEffect, FailJobEffect DEF Rereads, Busy
    <2>2. \/ pc'[u] = "done" /\ job'[j].status = "index_ready"
          \/ pc'[u] = "failing" /\ job'[j].status = "failed"
      BY <2>1 DEF Typed
    <2>3. job[j].version = v
      BY <2>1 DEF WorkFits
    <2> QED BY <2>1, <2>2, <2>3 DEF WorkFits, Busy
  <1>7. CASE Parse(u)
    <2> PICK v \in Versions : v = copy[u].version
      BY <1>7 DEF WorkFits, Busy, Parse
    <2>1. /\ pc' = [pc EXCEPT ![u] = "ready"] /\ pc[u] = "parse" /\ files'[v].structure = 1
          /\ UNCHANGED <<doc, job, task, copy>>
      BY <1>7, ParseEffect DEF rowVars
    <2>2. pc'[u] = "ready"
      BY <2>1 DEF Typed
    <2> QED BY <2>1, <2>2 DEF WorkFits, Busy, Exists
  <1>8. CASE WriteIndex(u)
    <2> PICK v \in Versions : v = copy[u].version
      BY <1>8 DEF WorkFits, Busy, WriteIndex
    <2>1. /\ pc' = [pc EXCEPT ![u] = "persist"] /\ pc[u] = "index"
          /\ copy'[u].version = v /\ copy'[u].routing = copy[u].routing
          /\ copy'[u].index = build + 1 /\ build + 1 # 0
          /\ UNCHANGED <<doc, job, task>>
      BY <1>8, WriteIndexEffect DEF rowVars
    <2>2. pc'[u] = "persist"
      BY <2>1 DEF Typed
    <2> QED BY <2>1, <2>2 DEF WorkFits, Busy, Exists
  <1>9. CASE SyncText(u)
    <2>1. pc'[u] = "finish" /\ pc[u] = "sync" /\ UNCHANGED <<doc, job, task, copy>>
      BY <1>9 DEF SyncText, Typed, rowVars
    <2> QED BY <2>1 DEF WorkFits, Busy, Exists
  <1>10. CASE UNCHANGED vars
    BY <1>10 DEF vars, rowVars, workerVars, WorkFits, Busy, Exists
  <1> QED BY <1>1, <1>2, <1>3, <1>4, <1>5, <1>6, <1>7, <1>8, <1>9, <1>10, <1>11
      DEF Next, Requests, Restoring, JobStep, FailureStep, Marks
-----------------------------------------------------------------------------
(* Artifacts. *)

(* Which version a step of a worker may announce as searchable. *)
LEMMA ArtifactsStep ==
    ASSUME Typed, RowsFit, RequestsFit, JobsOnce, \A w \in Workers : WorkFits(w),
           ArtifactsStored, RowsFit', [Next]_vars
    PROVE  ArtifactsStored'
  <1> SUFFICES ASSUME Exists' PROVE ArtifactsStored'
    BY DEF RowsFit, ArtifactsStored, Live
  <1>1. CASE Requests
    <2>1. \A x \in Versions :
             /\ \/ ver'[x] = ver[x]
                \/ /\ ver'[x].row /\ ver'[x].parse = "uploaded" /\ files[x].pdf
             /\ files[x].pdf => files'[x].pdf
             /\ files'[x].structure = files[x].structure
      BY <1>1, RequestsKeep
    <2> QED BY <2>1 DEF ArtifactsStored, Live
  <1>2. ASSUME NEW w \in Workers, Marks(w) PROVE ArtifactsStored'
    <2> PICK v \in Versions, j \in Jobs, s \in Stage \ Settled, new \in CopyRow,
            label \in Labels : /\ Flushes(w, v, j, s, new) /\ Writes(w, label, new)
                               /\ pc' = [pc EXCEPT ![w] = label]
      BY <1>2, MarksFlush
    <2>1. /\ \A x \in Versions : /\ ver'[x].row = ver[x].row
                                 /\ x # v => ver'[x] = ver[x]
          /\ ver'[v].parse = Column(ver[v].parse, copy[w].parse, new.parse)
      BY FlushEffect DEF Flushes
    <2>2. files' = files /\ v = copy[w].version /\ Exists
      BY DEF Flushes
    <2>3. \/ new.parse # "index_ready" \/ files[v].structure = 1 \/ new.parse = copy[w].parse
      BY <2>2 DEF Writes, WorkFits
    <2>4. ver'[v].parse = "index_ready" => ver[v].parse = "index_ready" \/ files[v].structure = 1
      BY <2>1, <2>3 DEF Column
    <2> QED BY <2>1, <2>2, <2>4 DEF ArtifactsStored, Live
  <1>3. ASSUME NEW w \in Workers, FailVersion(w) PROVE ArtifactsStored'
    <2> PICK v \in Versions : v = copy[w].version
      BY <1>3 DEF WorkFits, Busy, FailVersion
    <2>1. /\ \A x \in Versions : /\ ver'[x].row = ver[x].row
                                 /\ x # v => ver'[x] = ver[x]
          /\ ver'[v].parse \in {ver[v].parse, "failed"} /\ files' = files
      BY <1>3, FailVersionEffect DEF Column
    <2> QED BY <2>1 DEF ArtifactsStored, Live
  <1>5. ASSUME NEW w \in Workers, Parse(w) \/ WriteIndex(w) PROVE ArtifactsStored'
    <2> PICK v \in Versions : v = copy[w].version
      BY <1>5 DEF WorkFits, Busy, Parse, WriteIndex
    <2>1. /\ ver' = ver
          /\ \A x \in Versions : /\ files'[x].pdf = files[x].pdf
                                 /\ files[x].structure = 1 => files'[x].structure = 1
      BY <1>5, ParseEffect, WriteIndexEffect DEF rowVars
    <2> QED BY <2>1 DEF ArtifactsStored, Live
  <1>6. ASSUME NEW w \in Workers,
               \/ Pop(w) \/ SyncText(w) \/ Finish(w) \/ Leave(w) \/ Vanish(w)
               \/ Crash(w) \/ RoutingFails(w) \/ FailJob(w)
        PROVE  ArtifactsStored'
    <2>1. UNCHANGED <<ver, files>>
      BY <1>6 DEF Pop, SyncText, Finish, Leave, Vanish, Crash, RoutingFails, FailJob, rowVars
    <2> QED BY <2>1 DEF ArtifactsStored, Live
  <1>7. CASE UNCHANGED vars
    BY <1>7 DEF vars, rowVars, ArtifactsStored, Live
  <1> QED BY <1>1, <1>2, <1>3, <1>5, <1>6, <1>7
      DEF Next, Requests, Restoring, JobStep, FailureStep, Marks
-----------------------------------------------------------------------------
(* Nothing is left behind. *)

LEMMA NotLeft == Awaited => NotLeftBehind
  BY DEF Awaited, NotLeftBehind, Waiting, Waits, Pending, Failing, Lost

(* A step of another worker, or of a worker on another job. *)
LEMMA JobElsewhere ==
    ASSUME Typed, RowsFit, NEW w \in Workers, WorkFits(w), NEW j \in Jobs, task[w] # j,
           Pop(w) \/ JobStep(w) \/ FailureStep(w) \/ Crash(w)
    PROVE  job'[j] = job[j] /\ (task'[w] # j \/ pc'[w] = "queue") /\ lost \subseteq lost'
  <1>1. CASE Pop(w)
    <2>1. job' = job /\ lost' = lost
      BY <1>1, PopEffect DEF rowVars
    <2>2. CASE PopsNothing(w)
      BY <2>1, <2>2 DEF PopsNothing
    <2>3. ASSUME NEW i \in Jobs, NEW v \in Versions, PopsJob(w, i, v)
          PROVE  pc'[w] = "queue"
      BY <2>3, PopsCopy
    <2> QED BY <1>1, <2>1, <2>2, <2>3, PopEffect
  <1>2. CASE Marks(w)
    <2> PICK v \in Versions, i \in Jobs, s \in Stage \ Settled, new \in CopyRow,
            label \in Labels : /\ Flushes(w, v, i, s, new) /\ Writes(w, label, new)
                               /\ pc' = [pc EXCEPT ![w] = label]
      BY <1>2, MarksFlush
    <2>1. i = task[w] /\ task' = task /\ lost' = lost /\ \A k \in Jobs : k # i => job'[k] = job[k]
      BY FlushEffect DEF Flushes
    <2> QED BY <2>1
  <1>3. CASE Finish(w) \/ FailJob(w)
    <2> PICK i \in Jobs : i = task[w]
      BY <1>3 DEF WorkFits, Busy, Finish, FailJob
    <2>1. task' = task /\ lost' = lost /\ \A k \in Jobs : k # i => job'[k] = job[k]
      BY <1>3, FinishEffect, FailJobEffect DEF historyVars
    <2> QED BY <2>1
  <1>4. CASE Leave(w) \/ Vanish(w) \/ Crash(w) \/ FailVersion(w)
    BY <1>4, IdleEffect, JobsAssumption DEF Leave, Vanish, Crash, FailVersion, rowVars, historyVars
  <1>5. CASE Parse(w) \/ WriteIndex(w) \/ SyncText(w) \/ RoutingFails(w)
    BY <1>5 DEF Parse, WriteIndex, SyncText, RoutingFails, rowVars, historyVars
  <1> QED BY <1>1, <1>2, <1>3, <1>4, <1>5 DEF JobStep, FailureStep, Marks

(* A version that waits for a job other than the worker's goes on waiting. *)
LEMMA WaitsElsewhere ==
    ASSUME Typed, RowsFit, JobsOnce, \A u \in Workers : WorkFits(u), NEW w \in Workers,
           NEW v \in Versions, NEW j \in Jobs, Waits(v, j), task[w] # j,
           Pop(w) \/ JobStep(w) \/ FailureStep(w) \/ Crash(w)
    PROVE  Waits(v, j)'
  <1>1. /\ job'[j] = job[j] /\ (task'[w] # j \/ pc'[w] = "queue") /\ lost \subseteq lost'
    BY JobElsewhere
  <1>2. \A u \in Workers : u # w => /\ pc'[u] = pc[u] /\ task'[u] = task[u]
                                   /\ copy'[u] = copy[u]
    BY OtherWorkers
  <1>3. Pending(j) => Pending(j)'
    BY <1>1, <1>2 DEF Pending, Early
  <1>4. Failing(j) => Failing(j)'
    BY <1>2 DEF Failing
  <1>5. Lost(j) => Lost(j)'
    BY <1>1 DEF Lost
  <1> QED BY <1>1, <1>3, <1>4, <1>5 DEF Waits

(* A worker's own job: what the version waits for depends on how far it is. *)
LEMMA OwnWait ==
    ASSUME JobsOnce, NEW w \in Workers, WorkFits(w), Exists, NEW v \in Versions, NEW j \in Jobs,
           task[w] = j, Waits(v, j)
    PROVE  /\ Busy(w) /\ copy[w].version = v
           /\ \/ pc[w] \in Early /\ job[j].status \notin Settled
              \/ pc[w] = "failing" /\ copy[w].parse \in Waiting
              \/ pc[w] \in {"done", "failing"} /\ Lost(j)
  <1>1. Busy(w) /\ job[j].version = copy[w].version
    BY JobsAssumption DEF WorkFits, Busy
  <1>2. \A u \in Workers : task[u] = j => u = w
    BY JobsAssumption DEF JobsOnce
  <1>3. Lost(j) => pc[w] \in {"done", "failing"}
    BY <1>1 DEF Lost, WorkFits, Settled
  <1> QED BY <1>1, <1>2, <1>3 DEF Waits, Pending, Failing

LEMMA AwaitedStep ==
    ASSUME Typed, RowsFit, RequestsFit, JobsOnce, \A w \in Workers : WorkFits(w),
           Awaited, RowsFit', [Next]_vars
    PROVE  Awaited'
  <1> SUFFICES ASSUME NEW v \in Versions, ver'[v].row, ver'[v].parse \in Waiting
               PROVE  \E j \in Jobs : Waits(v, j)'
    BY DEF Awaited, Live
  <1>1. Exists'
    BY DEF RowsFit
  <1>2. ver[v].row /\ ver[v].parse \in Waiting => \E j \in Jobs : Waits(v, j)
    BY DEF Awaited, Live
  <1>3. CASE Requests
    <2>1. ver'[v] = ver[v]
      BY <1>1, <1>3, RequestsKeep DEF Waiting
    <2> PICK j \in Jobs : Waits(v, j)
      BY <1>2, <2>1
    <2>2. job[j].status # "none"
      BY VersionsAssumption DEF Waits, RowsFit
    <2>3. job'[j] = job[j] /\ UNCHANGED <<task, pc, copy, lost>>
      BY <1>1, <1>3, <2>2, RequestsKeep
    <2> QED BY <2>3 DEF Waits, Pending, Failing, Lost
  <1>4. ASSUME NEW w \in Workers, Marks(w) PROVE \E j \in Jobs : Waits(v, j)'
    <2> PICK x \in Versions, i \in Jobs, s \in Stage \ Settled, new \in CopyRow,
            label \in Labels : /\ Flushes(w, x, i, s, new) /\ Writes(w, label, new)
                               /\ pc' = [pc EXCEPT ![w] = label]
      BY <1>4, MarksFlush
    <2>1. /\ \A y \in Versions : /\ ver'[y].row = ver[y].row
                                 /\ y # x => ver'[y] = ver[y]
          /\ ver'[x].parse = Column(ver[x].parse, copy[w].parse, new.parse)
          /\ job'[i].status = s /\ job'[i].version = job[i].version
      BY FlushEffect DEF Flushes
    <2>2. /\ x = copy[w].version /\ i = task[w] /\ task' = task /\ pc'[w] = label
          /\ \A u \in Workers : u # w => pc'[u] = pc[u]
          /\ job[i].version = x /\ Exists
      BY DEF Flushes, Typed, WorkFits
    <2>3. CASE v = x /\ label \in {"mark", "parse"}
      <3>1. \A u \in Workers : task[u] = i => u = w
        BY <2>2, JobsAssumption DEF JobsOnce
      <3>2. Pending(i)'
        BY <2>1, <2>2, <2>3, <3>1 DEF Pending, Early
      <3> QED BY <2>1, <2>2, <2>3, <3>2 DEF Waits
    <2>4. CASE v = x /\ label = "index"
      <3>1. copy[w].parse = "parsing" /\ new.parse = "index_ready"
        BY <2>4 DEF Writes, WorkFits
      <3> QED BY <2>1, <2>4, <3>1 DEF Column, Waiting
    <2>5. CASE v # x \/ label \in {"sync", "finish"}
      <3>1. ver[v].row /\ ver[v].parse \in Waiting
        BY <2>1, <2>5 DEF Writes, Column
      <3> PICK j \in Jobs : Waits(v, j)
        BY <1>2, <3>1
      <3>2. task[w] # j
        <4>1. CASE v # x
          BY <2>2, <4>1 DEF Waits
        <4>2. CASE label \in {"sync", "finish"}
          <5>1. pc[w] \in {"persist", "unrouted"}
            BY <4>2 DEF Writes
          <5> QED BY <2>2, <5>1, OwnWait DEF Early
        <4> QED BY <2>5, <4>1, <4>2
      <3> QED BY <1>4, <3>2, WaitsElsewhere DEF Marks, JobStep, FailureStep
    <2>6. label \in {"mark", "parse", "index", "sync", "finish"}
      BY DEF Writes
    <2> QED BY <2>3, <2>4, <2>5, <2>6
  <1>5. ASSUME NEW w \in Workers, FailVersion(w) PROVE \E j \in Jobs : Waits(v, j)'
    <2> PICK x \in Versions : x = copy[w].version
      BY <1>5 DEF WorkFits, Busy, FailVersion
    <2>1. /\ \A y \in Versions : /\ ver'[y].row = ver[y].row
                                 /\ y # x => ver'[y] = ver[y]
          /\ ver'[x].parse = Column(ver[x].parse, copy[w].parse, "failed")
          /\ job' = job /\ lost' = lost /\ Exists /\ pc[w] = "failing"
      BY <1>5, FailVersionEffect
    <2>2. /\ ver[v].row /\ ver[v].parse \in Waiting
          /\ v = x => copy[w].parse \notin Waiting
      BY <2>1 DEF Column, Waiting
    <2> PICK j \in Jobs : Waits(v, j)
      BY <1>2, <2>2
    <2>3. CASE task[w] # j
      BY <1>5, <2>3, WaitsElsewhere DEF FailureStep
    <2>4. CASE task[w] = j
      <3>1. Lost(j)
        BY <2>1, <2>2, <2>4, OwnWait DEF Early
      <3> QED BY <2>1, <3>1 DEF Waits, Lost
    <2> QED BY <2>3, <2>4
  <1>6. ASSUME NEW w \in Workers, FailJob(w) PROVE \E j \in Jobs : Waits(v, j)'
    <2> PICK i \in Jobs : i = task[w]
      BY <1>6 DEF WorkFits, FailJob
    <2>1. /\ ver' = ver /\ Exists /\ Rereads(w) /\ pc' = [pc EXCEPT ![w] = "failing"]
          /\ task' = task /\ job'[i].version = job[i].version
      BY <1>6, FailJobEffect
    <2> PICK j \in Jobs : Waits(v, j)
      BY <1>2, <2>1
    <2>2. CASE task[w] # j
      BY <1>6, <2>2, WaitsElsewhere DEF FailureStep
    <2>3. CASE task[w] = j
      <3>1. copy[w].version = v /\ job[j].version = v
        BY <2>1, <2>3, OwnWait DEF Waits
      <3>2. copy'[w].parse \in Waiting /\ pc'[w] = "failing" /\ task'[w] = j
        BY <2>1, <2>3, <3>1 DEF Rereads, Typed
      <3> QED BY <2>1, <2>3, <3>1, <3>2 DEF Waits, Failing
    <2> QED BY <2>2, <2>3
  <1>7. ASSUME NEW w \in Workers,
               \/ Pop(w) \/ Parse(w) \/ WriteIndex(w) \/ SyncText(w) \/ RoutingFails(w)
               \/ Finish(w) \/ Leave(w) \/ Crash(w) \/ Vanish(w)
        PROVE  \E j \in Jobs : Waits(v, j)'
    <2>1. ver' = ver
      BY <1>7 DEF Pop, Parse, WriteIndex, SyncText, RoutingFails, Finish, Leave, Crash, Vanish,
                  rowVars
    <2> PICK j \in Jobs : Waits(v, j)
      BY <1>2, <2>1
    <2>2. CASE task[w] # j
      BY <1>7, <2>2, WaitsElsewhere DEF JobStep, FailureStep
    <2>3. CASE task[w] = j
      <3>1. Exists
        BY <1>1, <1>7, WorkKeeps DEF JobStep, FailureStep
      <3>2. /\ Busy(w) /\ job[j].version = v
            /\ \/ pc[w] \in Early /\ job[j].status \notin Settled
               \/ pc[w] = "failing"
               \/ pc[w] = "done" /\ Lost(j)
        BY <2>3, <3>1, OwnWait DEF Waits
      <3>3. Parse(w) \/ Crash(w) \/ (Leave(w) /\ Lost(j))
        BY <1>7, <3>1, <3>2 DEF Pop, WriteIndex, SyncText, RoutingFails, Finish, Leave, Vanish,
                                Early, Busy
      <3>4. CASE Parse(w)
        <4>1. /\ pc[w] = "parse" /\ pc' = [pc EXCEPT ![w] = "ready"]
              /\ UNCHANGED <<task, job>>
          BY <3>4 DEF Parse, rowVars
        <4>2. Pending(j)
          BY <2>3, <3>2, <4>1, JobsAssumption DEF Pending, JobsOnce
        <4> QED BY <3>2, <4>1, <4>2 DEF Waits, Pending, Typed, Early
      <3>5. CASE Crash(w)
        <4>1. job' = job /\ Idle(w) /\ j \in lost'
          BY <2>3, <3>5 DEF Crash, rowVars
        <4>2. job[j].status \notin Settled => Pending(j)'
          <5>1. \A u \in Workers : task'[u] # j
            BY <2>3, <4>1, IdleEffect, JobsAssumption DEF JobsOnce
          <5> QED BY <4>1, <5>1 DEF Pending
        <4>3. pc[w] = "failing" => Lost(j)'
          BY <2>3, <3>1, <4>1 DEF WorkFits, Lost
        <4> QED BY <3>2, <4>1, <4>2, <4>3 DEF Waits, Lost
      <3>6. CASE Leave(w) /\ Lost(j)
        BY <3>2, <3>6 DEF Leave, Waits, Lost, rowVars, historyVars
      <3> QED BY <3>3, <3>4, <3>5, <3>6
    <2> QED BY <2>2, <2>3
  <1>8. CASE UNCHANGED vars
    <2>1. UNCHANGED <<ver, job, task, pc, copy, lost>>
      BY <1>8 DEF vars, rowVars, workerVars, historyVars
    <2> PICK j \in Jobs : Waits(v, j)
      BY <1>2, <2>1
    <2> QED BY <2>1 DEF Waits, Pending, Failing, Lost
  <1> QED BY <1>3, <1>4, <1>5, <1>6, <1>7, <1>8
      DEF Next, Requests, Restoring, JobStep, FailureStep, Marks
-----------------------------------------------------------------------------
(* The status of the document. *)

LEMMA StatusStep ==
    ASSUME Typed, RowsFit, RequestsFit, JobsOnce, \A w \in Workers : WorkFits(w),
           StatusOfActive, [Next]_vars
    PROVE  StatusOfActive'
  <1>0. doc.status = "index_ready" => doc.active \in Versions /\ ver[doc.active].row
    BY DEF RowsFit, Exists, Live
  <1>1. CASE Requests
    <2> SUFFICES ASSUME ~crossed', doc'.status = "index_ready"
                 PROVE  ver'[doc'.active].parse = "index_ready"
      BY DEF StatusOfActive
    <2>1. ~crossed /\ Exists'
      BY <1>1, RequestsKeep DEF Exists
    <2>2. CASE doc' = doc
      <3>1. ver'[doc.active] = ver[doc.active]
        BY <1>0, <1>1, <2>1, <2>2, RequestsKeep
      <3> QED BY <2>1, <2>2, <3>1 DEF StatusOfActive
    <2>3. CASE doc'.status = "index_ready" => ver'[doc'.active].parse = "index_ready"
      BY <2>3
    <2> QED BY <1>1, <2>1, <2>2, <2>3, RequestsKeep
  <1>2. ASSUME NEW w \in Workers, Marks(w) PROVE StatusOfActive'
    <2> PICK v \in Versions, j \in Jobs, s \in Stage \ Settled, new \in CopyRow,
            label \in Labels : /\ Flushes(w, v, j, s, new) /\ Writes(w, label, new)
                               /\ pc' = [pc EXCEPT ![w] = label]
      BY <1>2, MarksFlush
    <2>1. /\ \A x \in Versions : x # v => ver'[x] = ver[x]
          /\ ver'[v].parse = Column(ver[v].parse, copy[w].parse, new.parse)
          /\ doc'.status = Column(doc.status, copy[w].status, new.status)
          /\ doc'.active = Column(doc.active, copy[w].active, new.active)
          /\ v = copy[w].version
      BY FlushEffect DEF Flushes
    <2> SUFFICES ASSUME ~crossed', doc'.status = "index_ready"
                 PROVE  ver'[doc'.active].parse = "index_ready"
      BY DEF StatusOfActive
    <2>2. CASE label = "index"
      <3>1. ~Stale(copy[w]) /\ new.parse = "index_ready" /\ new.active = v
        BY <2>1, <2>2 DEF Writes
      <3> QED BY <2>1, <3>1 DEF Stale, Column
    <2>3. CASE label \in {"sync", "finish"}
      <3>1. /\ new.parse = copy[w].parse /\ new.status = copy[w].status
            /\ new.active = copy[w].active /\ ~crossed
        BY <2>3 DEF Writes
      <3>2. /\ ver'[v].parse = ver[v].parse /\ doc'.status = doc.status
            /\ doc'.active = doc.active
        BY <2>1, <3>1 DEF Column
      <3>3. ver'[doc.active].parse = ver[doc.active].parse
        BY <1>0, <2>1, <3>2
      <3> QED BY <3>1, <3>2, <3>3 DEF StatusOfActive
    <2>4. CASE label \in {"mark", "parse"}
      <3>1. ~Stale(copy[w]) /\ new.status # "index_ready"
        BY <2>4 DEF Writes
      <3> QED BY <2>1, <3>1 DEF Stale, Column
    <2> QED BY <2>2, <2>3, <2>4 DEF Writes
  <1>3. ASSUME NEW w \in Workers, FailVersion(w) PROVE StatusOfActive'
    <2> PICK v \in Versions : v = copy[w].version
      BY <1>3 DEF WorkFits, Busy, FailVersion
    <2>1. /\ doc'.status = Column(doc.status, copy[w].status, "failed")
          /\ crossed' = (crossed \/ Stale(copy[w]))
      BY <1>3, FailVersionEffect
    <2>2. ~crossed' => doc'.status = "failed"
      BY <2>1 DEF Stale, Column
    <2> QED BY <2>2 DEF StatusOfActive
  <1>4. ASSUME NEW w \in Workers,
               \/ Pop(w) \/ Parse(w) \/ WriteIndex(w) \/ SyncText(w) \/ RoutingFails(w)
               \/ FailJob(w) \/ Finish(w) \/ Leave(w) \/ Crash(w) \/ Vanish(w)
        PROVE  StatusOfActive'
    <2>1. UNCHANGED <<doc, ver, crossed>>
      BY <1>4 DEF Pop, Parse, WriteIndex, SyncText, RoutingFails, FailJob, Finish, Leave, Crash,
                  Vanish, rowVars, historyVars
    <2> QED BY <2>1 DEF StatusOfActive
  <1>5. CASE UNCHANGED vars
    BY <1>5 DEF vars, rowVars, historyVars, StatusOfActive
  <1> QED BY <1>1, <1>2, <1>3, <1>4, <1>5
      DEF Next, Requests, Restoring, JobStep, FailureStep, Marks
-----------------------------------------------------------------------------
(* The routing index of a version: its rows are those of the stored index,  *)
(* and every build of it is older than the revision its row counts.         *)

BuildsOf(x)  == \A b \in builds : b.version = x => b.revision <= ver[x].revision /\ nodes[x] # 0
RowsOf(x)    == (ver[x].row /\ ver[x].routing = "index_ready") => nodes[x] = files[x].index
Distinct(x)  == \A a, b \in builds :
                   (a.version = x /\ b.version = x /\ a.build # b.build)
                      => a.revision # b.revision
RoutingOf(x) == (Exists => BuildsOf(x) /\ RowsOf(x)) /\ Distinct(x)

LEMMA RoutingParts ==
    ASSUME BuildsFit, RoutingRebuilt, NEW x \in Versions \ shared
    PROVE  RoutingOf(x)
  <1>1. Exists => BuildsOf(x)
    BY DEF BuildsFit, BuildsOf
  <1>2. RowsOf(x)
    BY DEF RoutingRebuilt, RowsOf, Live
  <1>3. Distinct(x)
    BY DEF RoutingRebuilt, Distinct
  <1> QED BY <1>1, <1>2, <1>3 DEF RoutingOf

LEMMA RoutingPartsNext ==
    ASSUME Typed', RowsFit', \A x \in Versions \ shared' : RoutingOf(x)'
    PROVE  BuildsFit' /\ RoutingRebuilt'
  <1>1. \A b \in builds' : b.version \in Versions
    BY DEF Typed, Build
  <1>2. BuildsFit'
    BY <1>1 DEF BuildsFit, RoutingOf, BuildsOf
  <1>3. \A x \in Live' \ shared' : ver'[x].routing = "index_ready" => nodes'[x] = files'[x].index
    BY DEF RoutingOf, RowsOf, Live, RowsFit
  <1>4. \A a, b \in builds' :
           (a.version = b.version /\ a.version \notin shared' /\ a.build # b.build)
              => a.revision # b.revision
    BY <1>1 DEF RoutingOf, Distinct
  <1> QED BY <1>2, <1>3, <1>4 DEF RoutingRebuilt

LEMMA RoutingOfKept ==
    ASSUME NEW x, RoutingOf(x), Exists' => Exists,
           Exists' => /\ ver'[x] = ver[x] /\ nodes'[x] = nodes[x]
                      /\ files'[x].index = files[x].index,
           \A b \in builds' : b.version = x => b \in builds
    PROVE  RoutingOf(x)'
  <1>1. Distinct(x)'
    BY DEF RoutingOf, Distinct
  <1>2. Exists' => BuildsOf(x)' /\ RowsOf(x)'
    BY DEF RoutingOf, BuildsOf, RowsOf
  <1> QED BY <1>1, <1>2 DEF RoutingOf

LEMMA KnownKept ==
    ASSUME NEW w \in Workers, KnownRouting(w), pc'[w] = pc[w], copy'[w] = copy[w],
           shared \subseteq shared', Exists' => Exists,
           (Exists' /\ copy[w].version \in Versions \ shared') =>
                /\ ver'[copy[w].version] = ver[copy[w].version]
                /\ files'[copy[w].version].index = files[copy[w].version].index
                /\ \A b \in builds' : b.version = copy[w].version => b \in builds
    PROVE  KnownRouting(w)'
  BY DEF KnownRouting

(* A step of a worker leaves every version but its own alone. *)
LEMMA VersionElsewhere ==
    ASSUME Typed, RowsFit, NEW w \in Workers, WorkFits(w), NEW x \in Versions,
           x # copy[w].version,
           Pop(w) \/ JobStep(w) \/ FailureStep(w) \/ Crash(w)
    PROVE  /\ ver'[x] = ver[x] /\ nodes'[x] = nodes[x] /\ files'[x] = files[x]
           /\ \A b \in builds' : b.version = x => b \in builds
  <1>1. CASE Pop(w)
    BY <1>1, PopEffect DEF rowVars
  <1>2. CASE Marks(w)
    <2> PICK v \in Versions, j \in Jobs, s \in Stage \ Settled, new \in CopyRow,
            label \in Labels : /\ Flushes(w, v, j, s, new) /\ Writes(w, label, new)
                               /\ pc' = [pc EXCEPT ![w] = label]
      BY <1>2, MarksFlush
    <2>1. \A y \in Versions : y # v => ver'[y] = ver[y]
      BY FlushEffect DEF Flushes
    <2>2. v = copy[w].version /\ files' = files
      BY DEF Flushes
    <2>3. /\ nodes'[x] = nodes[x]
          /\ \A b \in builds' : b.version = x => b \in builds
      BY DEF Writes, Typed
    <2> QED BY <2>1, <2>2, <2>3
  <1>3. CASE FailVersion(w)
    <2> PICK v \in Versions : v = copy[w].version
      BY <1>3 DEF WorkFits, Busy, FailVersion
    <2> QED BY <1>3, FailVersionEffect
  <1>5. CASE Parse(w) \/ WriteIndex(w)
    <2> PICK v \in Versions : v = copy[w].version
      BY <1>5 DEF WorkFits, Busy, Parse, WriteIndex
    <2>1. files'[x] = files[x]
      BY <1>5, ParseEffect, WriteIndexEffect
    <2> QED BY <1>5, <2>1 DEF Parse, WriteIndex, rowVars, historyVars
  <1>6. CASE \/ SyncText(w) \/ Finish(w) \/ Leave(w) \/ Vanish(w) \/ Crash(w)
             \/ RoutingFails(w) \/ FailJob(w)
    BY <1>6 DEF SyncText, Finish, Leave, Vanish, Crash, RoutingFails, FailJob, rowVars, historyVars
  <1> QED BY <1>1, <1>2, <1>3, <1>5, <1>6 DEF JobStep, FailureStep, Marks
(* A job that flushes, on a version that no other job has met. *)
LEMMA MarksRouting ==
    ASSUME Typed, RowsFit, NEW w \in Workers, WorkFits(w), Marks(w),
           NEW v \in Versions \ shared, v = copy[w].version, KnownRouting(w), RoutingOf(v)
    PROVE  RoutingOf(v)' /\ KnownRouting(w)'
  <1> PICK x \in Versions, j \in Jobs, s \in Stage \ Settled, new \in CopyRow,
          label \in Labels : /\ Flushes(w, x, j, s, new) /\ Writes(w, label, new)
                             /\ pc' = [pc EXCEPT ![w] = label]
    BY MarksFlush
  <1>1. /\ Exists /\ x = v /\ new.version = v /\ files' = files /\ pc'[w] = label
        /\ shared' = shared
    BY DEF Flushes, Typed
  <1>2. /\ ver'[v].routing = Column(ver[v].routing, copy[w].routing, new.routing)
        /\ ver'[v].revision = Column(ver[v].revision, copy[w].revision, new.revision)
        /\ copy'[w] = new
    BY <1>1, FlushEffect DEF Flushes
  <1>3. /\ copy[w].routing = ver[v].routing /\ copy[w].revision = ver[v].revision
        /\ pc[w] = "queue" => ((\E b \in builds : b.version = v) => copy[w].bump)
        /\ pc[w] \in {"mark", "parse", "ready", "index", "persist"} =>
              \A b \in builds : b.version = v => b.revision < copy[w].revision
        /\ pc[w] = "persist" => files[v].index = copy[w].index
    BY <1>1 DEF KnownRouting
  <1>4. /\ ver'[v].routing = new.routing /\ ver'[v].revision = new.revision
    BY <1>2, <1>3 DEF Column
  <1>5. /\ BuildsOf(v) /\ RowsOf(v) /\ Distinct(v)
        /\ copy[w].revision \in Nat /\ new.revision \in Nat /\ copy[w].index \in Nat
        /\ \A b \in builds : b.revision \in Nat
    BY <1>1 DEF RoutingOf, Typed, CopyRow, Build
  <1>6. CASE label \in {"mark", "parse", "index"}
    <2>1. UNCHANGED <<nodes, builds>> /\ new.routing # "index_ready"
      BY <1>6 DEF Writes, WorkFits
    <2>2. \A b \in builds : b.version = v => b.revision < new.revision
      <3>1. CASE label = "mark"
        <4>1. /\ new.revision = IF copy[w].bump THEN copy[w].revision + 1 ELSE copy[w].revision
              /\ pc[w] = "queue"
          BY <3>1 DEF Writes
        <4>2. \A b \in builds : b.version = v => b.revision <= copy[w].revision /\ copy[w].bump
          BY <1>3, <1>5, <4>1 DEF BuildsOf
        <4> QED BY <1>5, <4>1, <4>2
      <3>2. CASE label # "mark"
        <4>1. new.revision = copy[w].revision /\ pc[w] \in {"mark", "ready"}
          BY <1>6, <3>2 DEF Writes
        <4> QED BY <1>3, <4>1
      <3> QED BY <3>1, <3>2
    <2>3. BuildsOf(v)' /\ RowsOf(v)' /\ Distinct(v)'
      BY <1>4, <1>5, <2>1, <2>2 DEF BuildsOf, RowsOf, Distinct
    <2>4. KnownRouting(w)'
      BY <1>1, <1>2, <1>4, <1>6, <2>1, <2>2 DEF KnownRouting
    <2> QED BY <2>3, <2>4 DEF RoutingOf
  <1>7. CASE label = "sync"
    <2> DEFINE new1 == [version |-> v, build |-> copy[w].index, revision |-> copy[w].revision]
    <2>1. /\ new.routing = "index_ready" /\ new.revision = copy[w].revision
          /\ nodes' = [nodes EXCEPT ![v] = copy[w].index] /\ pc[w] = "persist"
          /\ builds' = builds \union {new1}
      BY <1>7 DEF Writes
    <2>2. nodes'[v] = copy[w].index /\ copy[w].index # 0 /\ files'[v].index = copy[w].index
      BY <1>1, <1>3, <2>1 DEF Typed, WorkFits
    <2>3. \A b \in builds : b.version = v => b.revision < copy[w].revision
      BY <1>3, <2>1
    <2>4. new1.version = v /\ new1.revision = copy[w].revision
      OBVIOUS
    <2> HIDE DEF new1
    <2>5. BuildsOf(v)'
      <3>1. \A b \in builds' : b.version = v => b.revision <= copy[w].revision
        BY <1>5, <2>1, <2>3, <2>4
      <3> QED BY <1>4, <2>1, <2>2, <3>1 DEF BuildsOf
    <2>6. RowsOf(v)'
      BY <2>2 DEF RowsOf
    <2>7. Distinct(v)'
      <3>1. ASSUME NEW a \in builds', NEW b \in builds', a.version = v, b.version = v,
                   a.build # b.build
            PROVE  a.revision # b.revision
        <4>1. CASE a \in builds /\ b \in builds
          BY <1>5, <3>1, <4>1 DEF Distinct
        <4>2. CASE a \in builds /\ b = new1
          BY <1>5, <2>3, <2>4, <3>1, <4>2
        <4>3. CASE a = new1 /\ b \in builds
          BY <1>5, <2>3, <2>4, <3>1, <4>3
        <4> QED BY <2>1, <3>1, <4>1, <4>2, <4>3
      <3> QED BY <3>1 DEF Distinct
    <2>8. KnownRouting(w)'
      BY <1>1, <1>2, <1>4, <1>7 DEF KnownRouting
    <2> QED BY <2>5, <2>6, <2>7, <2>8 DEF RoutingOf
  <1>8. CASE label = "finish"
    <2>1. UNCHANGED <<nodes, builds>> /\ new.routing = "failed" /\ new.revision = copy[w].revision
      BY <1>8 DEF Writes
    <2>2. BuildsOf(v)' /\ RowsOf(v)' /\ Distinct(v)'
      BY <1>3, <1>4, <1>5, <2>1 DEF BuildsOf, RowsOf, Distinct
    <2>3. KnownRouting(w)'
      BY <1>1, <1>2, <1>4, <1>8 DEF KnownRouting
    <2> QED BY <2>2, <2>3 DEF RoutingOf
  <1> QED BY <1>6, <1>7, <1>8 DEF Writes

(* The other steps of a job on such a version. *)
LEMMA WorkRouting ==
    ASSUME Typed, RowsFit, NEW w \in Workers, WorkFits(w), Exists,
           JobStep(w) \/ FailureStep(w) \/ Crash(w),
           NEW v \in Versions \ shared, v = copy[w].version, KnownRouting(w), RoutingOf(v)
    PROVE  RoutingOf(v)' /\ KnownRouting(w)'
  <1>1. CASE Marks(w)
    BY <1>1, MarksRouting
  <1>2. /\ copy[w].routing = ver[v].routing /\ copy[w].revision = ver[v].revision
        /\ pc[w] \in {"mark", "parse", "ready", "index", "persist"} =>
              \A b \in builds : b.version = v => b.revision < copy[w].revision
    BY DEF KnownRouting
  <1>3. BuildsOf(v) /\ RowsOf(v) /\ Distinct(v)
    BY DEF RoutingOf
  <1>4. Exists' /\ task[w] \in Jobs
    BY WorkKeeps, VersionsAssumption DEF WorkFits, Busy
  <1>5. CASE Parse(w)
    <2>1. /\ files'[v].index = files[v].index /\ pc[w] = "parse"
          /\ pc' = [pc EXCEPT ![w] = "ready"]
          /\ UNCHANGED <<ver, nodes, copy, builds>>
      BY <1>5, ParseEffect DEF rowVars, historyVars
    <2>2. pc'[w] = "ready"
      BY <2>1 DEF Typed
    <2>3. KnownRouting(w)'
      BY <1>2, <2>1, <2>2 DEF KnownRouting
    <2> QED BY <1>4, <2>1, <2>3, RoutingOfKept
  <1>6. CASE WriteIndex(w)
    <2>1. /\ pc[w] = "index" /\ pc' = [pc EXCEPT ![w] = "persist"]
          /\ files'[v].index = build + 1 /\ copy'[w].index = build + 1
          /\ copy'[w].version = v /\ copy'[w].routing = copy[w].routing
          /\ copy'[w].revision = copy[w].revision /\ UNCHANGED <<ver, nodes, builds>>
      BY <1>6, WriteIndexEffect DEF rowVars
    <2>2. pc'[w] = "persist"
      BY <2>1 DEF Typed
    <2>3. KnownRouting(w)'
      BY <1>2, <2>1, <2>2 DEF KnownRouting
    <2>4. ver[v].routing = "parsing"
      BY <1>2, <2>1 DEF WorkFits
    <2>5. BuildsOf(v)' /\ RowsOf(v)' /\ Distinct(v)'
      BY <1>3, <2>1, <2>4 DEF BuildsOf, RowsOf, Distinct
    <2> QED BY <2>3, <2>5 DEF RoutingOf
  <1>7. CASE SyncText(w)
    <2>1. UNCHANGED <<ver, nodes, copy, files, builds>> /\ pc'[w] = "finish"
      BY <1>7 DEF SyncText, rowVars, historyVars, Typed
    <2>2. KnownRouting(w)'
      BY <1>2, <2>1 DEF KnownRouting
    <2> QED BY <1>4, <2>1, <2>2, RoutingOfKept
  <1>8. CASE Leave(w) \/ Vanish(w) \/ Crash(w)
    <2>1. UNCHANGED <<ver, nodes, files, builds>> /\ Idle(w)
      BY <1>8 DEF Leave, Vanish, Crash, rowVars, historyVars
    <2>2. KnownRouting(w)'
      BY <2>1, IdleEffect, VersionsAssumption DEF KnownRouting
    <2> QED BY <1>4, <2>1, <2>2, RoutingOfKept
  <1>9. CASE FailVersion(w)
    <2>1. /\ Idle(w) /\ ver'[v].routing = Column(ver[v].routing, copy[w].routing, "failed")
          /\ ver'[v].revision = ver[v].revision /\ UNCHANGED <<nodes, files, builds>>
      BY <1>9, FailVersionEffect
    <2>2. KnownRouting(w)'
      BY <2>1, IdleEffect, VersionsAssumption DEF KnownRouting
    <2>3. ver'[v].routing = "failed"
      BY <1>2, <2>1 DEF Column
    <2>4. BuildsOf(v)' /\ RowsOf(v)' /\ Distinct(v)'
      BY <1>3, <2>1, <2>3 DEF BuildsOf, RowsOf, Distinct
    <2> QED BY <2>2, <2>4 DEF RoutingOf
  <1>10. CASE RoutingFails(w) \/ FailJob(w)
    <2>1. /\ UNCHANGED <<ver, nodes, files, builds>> /\ Rereads(w)
          /\ pc' = [pc EXCEPT ![w] = "unrouted"] \/ pc' = [pc EXCEPT ![w] = "failing"]
      BY <1>4, <1>10, RoutingEffect, FailJobEffect DEF historyVars
    <2>2. /\ pc'[w] \in {"unrouted", "failing"} /\ copy'[w].version = v
          /\ copy'[w].routing = ver[v].routing /\ copy'[w].revision = ver[v].revision
      BY <2>1 DEF Rereads, Typed
    <2>3. KnownRouting(w)'
      BY <2>1, <2>2 DEF KnownRouting
    <2> QED BY <1>4, <2>1, <2>3, RoutingOfKept
  <1>11. CASE Finish(w)
    <2>1. UNCHANGED <<ver, nodes, files, builds, copy>> /\ pc'[w] = "done"
      BY <1>11 DEF Finish, historyVars, Typed
    <2>2. KnownRouting(w)'
      BY <1>2, <2>1 DEF KnownRouting
    <2> QED BY <1>4, <2>1, <2>2, RoutingOfKept
  <1> QED BY <1>1, <1>5, <1>6, <1>7, <1>8, <1>9, <1>10, <1>11 DEF JobStep, FailureStep, Marks
LEMMA RoutingStep ==
    ASSUME Typed, RowsFit, RequestsFit, JobsOnce, \A w \in Workers : WorkFits(w),
           Alone, \A w \in Workers : KnownRouting(w),
           \A x \in Versions \ shared : RoutingOf(x), [Next]_vars
    PROVE  /\ Alone' /\ \A w \in Workers : KnownRouting(w)'
           /\ \A x \in Versions \ shared' : RoutingOf(x)'
  <1>0. \A w \in Workers : (Exists /\ copy[w].version \in Versions)
                              => ver[copy[w].version].row
    BY VersionsAssumption DEF WorkFits, Busy, RowsFit, Live
  <1>1. CASE Requests
    <2>1. /\ UNCHANGED <<pc, task, copy, builds, build, shared>> /\ (Exists' => Exists)
          /\ Exists' => /\ nodes' = nodes
                        /\ \A x \in Versions : /\ files'[x].index = files[x].index
                                               /\ ver[x].row => ver'[x] = ver[x]
      BY <1>1, RequestsKeep
    <2>2. Alone'
      BY <2>1 DEF Alone
    <2>3. \A w \in Workers : KnownRouting(w)'
      BY <1>0, <2>1, KnownKept
    <2>4. ASSUME NEW x \in Versions \ shared PROVE RoutingOf(x)'
      <3>1. RoutingOf(x)
        OBVIOUS
      <3>2. CASE Exists' => ver'[x] = ver[x]
        BY <2>1, <3>1, <3>2, RoutingOfKept
      <3>3. CASE Exists' /\ ver'[x] # ver[x]
        <4>1. ver'[x].routing = "uploaded" /\ request[x].at = "stored"
          BY <1>1, <3>3, RequestsKeep
        <4>2. \A b \in builds : b.version # x
          BY <4>1 DEF RequestsFit
        <4> QED BY <2>1, <4>1, <4>2 DEF RoutingOf, BuildsOf, RowsOf, Distinct
      <3> QED BY <3>2, <3>3
    <2> QED BY <2>1, <2>2, <2>3, <2>4
  <1>2. ASSUME NEW w \in Workers, Pop(w)
        PROVE  /\ Alone' /\ \A u \in Workers : KnownRouting(u)'
               /\ \A x \in Versions \ shared' : RoutingOf(x)'
    <2>1. UNCHANGED <<doc, ver, nodes, files, builds>> /\ (Exists' <=> Exists)
      BY <1>2, PopEffect DEF rowVars, Exists
    <2>2. CASE PopsNothing(w)
      BY <2>1, <2>2, RoutingOfKept, KnownKept DEF PopsNothing, Alone
    <2>3. ASSUME NEW j \in Jobs, NEW v \in Versions, PopsJob(w, j, v)
          PROVE  /\ Alone' /\ \A u \in Workers : KnownRouting(u)'
                 /\ \A x \in Versions \ shared' : RoutingOf(x)'
      <3>1. /\ shared \subseteq shared' /\ ver[v].row
            /\ v \notin shared' => \A u \in Workers : copy[u].version # v
        BY <2>3 DEF PopsJob
      <3>2. /\ pc'[w] = "queue" /\ copy'[w].version = v
            /\ copy'[w].routing = ver[v].routing /\ copy'[w].revision = ver[v].revision
            /\ copy'[w].bump = BuiltBefore(v)
            /\ \A u \in Workers : u # w => pc'[u] = pc[u] /\ copy'[u] = copy[u]
        BY <2>3, PopsCopy
      <3>3. Alone'
        BY <3>1, <3>2 DEF Alone
      <3>4. \A x \in Versions \ shared' : RoutingOf(x)'
        BY <2>1, <3>1, RoutingOfKept
      <3>5. \A u \in Workers : u # w => KnownRouting(u)'
        BY <2>1, <3>1, <3>2, KnownKept
      <3>6. KnownRouting(w)'
        <4>1. v \notin shared' /\ (\E b \in builds : b.version = v) => BuiltBefore(v) \/ ~Exists
          BY <3>1 DEF RoutingOf, BuildsOf, BuiltBefore
        <4> QED BY <2>1, <3>2, <4>1 DEF KnownRouting
      <3> QED BY <3>3, <3>4, <3>5, <3>6
    <2> QED BY <1>2, <2>2, <2>3, PopEffect
  <1>3. ASSUME NEW w \in Workers, JobStep(w) \/ FailureStep(w) \/ Crash(w)
        PROVE  /\ Alone' /\ \A u \in Workers : KnownRouting(u)'
               /\ \A x \in Versions \ shared' : RoutingOf(x)'
    <2>1. shared' = shared /\ (Exists' <=> Exists)
      <3>1. shared' = shared
        BY <1>3 DEF JobStep, FailureStep, MarkQueued, MarkParsing, Parse, MarkReady, WriteIndex,
             Persist, SyncText, Finish, Leave, Vanish, RoutingFails, MarkUnrouted, FailJob,
             FailVersion, Crash, historyVars
      <3> QED BY <1>3, <3>1, WorkKeeps
    <2>2. \A u \in Workers : u # w => pc'[u] = pc[u] /\ copy'[u] = copy[u]
      BY <1>3, OtherWorkers
    <2>3. Busy(w) /\ copy[w].version \in Versions
      <3>1. Busy(w)
        BY <1>3 DEF JobStep, FailureStep, MarkQueued, MarkParsing, Parse, MarkReady, WriteIndex,
             Persist, SyncText, Finish, Leave, Vanish, RoutingFails, MarkUnrouted, FailJob,
             FailVersion, Crash, Busy
      <3> QED BY <3>1 DEF WorkFits
    <2> PICK v \in Versions : v = copy[w].version
      BY <2>3
    <2>4. copy'[w].version \in {v, NoVersion}
      <3>1. CASE Marks(w)
        <4> PICK x \in Versions, j \in Jobs, s \in Stage \ Settled, new \in CopyRow,
                label \in Labels : /\ Flushes(w, x, j, s, new) /\ Writes(w, label, new)
                                   /\ pc' = [pc EXCEPT ![w] = label]
          BY <3>1, MarksFlush
        <4> QED BY FlushEffect DEF Flushes
      <3>2. CASE Parse(w) \/ SyncText(w)
        BY <3>2 DEF Parse, SyncText
      <3>3. CASE WriteIndex(w)
        BY <3>3, WriteIndexEffect
      <3>4. CASE RoutingFails(w) \/ FailJob(w)
        <4> PICK j \in Jobs : j = task[w]
          BY <2>3 DEF WorkFits
        <4> QED BY <3>4, RoutingEffect, FailJobEffect DEF Rereads
      <3>5. CASE Leave(w) \/ FailVersion(w) \/ Vanish(w) \/ Crash(w)
        BY <3>5, IdleEffect DEF Leave, FailVersion, Vanish, Crash
      <3>6. CASE Finish(w)
        BY <3>6 DEF Finish
      <3> QED BY <1>3, <3>1, <3>2, <3>3, <3>4, <3>5, <3>6 DEF JobStep, FailureStep, Marks
    <2>5. Alone'
      BY <2>1, <2>2, <2>4, VersionsAssumption DEF Alone
    <2>6. \A x \in Versions : x # v =>
             /\ ver'[x] = ver[x] /\ nodes'[x] = nodes[x] /\ files'[x] = files[x]
             /\ \A b \in builds' : b.version = x => b \in builds
      BY <1>3, VersionElsewhere
    <2>7. ASSUME NEW u \in Workers, u # w PROVE KnownRouting(u)'
      <3>1. copy[u].version \in Versions \ shared => copy[u].version # v
        BY <2>7 DEF Alone
      <3> QED BY <2>1, <2>2, <2>6, <2>7, <3>1, KnownKept
    <2>8. ASSUME NEW x \in Versions \ shared, x # v PROVE RoutingOf(x)'
      <3>1. RoutingOf(x)
        OBVIOUS
      <3> QED BY <2>1, <2>6, <2>8, <3>1, RoutingOfKept
    <2>9. CASE v \notin shared /\ Exists
      <3>1. RoutingOf(v)' /\ KnownRouting(w)'
        BY <1>3, <2>9, WorkRouting
      <3> QED BY <2>1, <2>5, <2>7, <2>8, <3>1
    <2>10. CASE v \in shared
      <3>1. KnownRouting(w)'
        BY <2>1, <2>4, <2>10, VersionsAssumption DEF KnownRouting
      <3> QED BY <2>1, <2>5, <2>7, <2>8, <2>10, <3>1
    <2>11. CASE ~Exists /\ v \notin shared
      <3>1. builds' = builds
        BY <1>3, <2>11 DEF JobStep, FailureStep, MarkQueued, MarkParsing, Parse, MarkReady, WriteIndex,
             Persist, SyncText, Finish, Leave, Vanish, RoutingFails, MarkUnrouted, FailJob,
             FailVersion, Crash, historyVars
      <3>2. RoutingOf(v)' /\ KnownRouting(w)'
        <4>1. RoutingOf(v)
          BY <2>11
        <4> QED BY <2>1, <2>11, <3>1, <4>1 DEF RoutingOf, Distinct, KnownRouting
      <3> QED BY <2>1, <2>5, <2>7, <2>8, <3>2
    <2> QED BY <2>9, <2>10, <2>11
  <1>4. CASE UNCHANGED vars
    <2>1. UNCHANGED <<doc, ver, nodes, files, pc, copy, builds, shared>>
      BY <1>4 DEF vars, rowVars, workerVars, historyVars
    <2>2. Exists' <=> Exists
      BY <2>1 DEF Exists
    <2> QED BY <2>1, <2>2, RoutingOfKept, KnownKept DEF Alone
  <1> QED BY <1>1, <1>2, <1>3, <1>4 DEF Next, Requests, Restoring
-----------------------------------------------------------------------------
(* The invariant and the theorems. *)

LEMMA Initially == Init => IInv
  <1> SUFFICES ASSUME Init PROVE IInv
    OBVIOUS
  <1>1. Typed
    <2>1. NoRow \in VersionRow /\ [NoRow EXCEPT !.row = TRUE] \in VersionRow
          /\ [NoRow EXCEPT !.row = FALSE] \in VersionRow
      BY NoRowIsARow DEF NewRow, VersionRow
    <2>2. ver \in [Versions -> VersionRow]
      <3>1. \A v \in Versions : [NoRow EXCEPT !.row = (v = First)] \in VersionRow
        BY <2>1 DEF VersionRow
      <3> QED BY <3>1 DEF Init
    <2>3. request \in [Versions -> Request]
      <3>1. \A v \in Versions :
               [Answered EXCEPT !.at = IF v = First THEN @ ELSE "new"] \in Request
        BY DEF Answered, Request, Stage, Maybe
      <3> QED BY <3>1 DEF Init
    <2>4. /\ doc \in [status : Stage \union {"deleted"}, active : Maybe]
          /\ job \in [Jobs -> JobRow]
      BY VersionsAssumption DEF Init, Stage, Maybe, JobRow
    <2>5. faults \in 0..MaxFaults
      BY FaultsAssumption DEF Init
    <2>6. /\ queue \in Seq(Jobs) /\ pc \in [Workers -> Labels]
          /\ copy \in [Workers -> CopyRow]
      <3>1. IdleCopy \in CopyRow
        BY DEF IdleCopy, CopyRow, Maybe, Stage
      <3> QED BY <3>1 DEF Init, Labels
    <2>7. restore \in [Restores -> RestoreRow]
      BY DEF Init, Unread, RestoreRow, Stage, Maybe
    <2> QED BY <2>2, <2>3, <2>4, <2>5, <2>6, <2>7 DEF Init, Typed
  <1>2. /\ \A v \in Versions : /\ ver[v].row <=> v = First
                               /\ ver[v].parse = "uploaded" /\ ver[v].routing = "uploaded"
                               /\ request[v].at = IF v = First THEN "done" ELSE "new"
                               /\ nodes[v] = 0 /\ files[v].pdf = (v = First)
        /\ \A w \in Workers : pc[w] = "idle" /\ task[w] = NoJob /\ copy[w].version = NoVersion
        /\ \A j \in Jobs : job[j].status = "none" /\ job[j].version = NoVersion
        /\ builds = {} /\ queue = <<>> /\ doc.status = "uploaded" /\ doc.active = First
    BY NoRowIsARow DEF Init, NoRow, Answered, IdleCopy
  <1>3. Live = {First} /\ Exists
    BY <1>2, VersionsAssumption DEF Live, Exists
  <1>4. RowsFit
    BY <1>2, <1>3 DEF RowsFit
  <1>5. RequestsFit
    <2>1. \A r \in Restores : restore[r].at = "new"
      BY DEF Init, Unread
    <2> QED BY <1>2, <1>3, <2>1 DEF RequestsFit
  <1>6. JobsOnce
    BY <1>2 DEF JobsOnce
  <1>7. \A w \in Workers : WorkFits(w) /\ KnownRouting(w)
    BY <1>2, VersionsAssumption DEF WorkFits, KnownRouting, Busy
  <1>8. ArtifactsStored /\ Awaited /\ RoutingRebuilt
    <2>1. /\ ver[First].parse = "uploaded" /\ ver[First].routing = "uploaded"
          /\ files[First].pdf
      BY <1>2, VersionsAssumption
    <2>2. ArtifactsStored
      BY <1>3, <2>1 DEF ArtifactsStored
    <2>3. Awaited
      BY <1>3, <2>1 DEF Awaited, Waiting
    <2>4. RoutingRebuilt
      BY <1>2, <1>3, <2>1 DEF RoutingRebuilt
    <2> QED BY <2>2, <2>3, <2>4
  <1>9. StatusOfActive /\ Alone /\ BuildsFit
    BY <1>2, VersionsAssumption DEF StatusOfActive, Alone, BuildsFit, Busy
  <1> QED BY <1>1, <1>4, <1>5, <1>6, <1>7, <1>8, <1>9 DEF IInv

LEMMA InvariantStep == IInv /\ [Next]_vars => IInv'
  <1> SUFFICES ASSUME IInv, [Next]_vars PROVE IInv'
    OBVIOUS
  <1> USE DEF IInv
  <1>1. Typed' /\ RowsFit'
    BY TypedStep, RowsFitStep
  <1>2. RequestsFit' /\ JobsOnce' /\ \A w \in Workers : WorkFits(w)'
    BY <1>1, RequestsFitStep, JobsOnceStep, WorkFitsStep
  <1>3. ArtifactsStored' /\ Awaited'
    BY <1>1, ArtifactsStep, AwaitedStep
  <1>4. StatusOfActive'
    BY StatusStep
  <1>5. \A x \in Versions \ shared : RoutingOf(x)
    BY RoutingParts
  <1>6. /\ Alone' /\ \A w \in Workers : KnownRouting(w)'
        /\ \A x \in Versions \ shared' : RoutingOf(x)'
    BY <1>5, RoutingStep
  <1>7. BuildsFit' /\ RoutingRebuilt'
    BY <1>1, <1>6, RoutingPartsNext
  <1> QED BY <1>1, <1>2, <1>3, <1>4, <1>6, <1>7

LEMMA Invariance == Spec => []IInv
  BY Initially, InvariantStep, PTL DEF Spec

(* The rows, files, queue and tasks have their types: Documents.TypeOK.     *)
THEOREM DocumentTypes == Spec => []TypeOK
  <1>1. IInv => TypeOK
    BY TypedIsTypeOK DEF IInv
  <1> QED BY <1>1, Invariance, PTL

(* Every committed version has its PDF, and every version that says it can  *)
(* be searched has its structure, whatever fails on the way.                *)
THEOREM ArtifactsAreStored == Spec => []ArtifactsStored
  <1>1. IInv => ArtifactsStored
    BY DEF IInv
  <1> QED BY <1>1, Invariance, PTL

(* A version that says it is being parsed has a job that has not settled, a *)
(* worker that is recording the failure of one, or one whose worker died    *)
(* between the two commits of a failure.                                    *)
THEOREM NobodyLeftBehind == Spec => []NotLeftBehind
  <1>1. IInv => NotLeftBehind
    BY NotLeft DEF IInv
  <1> QED BY <1>1, Invariance, PTL

(* As long as nobody commits on a reading that has become stale, the        *)
(* document's "index_ready" is that of its active version.                  *)
THEOREM StatusIsOfActive == Spec => []StatusOfActive
  <1>1. IInv => StatusOfActive
    BY DEF IInv
  <1> QED BY <1>1, Invariance, PTL

(* The routing rows of a ready version are those of its stored index, and   *)
(* no two of its builds have the same revision, unless two jobs met on it.  *)
THEOREM RoutingIsRebuilt == Spec => []RoutingRebuilt
  <1>1. IInv => RoutingRebuilt
    BY DEF IInv
  <1> QED BY <1>1, Invariance, PTL

=============================================================================
