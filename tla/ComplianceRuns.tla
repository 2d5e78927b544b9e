---------------------------- MODULE ComplianceRuns ----------------------------
(***************************************************************************)
(* Compliance runs (app/services/compliance_service.py): a run is created  *)
(* for a knowledge base, directly or from a check, pushed to a queue and   *)
(* executed by a worker; a run whose lease ends is queued again.  Unlike a *)
(* chat run it has no cancellation, no claim by update-where and nothing   *)
(* that renews its lease while it executes: the heartbeat is that of the   *)
(* claim (_touch_compliance_heartbeat has no caller).                      *)
(*                                                                         *)
(* A step is one commit with its refresh, one Redis command or one         *)
(* snapshot read.  An UPDATE writes the columns that differ from the copy  *)
(* the ORM session holds (copy[w]), whatever the row holds now.            *)
(***************************************************************************)
EXTENDS Naturals, FiniteSets

CONSTANTS
    Runs,         \* run ids
    NoRun,        \* nothing popped
    Workers,      \* worker processes
    Nobody,       \* an empty column: no execution has written it
    MaxExpiries,  \* bound: leases that end although something still holds the run
    MaxFaults     \* bound: crashes, failed pushes, failed announcements

ASSUME RunsAssumption    == NoRun \notin Runs
ASSUME WorkersAssumption == Nobody \notin Workers
ASSUME BoundsAssumption  == MaxExpiries \in Nat /\ MaxFaults \in Nat

VARIABLES
    row,          \* run -> its row
    queued,       \* run -> entries of the run in the Redis list
    (* workers *)
    pc, task,     \* where a worker is, and the run it has popped
    copy,         \* the rows its session holds: of its run, or of the stale runs
    found,        \* what its evidence came to: "unknown", "nothing", "cited", "context"
    (* history and bounds *)
    disturbed,    \* runs two executors wrote, or whose end could not be announced
    expiries, faults

rowVars    == <<row, queued>>
workerVars == <<pc, task, copy, found>>
boundVars  == <<expiries, faults>>
vars == <<rowVars, workerVars, disturbed, boundVars>>

-----------------------------------------------------------------------------
(* TERMINAL_COMPLIANCE_STATUSES, of which nothing sets "cancelled", and     *)
(* ACTIVE_COMPLIANCE_STATUSES                                               *)
Terminal == {"completed", "failed", "cancelled"}
Active   == {"retrieving", "answering"}
Status   == Terminal \union Active \union {"none", "accepted", "queued"}

(* Mutant: the row is inserted with a status nobody knows. *)
NewRowPending == [status |-> "pending", fresh |-> FALSE, summary |-> Nobody,
                  citations |-> Nobody, evidence |-> Nobody, error |-> FALSE]

(* summary stands for summary, answer, verdict, gaps, conflicts, metrics:   *)
(* all are rewritten by every execution that completes.  citations and      *)
(* evidence are "[]" until then, and an empty result leaves them unwritten. *)
NewRow == [status |-> "accepted", fresh |-> FALSE, summary |-> Nobody,
           citations |-> Nobody, evidence |-> Nobody, error |-> FALSE]

NoRow == [NewRow EXCEPT !.status = "none"]

Executing == {"target", "retrieve", "context", "answer", "announce"}
Executes(w, r) == task[w] = r /\ pc[w] \in Executing

Fault == faults < MaxFaults /\ faults' = faults + 1

(* What an UPDATE leaves in the row: new where it differs from old. *)
Written(r, old, new) ==
    [c \in DOMAIN new |-> IF c = "fresh" \/ new[c] # old[c] THEN new[c] ELSE row[r][c]]

(* A commit of w to run r, and the refresh after it. *)
Commit(w, r, new) ==
    LET after == Written(r, copy[w][r], new) IN
    /\ row' = [row EXCEPT ![r] = after]
    /\ copy' = [copy EXCEPT ![w][r] = after]

Goto(w, l) == pc' = [pc EXCEPT ![w] = l]

Rest(w) == /\ Goto(w, "scan")
           /\ task' = [task EXCEPT ![w] = NoRun]
           /\ copy' = [copy EXCEPT ![w] = [r \in Runs |-> NoRow]]
           /\ found' = [found EXCEPT ![w] = "unknown"]

(********************************* requests ********************************)
(* create_compliance_run, create_compliance_run_from_check: the first of    *)
(* two commits.                                                             *)
CreateRun(r) ==
    /\ row[r].status = "none"
    /\ row' = [row EXCEPT ![r] = NewRow]
    /\ UNCHANGED <<queued, workerVars, disturbed, boundVars>>

(* The second commit, then the push; the API process may fail between them, *)
(* and before the second commit.                                            *)
QueueRun(r) ==
    /\ row[r].status = "accepted"
    /\ row' = [row EXCEPT ![r] = [@ EXCEPT !.status = "queued", !.fresh = TRUE]]
    /\ \/ queued' = [queued EXCEPT ![r] = @ + 1] /\ UNCHANGED faults
       \/ Fault /\ UNCHANGED queued
    /\ UNCHANGED <<workerVars, disturbed, expiries>>

(********************************* recovery ********************************)
(* Mutant: a queued run is never stale. *)
StaleActive(r) == row[r].status \in Active /\ ~row[r].fresh

Stale(r) == row[r].status \in Active \union {"queued"} /\ ~row[r].fresh

(* mark_orphaned_compliance_runs_for_retry, which a worker calls before it  *)
(* pops and again before it executes: the SELECT.                           *)
Scan(w) ==
    /\ pc[w] \in {"scan", "rescan"}
    /\ LET stale == {r \in Runs : Stale(r)} IN
       IF stale = {}
       THEN Goto(w, IF task[w] = NoRun THEN "pop" ELSE "load") /\ UNCHANGED copy
       ELSE /\ Goto(w, "requeue")
            /\ copy' = [copy EXCEPT ![w] = [r \in Runs |->
                                              IF r \in stale THEN row[r] ELSE NoRow]]
    /\ UNCHANGED <<rowVars, task, found, disturbed, boundVars>>

(* the commit, over whatever the rows hold now *)
Requeue(w) ==
    /\ pc[w] = "requeue"
    /\ LET stale == {r \in Runs : copy[w][r].status # "none"}
           after(r) == Written(r, copy[w][r],
                               [copy[w][r] EXCEPT !.status = "queued", !.fresh = TRUE])
       IN /\ row' = [r \in Runs |-> IF r \in stale THEN after(r) ELSE row[r]]
          /\ disturbed' = disturbed \union {r \in stale : row[r].status # copy[w][r].status}
    /\ Goto(w, "push")
    /\ UNCHANGED <<queued, task, copy, found, boundVars>>

Push(w) ==
    /\ pc[w] = "push"
    /\ queued' = [r \in Runs |-> queued[r] + IF copy[w][r].status # "none" THEN 1 ELSE 0]
    /\ copy' = [copy EXCEPT ![w] = [r \in Runs |-> NoRow]]
    /\ Goto(w, IF task[w] = NoRun THEN "pop" ELSE "load")
    /\ UNCHANGED <<row, task, found, disturbed, boundVars>>

(* Nothing renews a lease: 120 seconds after the claim, the creation or the *)
(* last requeue the run is stale, whoever works on it.                      *)
Held(r) == queued[r] > 0 \/ \E w \in Workers : task[w] = r \/ copy[w][r].status # "none"

LeaseEnds(r) ==
    /\ row[r].status \in Active \union {"queued"} /\ row[r].fresh
    /\ Held(r) => expiries < MaxExpiries
    /\ expiries' = IF Held(r) THEN expiries + 1 ELSE expiries
    /\ row' = [row EXCEPT ![r].fresh = FALSE]
    /\ UNCHANGED <<queued, workerVars, disturbed, faults>>

(***************************** run_compliance_run **************************)
(* blpop: an entry, or nothing within five seconds *)
Pop(w) ==
    /\ pc[w] = "pop"
    /\ \/ \E r \in Runs :
             /\ queued[r] > 0
             /\ queued' = [queued EXCEPT ![r] = @ - 1]
             /\ task' = [task EXCEPT ![w] = r]
             /\ Goto(w, "rescan")
       \/ /\ \A r \in Runs : queued[r] = 0
          /\ Goto(w, "scan") /\ UNCHANGED <<queued, task>>
    /\ UNCHANGED <<row, copy, found, disturbed, boundVars>>

(* Mutant: a run that has ended is executed again. *)
LoadAny(w) ==
    /\ pc[w] = "load"
    /\ Goto(w, "claim")
    /\ copy' = [copy EXCEPT ![w][task[w]] = row[task[w]]]
    /\ UNCHANGED <<rowVars, task, found, disturbed, boundVars>>

(* db.get, and the return for a run that has ended *)
Load(w) ==
    /\ pc[w] = "load"
    /\ IF row[task[w]].status \in Terminal
       THEN Rest(w)
       ELSE /\ Goto(w, "claim")
            /\ copy' = [copy EXCEPT ![w][task[w]] = row[task[w]]]
            /\ UNCHANGED <<task, found>>
    /\ UNCHANGED <<rowVars, disturbed, boundVars>>

(* Whoever else executes the run is not asked. *)
Claim(w) ==
    LET r == task[w] IN
    /\ pc[w] = "claim"
    /\ Commit(w, r, [copy[w][r] EXCEPT !.status = "retrieving", !.fresh = TRUE,
                                       !.error = FALSE])
    /\ disturbed' = IF row[r].status # copy[w][r].status \/ \E u \in Workers : Executes(u, r)
                    THEN disturbed \union {r} ELSE disturbed
    /\ Goto(w, "target")
    /\ UNCHANGED <<queued, task, found, boundVars>>

(* The knowledge base, the provider and the model; the model is committed,  *)
(* and the refresh loads the row anew.                                      *)
Target(w) ==
    /\ pc[w] = "target"
    /\ copy' = [copy EXCEPT ![w][task[w]] = row[task[w]]]
    /\ Goto(w, "retrieve")
    /\ UNCHANGED <<rowVars, task, found, disturbed, boundVars>>

(* _resolve_manuals_for_knowledge_base, the manual gate, whose failure falls *)
(* back to every manual, and the candidates of each manual, each tried      *)
(* run_step_max_retries + 1 times: all of it only reads.                    *)
Retrieve(w) ==
    /\ pc[w] = "retrieve"
    /\ \E f \in {"nothing", "cited"} : found' = [found EXCEPT ![w] = f]
    /\ Goto(w, "context")
    /\ UNCHANGED <<rowVars, task, copy, disturbed, boundVars>>

(* What an execution of w makes of the row when it ends "completed". *)
Result(w, r, f, cited) ==
    [copy[w][r] EXCEPT !.status = "completed", !.fresh = TRUE, !.summary = w,
                       !.citations = IF f = "nothing" THEN Nobody ELSE w,
                       !.evidence  = IF cited THEN w ELSE Nobody]

(* _finalize_compliance_run up to its commit *)
Finalize(w, new) ==
    /\ Commit(w, task[w], new)
    /\ Goto(w, "announce")
    /\ UNCHANGED <<queued, task, disturbed, boundVars>>

(* Rerank, or the round-robin merge when it fails; the citations; their     *)
(* excerpts.  Without an excerpt the run completes with default_on_gap and  *)
(* empty evidence, otherwise its status becomes "answering".                *)
Context(w) ==
    /\ pc[w] = "context"
    /\ LET r == task[w] IN
       \/ /\ Finalize(w, Result(w, r, found[w], FALSE))
          /\ UNCHANGED found
       \/ /\ found[w] = "cited"
          /\ Commit(w, r, [copy[w][r] EXCEPT !.status = "answering",
                                             !.fresh = row[r].fresh])
          /\ found' = [found EXCEPT ![w] = "context"]
          /\ Goto(w, "answer")
          /\ UNCHANGED <<queued, task, disturbed, boundVars>>

(* Mutant: the citations of an answer are not written. *)
AnswerKeepingCitations(w) ==
    /\ pc[w] = "answer"
    /\ Finalize(w, [Result(w, task[w], found[w], TRUE) EXCEPT
                        !.citations = copy[w][task[w]].citations])
    /\ UNCHANGED found

(* The model's answer: evidence that names no citation of the run is        *)
(* dropped (_attach_evidence_provenance), so that some or none is left.     *)
Answer(w) ==
    /\ pc[w] = "answer"
    /\ \E cited \in BOOLEAN : Finalize(w, Result(w, task[w], found[w], cited))
    /\ UNCHANGED found

(* except HTTPException (404, 422: the target has changed), and except      *)
(* Exception (provider, model, too many manuals): the run fails.            *)
Fail(w) ==
    /\ pc[w] \in {"target", "retrieve", "context", "answer"}
    /\ Finalize(w, [copy[w][task[w]] EXCEPT !.status = "failed", !.fresh = TRUE,
                                            !.error = TRUE])
    /\ UNCHANGED found

(* The same behind the answer, whose columns are assigned by then and are   *)
(* committed with the failure (nothing rolls the session back).             *)
FailBehindAnswer(w) ==
    /\ pc[w] = "answer"
    /\ \E cited \in BOOLEAN :
          Finalize(w, [Result(w, task[w], found[w], cited) EXCEPT !.status = "failed",
                                                                 !.error = TRUE])
    /\ UNCHANGED found

(* The observation of the end.  When Redis refuses it the exception reaches *)
(* the handler of the run, which finalizes it as failed; when it refuses    *)
(* that too, the exception reaches the worker's loop.                       *)
Announce(w) ==
    /\ pc[w] = "announce"
    /\ \/ Rest(w) /\ UNCHANGED <<row, disturbed, faults>>
       \/ /\ Fault
          /\ Commit(w, task[w], [copy[w][task[w]] EXCEPT !.status = "failed",
                                                        !.fresh = TRUE, !.error = TRUE])
          /\ disturbed' = disturbed \union {task[w]}
          /\ UNCHANGED <<pc, task, found>>
    /\ UNCHANGED <<queued, expiries>>

Crash(w) ==
    /\ task[w] # NoRun \/ pc[w] = "push"
    /\ Fault /\ Rest(w)
    /\ UNCHANGED <<rowVars, disturbed, expiries>>

-----------------------------------------------------------------------------
Init ==
    /\ row = [r \in Runs |-> NoRow]
    /\ queued = [r \in Runs |-> 0]
    /\ pc = [w \in Workers |-> "scan"]
    /\ task = [w \in Workers |-> NoRun]
    /\ copy = [w \in Workers |-> [r \in Runs |-> NoRow]]
    /\ found = [w \in Workers |-> "unknown"]
    /\ disturbed = {} /\ expiries = 0 /\ faults = 0

Step(w) ==
    \/ Scan(w) \/ Requeue(w) \/ Push(w) \/ Pop(w) \/ Load(w) \/ Claim(w) \/ Target(w)
    \/ Retrieve(w) \/ Context(w) \/ Answer(w) \/ Fail(w) \/ FailBehindAnswer(w)
    \/ Announce(w)

Next ==
    \/ \E r \in Runs : CreateRun(r) \/ QueueRun(r) \/ LeaseEnds(r)
    \/ \E w \in Workers : Step(w) \/ Crash(w)

(* Workers that are alive go on, and a lease that nothing renews ends. *)
Fairness ==
    /\ \A w \in Workers : WF_vars(Step(w))
    /\ \A r \in Runs : WF_vars(LeaseEnds(r))

Spec     == Init /\ [][Next]_vars
FairSpec == Spec /\ Fairness

-----------------------------------------------------------------------------
TypeOK ==
    /\ row \in [Runs -> [status : Status, fresh : BOOLEAN, error : BOOLEAN,
                         summary : Workers \union {Nobody},
                         citations : Workers \union {Nobody},
                         evidence : Workers \union {Nobody}]]
    /\ queued \in [Runs -> Nat]
    /\ task \in [Workers -> Runs \union {NoRun}]
    /\ found \in [Workers -> {"unknown", "nothing", "cited", "context"}]
    /\ disturbed \subseteq Runs /\ expiries \in Nat /\ faults \in 0..MaxFaults

(* The verdict, the citations and the evidence of a completed run are those *)
(* of one execution, evidence cites that execution's citations, and no      *)
(* error is left of an attempt before: through crashes, requeues and second *)
(* executions, unless two executors wrote the run.                          *)
ResultOfOneExecution ==
    \A r \in Runs \ disturbed : row[r].status = "completed" =>
        /\ row[r].summary # Nobody /\ ~row[r].error
        /\ row[r].citations \in {row[r].summary, Nobody}
        /\ row[r].evidence # Nobody => row[r].evidence = row[r].citations

(* A run that has ended stays as it is, however many entries of it are left *)
(* in the queue, unless two executors wrote it or its end could not be      *)
(* announced.                                                               *)
EndStays ==
    [][\A r \in Runs : (row[r].status \in Terminal /\ r \notin disturbed')
                          => row'[r] = row[r]]_vars

(* A queued run ends, although nobody renews its lease and its push, or its *)
(* executor, may be lost.                                                   *)
RunsEnd == \A r \in Runs : row[r].status = "queued" ~> row[r].status \in Terminal

=============================================================================
