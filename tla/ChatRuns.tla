------------------------------ MODULE ChatRuns ------------------------------
(***************************************************************************)
(* The life of a chat run: the API request that creates and enqueues it,   *)
(* the worker processes that pop it from the Redis list, claim its session *)
(* and execute it, the lease recovery every worker performs, and the       *)
(* clients that cancel it (app/services/chat_service.py, app/worker.py).   *)
(*                                                                         *)
(* A step is one database commit with the refresh directly behind it, one  *)
(* Redis command, or one snapshot read.  The ORM session keeps an object   *)
(* as it was last loaded (expire_on_commit=False) and its UPDATE writes    *)
(* only the columns that differ from that copy, with no version check:     *)
(* copy[w] is the status the worker last loaded, and a write that equals   *)
(* the copy writes nothing.                                                *)
(***************************************************************************)
EXTENDS Naturals, Sequences

CONSTANTS
    Runs,         \* run ids, numbered in the order of (created_at, id)
    Sessions,     \* chat sessions
    Workers,      \* worker processes
    SessionOf,    \* the session of each run, or NoSession
    NoSession,    \* the run is not part of a session
    NoRun,        \* no run: an idle worker, a free session slot
    Cancellable,  \* the runs some client cancels (once each)
    Reasons,      \* why: "user" (the cancel route), "aborted" (a stream's client left)
    MaxFaults     \* bound: crashes, failed pushes, leases that run out early

ASSUME RunsAssumption == Runs \subseteq Nat /\ NoRun \notin Runs
ASSUME SessionAssumption ==
    /\ NoSession \notin Sessions
    /\ SessionOf \in [Runs -> Sessions \union {NoSession}]
ASSUME BoundsAssumption ==
    /\ Cancellable \subseteq Runs /\ Reasons \subseteq {"user", "aborted"}
    /\ MaxFaults \in Nat

VARIABLES
    (* rows of chat_runs *)
    status,       \* run -> its status, "none" before the row exists
    heartbeat,    \* run -> heartbeat_at: NULL, within the lease, or expired
    cancel,       \* run -> cancel_requested and its cancel_reason
    answered,     \* run -> an answer is persisted
    (* rows of chat_sessions and chat_messages *)
    slot,         \* session -> active_run_id
    transcript,   \* session -> its messages in commit order
    (* the Redis list of chat runs *)
    queue,
    (* API requests *)
    request,      \* run -> progress of the request that creates it
    canceller,    \* run -> progress of the request that cancels it
    (* worker processes *)
    pc, job, copy, goal, guarded, stale, moved,
    (* history and bounds *)
    disturbed,    \* runs that lease recovery or an API cancel has rewritten
    crashed,      \* some process or request has died
    faults        \* faults so far

rowVars    == <<status, heartbeat, cancel, answered>>
chatVars   == <<slot, transcript>>
clientVars == <<request, canceller>>
localVars  == <<pc, job, copy, goal, guarded, stale, moved>>
faultVars  == <<crashed, faults>>
vars == <<rowVars, chatVars, queue, clientVars, localVars, disturbed, faultVars>>

-----------------------------------------------------------------------------
Terminal  == {"completed", "failed", "cancelled"}
Active    == {"retrieving", "answering"}
Ordered   == {"accepted", "queued"} \union Active
Scanned   == Active \union {"queued"}
Status    == Ordered \union Terminal
Message   == [run : Runs, role : {"user", "assistant"}]

(* Steps at which a handler has claimed its run and works on it, and those  *)
(* at which it still has to release the slot it claimed.                    *)
Working == {"start", "question", "retrieve", "answer", "stream", "reply"}
Holding == Working \union {"finalize", "release"}
Steps   == Holding \union
           {"reap", "requeue", "repush", "pop", "load", "claim", "wait"}

InSession(r) == SessionOf[r] # NoSession

(* Mutant: a run waits only for older runs that are already executing. *)
OlderActiveOnly(r) == {q \in Runs : /\ q < r
                                    /\ SessionOf[q] = SessionOf[r]
                                    /\ status[q] \in Active}

(* Mutant: every other open run of the session counts as older. *)
OlderUnordered(r) == {q \in Runs \ {r} : /\ SessionOf[q] = SessionOf[r]
                                         /\ status[q] \in Ordered}

(* _session_ordering_filter: committed runs of the session ordered before r *)
Older(r) == {q \in Runs : /\ q < r
                          /\ SessionOf[q] = SessionOf[r]
                          /\ status[q] \in Ordered}

(* Mutant: the scan forgets the runs that are being executed. *)
StaleQueuedRuns == {r \in Runs : status[r] = "queued" /\ heartbeat[r] = "expired"}

(* What mark_orphaned_chat_runs_for_retry selects. *)
StaleRuns == {r \in Runs : status[r] \in Scanned /\ heartbeat[r] = "expired"}

(* Mutant: the reason is written where the status belongs. *)
ReasonAsStatus(reason) == reason

(* A cancel caused by a client that went away is reported as a failure. *)
CancelStatus(reason) == IF reason = "aborted" THEN "failed" ELSE "cancelled"

(* active_run_id := NULL where it still names one of the runs R *)
SlotFreedOf(R) ==
    [s \in Sessions |->
        IF slot[s] \in R /\ SessionOf[slot[s]] = s THEN NoRun ELSE slot[s]]

(* Mutant: any message of the run counts as the one looked for. *)
HasAnyMessage(r, role) ==
    /\ InSession(r)
    /\ \E i \in DOMAIN transcript[SessionOf[r]] : transcript[SessionOf[r]][i].run = r

HasMessage(r, role) ==
    /\ InSession(r)
    /\ \E i \in DOMAIN transcript[SessionOf[r]] :
          transcript[SessionOf[r]][i] = [run |-> r, role |-> role]

WithMessage(r, role) ==
    [transcript EXCEPT ![SessionOf[r]] = Append(@, [run |-> r, role |-> role])]

InQueue(r) == \E i \in DOMAIN queue : queue[i] = r

(* No message or process will move r on, or it executes or holds the slot    *)
(* with no executor: only lease recovery can bring it back.                  *)
Abandoned(r) ==
    /\ request[r] \in {"idle", "done"}
    /\ \A w \in Workers : r \notin stale[w] /\ ~(job[w] = r /\ pc[w] \in Holding)
    /\ \/ status[r] \in Active
       \/ InSession(r) /\ slot[SessionOf[r]] = r
       \/ ~InQueue(r) /\ \A w \in Workers : job[w] # r

-----------------------------------------------------------------------------
Init ==
    /\ status    = [r \in Runs |-> "none"]
    /\ heartbeat = [r \in Runs |-> "null"]
    /\ cancel    = [r \in Runs |-> "none"]
    /\ answered  = [r \in Runs |-> FALSE]
    /\ slot       = [s \in Sessions |-> NoRun]
    /\ transcript = [s \in Sessions |-> <<>>]
    /\ queue = <<>>
    /\ request   = [r \in Runs |-> "idle"]
    /\ canceller = [r \in Runs |-> "idle"]
    /\ pc      = [w \in Workers |-> "reap"]
    /\ job     = [w \in Workers |-> NoRun]
    /\ copy    = [w \in Workers |-> "none"]
    /\ goal    = [w \in Workers |-> "none"]
    /\ guarded = [w \in Workers |-> TRUE]
    /\ stale   = [w \in Workers |-> {}]
    /\ moved   = [w \in Workers |-> {}]
    /\ disturbed = {}
    /\ crashed = FALSE
    /\ faults = 0

-----------------------------------------------------------------------------
(* One more fault of the environment, of which there are at most MaxFaults. *)
Fault ==
    /\ faults < MaxFaults
    /\ faults' = faults + 1

Crash == Fault /\ crashed' = TRUE

(* The request that creates a run: _create_pending_run, then                *)
(* _mark_run_queued, whose commit precedes its push.                        *)

(* Rows may commit in another order than their created_at. *)
CreatePendingRun(r) ==
    /\ request[r] = "idle"
    /\ request' = [request EXCEPT ![r] = "created"]
    /\ status'  = [status EXCEPT ![r] = "accepted"]
    /\ UNCHANGED <<heartbeat, cancel, answered, chatVars, queue, canceller,
                   localVars, disturbed, faultVars>>

(* Mutant: queued without a first heartbeat. *)
MarkWithoutHeartbeat(r) ==
    /\ request[r] = "created"
    /\ request' = [request EXCEPT ![r] = "marked"]
    /\ status' = [status EXCEPT ![r] = "queued"]
    /\ UNCHANGED <<heartbeat, cancel, answered, chatVars, queue, canceller,
                   localVars, disturbed, faultVars>>

(* The request holds the row as it was when it was accepted, and writes      *)
(* "queued" over what the row has become; a streaming request loads the row  *)
(* in a new session and may see that it is no longer accepted.               *)
MarkRunQueued(r) ==
    /\ request[r] = "created"
    /\ request' = [request EXCEPT ![r] = "marked"]
    /\ \/ status' = [status EXCEPT ![r] = "queued"]
       \/ status[r] # "accepted" /\ UNCHANGED status
    /\ heartbeat' = [heartbeat EXCEPT ![r] = "fresh"]
    /\ UNCHANGED <<cancel, answered, chatVars, queue, canceller,
                   localVars, disturbed, faultVars>>

EnqueueChatRun(r) ==
    /\ request[r] = "marked"
    /\ request' = [request EXCEPT ![r] = "done"]
    /\ queue' = Append(queue, r)
    /\ UNCHANGED <<rowVars, chatVars, canceller, localVars, disturbed, faultVars>>

(* The API process dies, the push fails, or the streaming client goes away   *)
(* at a yield before the run is marked queued.                               *)
RequestTornDown(r) ==
    /\ request[r] \in {"created", "marked"}
    /\ Crash
    /\ request' = [request EXCEPT ![r] = "done"]
    /\ UNCHANGED <<rowVars, chatVars, queue, canceller, localVars, disturbed>>

-----------------------------------------------------------------------------
(* request_run_cancel: the row is read, and later written from that copy.   *)

RequestRunCancel(r) ==
    /\ r \in Cancellable /\ canceller[r] = "idle"
    /\ status[r] \in Ordered
    /\ canceller' = [canceller EXCEPT ![r] =
                        IF status[r] \in Active THEN "sawActive" ELSE "sawWaiting"]
    /\ UNCHANGED <<rowVars, chatVars, queue, request, localVars, disturbed, faultVars>>

(* The copy says accepted or queued: the request finalises the run itself. *)
CancelWaitingRun(r) ==
    /\ canceller[r] = "sawWaiting"
    /\ canceller' = [canceller EXCEPT ![r] = "release"]
    /\ \E reason \in Reasons :
          /\ cancel' = [cancel EXCEPT ![r] = reason]
          /\ status' = [status EXCEPT ![r] = CancelStatus(reason)]
    /\ heartbeat' = [heartbeat EXCEPT ![r] = "fresh"]
    /\ disturbed' = disturbed \union {r}
    /\ UNCHANGED <<answered, chatVars, queue, request, localVars, faultVars>>

CancelReleaseSlot(r) ==
    /\ canceller[r] = "release"
    /\ canceller' = [canceller EXCEPT ![r] = "done"]
    /\ slot' = SlotFreedOf({r})
    /\ UNCHANGED <<rowVars, transcript, queue, request, localVars, disturbed, faultVars>>

(* Mutant: the request ends an active run itself. *)
CancelByOverwriting(r) ==
    /\ canceller[r] = "sawActive"
    /\ canceller' = [canceller EXCEPT ![r] = "done"]
    /\ \E reason \in Reasons :
          /\ cancel' = [cancel EXCEPT ![r] = reason]
          /\ status' = [status EXCEPT ![r] = CancelStatus(reason)]
    /\ UNCHANGED <<heartbeat, answered, chatVars, queue, request,
                   localVars, disturbed, faultVars>>

(* The copy says retrieving or answering: the worker is left to notice. *)
CancelActiveRun(r) ==
    /\ canceller[r] = "sawActive"
    /\ canceller' = [canceller EXCEPT ![r] = "done"]
    /\ \E reason \in Reasons : cancel' = [cancel EXCEPT ![r] = reason]
    /\ UNCHANGED <<status, heartbeat, answered, chatVars, queue, request,
                   localVars, disturbed, faultVars>>

-----------------------------------------------------------------------------
(* The clock: heartbeat_at falls behind the lease.  It always may for an     *)
(* abandoned run; for a run that waits in the list or is being executed      *)
(* (nothing beats during retrieval, nor while a run waits) it is a fault.     *)
LeaseRunsOut(r) ==
    /\ status[r] \in Scanned /\ heartbeat[r] = "fresh"
    /\ \/ Abandoned(r) /\ UNCHANGED faults
       \/ ~Abandoned(r) /\ Fault
    /\ heartbeat' = [heartbeat EXCEPT ![r] = "expired"]
    /\ UNCHANGED <<status, cancel, answered, chatVars, queue, clientVars,
                   localVars, disturbed, crashed>>

-----------------------------------------------------------------------------
(* Worker steps.                                                            *)

Goto(w, step) == pc' = [pc EXCEPT ![w] = step]

(* The handler returns: the worker's loop starts over with lease recovery. *)
ReturnToLoop(w) ==
    /\ Goto(w, "reap")
    /\ job'     = [job EXCEPT ![w] = NoRun]
    /\ copy'    = [copy EXCEPT ![w] = "none"]
    /\ goal'    = [goal EXCEPT ![w] = "none"]
    /\ guarded' = [guarded EXCEPT ![w] = TRUE]

(* _finalize_run begins: what it will write, and whether an exception it      *)
(* raises is caught by run_chat_run (it is called inside the try body).       *)
BeginFinalize(w, outcome, inTry) ==
    /\ Goto(w, "finalize")
    /\ goal'    = [goal EXCEPT ![w] = outcome]
    /\ guarded' = [guarded EXCEPT ![w] = inTry]

(* run_chat_run reads its row and decides.                                   *)
Load(w) ==
    LET r == job[w] IN
    \/ /\ status[r] \in Terminal
       /\ ReturnToLoop(w)
    \/ /\ status[r] \in {"accepted", "queued"} /\ cancel[r] # "none"
       /\ BeginFinalize(w, CancelStatus(cancel[r]), TRUE)
       /\ copy' = [copy EXCEPT ![w] = status[r]]
       /\ UNCHANGED job
    \/ /\ status[r] \in Ordered
       /\ status[r] \in Active \/ cancel[r] = "none"
       /\ Goto(w, "claim")
       /\ copy' = [copy EXCEPT ![w] = status[r]]
       /\ UNCHANGED <<job, goal, guarded>>

(* BLPOP removes the message; nothing acknowledges it later. *)
Pop(w) ==
    /\ queue # <<>>
    /\ job' = [job EXCEPT ![w] = Head(queue)]
    /\ queue' = Tail(queue)
    /\ Goto(w, "reap")

(* mark_orphaned_chat_runs_for_retry: the SELECT ...  The worker's loop and  *)
(* run_chat_run both start with it.  When nothing is stale the loop pops a   *)
(* message, and run_chat_run reads its own row in the same snapshot.  A      *)
(* lease that runs out between such a scan and the pop is taken to have done *)
(* so behind the pop: the handler scans again before it reads its row.       *)
SelectStaleRuns(w) ==
    /\ pc[w] = "reap"
    /\ \/ /\ StaleRuns # {}
          /\ Goto(w, "requeue")
          /\ stale' = [stale EXCEPT ![w] = StaleRuns]
          /\ moved' = [moved EXCEPT ![w] = {r \in StaleRuns : status[r] \in Active}]
          /\ UNCHANGED <<queue, job, copy, goal, guarded>>
       \/ /\ StaleRuns = {} /\ job[w] = NoRun
          /\ Pop(w)
          /\ UNCHANGED <<copy, goal, guarded, stale, moved>>
       \/ /\ StaleRuns = {} /\ job[w] # NoRun
          /\ Load(w)
          /\ UNCHANGED <<queue, stale, moved>>
    /\ UNCHANGED <<rowVars, chatVars, clientVars, disturbed, faultVars>>

(* ... and, later, the one commit that writes what was selected: the rows    *)
(* read as active become queued, all get a new heartbeat and lose the slot.  *)
RequeueStaleRuns(w) ==
    /\ pc[w] = "requeue"
    /\ Goto(w, "repush")
    /\ status' = [r \in Runs |-> IF r \in moved[w] THEN "queued" ELSE status[r]]
    /\ heartbeat' = [r \in Runs |-> IF r \in stale[w] THEN "fresh" ELSE heartbeat[r]]
    /\ slot' = SlotFreedOf(stale[w])
    /\ moved' = [moved EXCEPT ![w] = {}]
    /\ disturbed' = disturbed \union stale[w]
    /\ UNCHANGED <<cancel, answered, transcript, queue, clientVars, job, copy,
                   goal, guarded, stale, faultVars>>

(* The pushes follow the commit one by one, in no particular order. *)
PushRequeuedRun(w) ==
    /\ pc[w] = "repush"
    /\ \E r \in stale[w] :
          /\ queue' = Append(queue, r)
          /\ stale' = [stale EXCEPT ![w] = @ \ {r}]
          /\ IF stale[w] # {r} THEN UNCHANGED pc
             ELSE Goto(w, IF job[w] = NoRun THEN "pop" ELSE "load")
    /\ UNCHANGED <<rowVars, chatVars, clientVars, job, copy, goal, guarded,
                   moved, disturbed, faultVars>>

PopAfterRequeue(w) ==
    /\ pc[w] = "pop"
    /\ Pop(w)
    /\ UNCHANGED <<rowVars, chatVars, clientVars, copy, goal, guarded, stale,
                   moved, disturbed, faultVars>>

(* BLPOP times out: the loop starts over. *)
PopTimesOut(w) ==
    /\ pc[w] = "pop" /\ queue = <<>>
    /\ Goto(w, "reap")
    /\ UNCHANGED <<rowVars, chatVars, queue, clientVars, job, copy, goal, guarded,
                   stale, moved, disturbed, faultVars>>

LoadAfterRequeue(w) ==
    /\ pc[w] = "load"
    /\ Load(w)
    /\ UNCHANGED <<rowVars, chatVars, queue, clientVars, stale, moved, disturbed,
                   faultVars>>

(* Mutant: the claim does not ask whether the slot is free. *)
ClaimOccupiedSlot(w) ==
    LET r == job[w] IN
    /\ pc[w] = "claim"
    /\ IF ~InSession(r) \/ Older(r) = {} THEN Goto(w, "start") ELSE Goto(w, "wait")
    /\ slot' = IF InSession(r) /\ Older(r) = {}
               THEN [slot EXCEPT ![SessionOf[r]] = r] ELSE slot
    /\ UNCHANGED <<rowVars, transcript, queue, clientVars, job, copy, goal,
                   guarded, stale, moved, disturbed, faultVars>>

(* _claim_session_slot: one UPDATE, true when it changed the session's row.  *)
(* A run without a session is always claimed.  The row read after it is the  *)
(* cached object: copy[w] stays as loaded.                                   *)
ClaimSessionSlot(w) ==
    LET r == job[w] IN
    /\ pc[w] = "claim"
    /\ \/ /\ ~InSession(r)
          /\ Goto(w, "start")
          /\ UNCHANGED slot
       \/ /\ InSession(r)
          /\ slot[SessionOf[r]] = NoRun /\ Older(r) = {}
          /\ slot' = [slot EXCEPT ![SessionOf[r]] = r]
          /\ Goto(w, "start")
       \/ /\ InSession(r)
          /\ slot[SessionOf[r]] # NoRun \/ Older(r) # {}
          /\ Goto(w, "wait")
          /\ UNCHANGED slot
    /\ UNCHANGED <<rowVars, transcript, queue, clientVars, job, copy, goal,
                   guarded, stale, moved, disturbed, faultVars>>

(* The slot is taken: after a sleep the message goes back to the list's end, *)
(* with no new heartbeat.                                                    *)
RequeueWaitingRun(w) ==
    /\ pc[w] = "wait"
    /\ queue' = Append(queue, job[w])
    /\ ReturnToLoop(w)
    /\ UNCHANGED <<rowVars, chatVars, clientVars, stale, moved, disturbed, faultVars>>

(* An ORM commit of the run's row: status if it differs from the copy, and a *)
(* new heartbeat.                                                            *)
CommitRun(w, value) ==
    /\ status' = IF copy[w] = value THEN status
                 ELSE [status EXCEPT ![job[w]] = value]
    /\ heartbeat' = [heartbeat EXCEPT ![job[w]] = "fresh"]

(* The refresh that follows a commit opens the snapshot the next cancel check *)
(* reads; a cancel request raises ChatRunCancelled.                           *)
RefreshAndCheck(w, step) ==
    LET r == job[w] IN
    /\ copy' = [copy EXCEPT ![w] = status'[r]]
    /\ \/ /\ cancel[r] = "none"
          /\ Goto(w, step)
          /\ UNCHANGED <<goal, guarded>>
       \/ /\ cancel[r] # "none"
          /\ BeginFinalize(w, CancelStatus(cancel[r]), FALSE)

(* append_message will look for the run's question in the same snapshot. *)
StartRetrieving(w) ==
    /\ pc[w] = "start"
    /\ CommitRun(w, "retrieving")
    /\ RefreshAndCheck(w, IF InSession(job[w]) /\ ~HasMessage(job[w], "user")
                          THEN "question" ELSE "retrieve")
    /\ UNCHANGED <<cancel, answered, chatVars, queue, clientVars, job, stale, moved,
                   disturbed, faultVars>>

AppendQuestion(w) ==
    /\ pc[w] = "question"
    /\ transcript' = WithMessage(job[w], "user")
    /\ Goto(w, "retrieve")
    /\ UNCHANGED <<rowVars, slot, queue, clientVars, job, copy, goal, guarded,
                   stale, moved, disturbed, faultVars>>

(* After the model calls of the retrieval: _touch_run_heartbeat. *)
TouchHeartbeat(w) ==
    /\ pc[w] = "retrieve"
    /\ heartbeat' = [heartbeat EXCEPT ![job[w]] = "fresh"]
    /\ UNCHANGED status
    /\ RefreshAndCheck(w, "answer")
    /\ UNCHANGED <<cancel, answered, chatVars, queue, clientVars, job, stale, moved,
                   disturbed, faultVars>>

(* stream_final_answer_and_persist: "answering" is committed before the      *)
(* cancel check that follows it.                                             *)
StartAnswering(w) ==
    /\ pc[w] = "answer"
    /\ CommitRun(w, "answering")
    /\ RefreshAndCheck(w, "stream")
    /\ UNCHANGED <<cancel, answered, chatVars, queue, clientVars, job, stale, moved,
                   disturbed, faultVars>>

(* While chunks arrive the hot path beats and polls the cancel flag, both in *)
(* sessions of their own: the copy is not refreshed.                         *)
StreamChunk(w) ==
    LET r == job[w] IN
    /\ pc[w] = "stream"
    /\ \/ /\ heartbeat[r] # "fresh"
          /\ heartbeat' = [heartbeat EXCEPT ![r] = "fresh"]
          /\ UNCHANGED <<pc, goal, guarded>>
       \/ /\ cancel[r] # "none"
          /\ BeginFinalize(w, CancelStatus(cancel[r]), FALSE)
          /\ UNCHANGED heartbeat
    /\ UNCHANGED <<status, cancel, answered, chatVars, queue, clientVars, job, copy,
                   stale, moved, disturbed, faultVars>>

(* The answer is committed and the row refreshed; append_message then looks  *)
(* for the reply in that snapshot.                                           *)
PersistAnswer(w) ==
    LET r == job[w] IN
    /\ pc[w] = "stream"
    /\ answered' = [answered EXCEPT ![r] = TRUE]
    /\ heartbeat' = [heartbeat EXCEPT ![r] = "fresh"]
    /\ copy' = [copy EXCEPT ![w] = status[r]]
    /\ IF InSession(r) /\ ~HasMessage(r, "assistant")
       THEN Goto(w, "reply") /\ UNCHANGED <<goal, guarded>>
       ELSE BeginFinalize(w, "completed", TRUE)
    /\ UNCHANGED <<status, cancel, chatVars, queue, clientVars, job, stale, moved,
                   disturbed, faultVars>>

AppendReply(w) ==
    /\ pc[w] = "reply"
    /\ transcript' = WithMessage(job[w], "assistant")
    /\ BeginFinalize(w, "completed", TRUE)
    /\ UNCHANGED <<rowVars, slot, queue, clientVars, job, copy, stale, moved,
                   disturbed, faultVars>>

(* Loading the run's data, retrieval, the provider or an event fails, or     *)
(* what follows the reply before a completing _finalize_run begins.          *)
ExecutionFails(w) ==
    /\ \/ pc[w] \in Working \ {"start"}
       \/ pc[w] = "finalize" /\ goal[w] = "completed"
    /\ BeginFinalize(w, "failed", FALSE)
    /\ UNCHANGED <<rowVars, chatVars, queue, clientVars, job, copy, stale, moved,
                   disturbed, faultVars>>

(* _finalize_run: the status is committed and refreshed, then the slot is    *)
(* released by a commit of its own, then the terminal events are published.  *)
FinalizeRun(w) ==
    /\ pc[w] = "finalize"
    /\ CommitRun(w, goal[w])
    /\ copy' = [copy EXCEPT ![w] = status'[job[w]]]
    /\ Goto(w, "release")
    /\ UNCHANGED <<cancel, answered, chatVars, queue, clientVars, job, goal, guarded,
                   stale, moved, disturbed, faultVars>>

(* Mutant: the run ends and keeps its slot. *)
EndWithoutRelease(w) ==
    /\ pc[w] = "release"
    /\ ReturnToLoop(w)
    /\ UNCHANGED <<rowVars, chatVars, queue, clientVars, stale, moved, disturbed,
                   faultVars>>

(* When Redis refuses an event inside the try body, run_chat_run handles the *)
(* exception as a failure of the run and finalises it again.                 *)
ReleaseSessionSlot(w) ==
    /\ pc[w] = "release"
    /\ slot' = SlotFreedOf({job[w]})
    /\ \/ ReturnToLoop(w)
       \/ guarded[w] /\ BeginFinalize(w, "failed", FALSE) /\ UNCHANGED <<job, copy>>
    /\ UNCHANGED <<rowVars, transcript, queue, clientVars, stale, moved, disturbed,
                   faultVars>>

(* A push fails: in the worker's loop the loop starts over, in run_chat_run  *)
(* the run that was popped is finalised as failed, claimed or not.           *)
PushFails(w) ==
    /\ \/ pc[w] = "repush" \/ pc[w] = "wait"
    /\ Fault
    /\ stale' = [stale EXCEPT ![w] = {}]
    /\ \/ /\ job[w] = NoRun
          /\ ReturnToLoop(w)
       \/ /\ job[w] # NoRun
          /\ BeginFinalize(w, "failed", FALSE)
          /\ copy' = IF pc[w] = "wait" THEN copy
                     ELSE [copy EXCEPT ![w] = status[job[w]]]
          /\ UNCHANGED job
    /\ UNCHANGED <<rowVars, chatVars, queue, clientVars, moved, disturbed, crashed>>

(* The process dies, or the handler or loop is left by an exception of the   *)
(* database or of LLEN; the supervisor starts a new process.                 *)
WorkerDies(w) ==
    /\ pc[w] \notin {"reap", "pop"} \/ job[w] # NoRun
    /\ Crash
    /\ ReturnToLoop(w)
    /\ stale' = [stale EXCEPT ![w] = {}]
    /\ moved' = [moved EXCEPT ![w] = {}]
    /\ UNCHANGED <<rowVars, chatVars, queue, clientVars, disturbed>>

-----------------------------------------------------------------------------
Execute(w) ==
    \/ StartRetrieving(w) \/ AppendQuestion(w) \/ TouchHeartbeat(w)
    \/ StartAnswering(w) \/ StreamChunk(w) \/ PersistAnswer(w) \/ AppendReply(w)
    \/ ExecutionFails(w)
    \/ FinalizeRun(w) \/ ReleaseSessionSlot(w)

WorkerStep(w) ==
    \/ SelectStaleRuns(w) \/ RequeueStaleRuns(w) \/ PushRequeuedRun(w)
    \/ PopAfterRequeue(w) \/ PopTimesOut(w) \/ LoadAfterRequeue(w)
    \/ ClaimSessionSlot(w) \/ RequeueWaitingRun(w) \/ PushFails(w)
    \/ Execute(w)

RequestStep(r) == CreatePendingRun(r) \/ MarkRunQueued(r) \/ EnqueueChatRun(r)

CancelStep(r) ==
    \/ RequestRunCancel(r) \/ CancelWaitingRun(r)
    \/ CancelReleaseSlot(r) \/ CancelActiveRun(r)

Next ==
    \/ \E r \in Runs : \/ RequestStep(r) \/ RequestTornDown(r)
                       \/ CancelStep(r) \/ LeaseRunsOut(r)
    \/ \E w \in Workers : WorkerStep(w) \/ WorkerDies(w)

Spec == Init /\ [][Next]_vars

(* A worker process keeps running its loop, a request that has created a run *)
(* goes on to enqueue it, and time passes for a run nobody holds.  Clients   *)
(* need not create or cancel anything.                                       *)
Fairness ==
    /\ \A w \in Workers : WF_vars(WorkerStep(w))
    /\ \A r \in Runs : /\ WF_vars(MarkRunQueued(r) \/ EnqueueChatRun(r))
                       /\ WF_vars(LeaseRunsOut(r) /\ Abandoned(r))

FairSpec == Spec /\ Fairness

-----------------------------------------------------------------------------
(* Properties. *)

RowTypes ==
    /\ status \in [Runs -> Status \union {"none"}]
    /\ heartbeat \in [Runs -> {"null", "fresh", "expired"}]
    /\ cancel \in [Runs -> Reasons \union {"none"}]
    /\ answered \in [Runs -> BOOLEAN]

ChatTypes ==
    /\ slot \in [Sessions -> Runs \union {NoRun}]
    /\ transcript \in [Sessions -> Seq(Message)]
    /\ queue \in Seq(Runs)

ClientTypes ==
    /\ request \in [Runs -> {"idle", "created", "marked", "done"}]
    /\ canceller \in [Runs -> {"idle", "sawWaiting", "sawActive", "release", "done"}]

WorkerTypes ==
    /\ pc \in [Workers -> Steps]
    /\ job \in [Workers -> Runs \union {NoRun}]
    /\ copy \in [Workers -> Status \union {"none"}]
    /\ goal \in [Workers -> Terminal \union {"none"}]
    /\ guarded \in [Workers -> BOOLEAN]
    /\ stale \in [Workers -> SUBSET Runs]
    /\ moved \in [Workers -> SUBSET Runs]

HistoryTypes ==
    /\ disturbed \subseteq Runs
    /\ crashed \in BOOLEAN
    /\ faults \in 0..MaxFaults

(* A handler has a run, a worker between handlers has none, and a             *)
(* finalisation knows the outcome it writes.                                 *)
LocalFits ==
    \A w \in Workers :
        /\ pc[w] \notin {"reap", "requeue", "repush", "pop"} => job[w] # NoRun
        /\ pc[w] = "pop" => job[w] = NoRun
        /\ pc[w] \in {"finalize", "release"} => goal[w] # "none"

(* Every variable keeps its type, and a worker's local state fits its step.  *)
TypeOK ==
    /\ RowTypes /\ ChatTypes /\ ClientTypes
    /\ WorkerTypes /\ HistoryTypes /\ LocalFits

(* A completed run has its turn on record: an answer, and in a session its   *)
(* question followed by its reply (PersistAnswer and AppendReply precede     *)
(* every completing _finalize_run, whoever executes the run and how often).  *)
HasTurn(r) ==
    /\ answered[r]
    /\ InSession(r) => LET t == transcript[SessionOf[r]] IN
          \E i, j \in DOMAIN t : /\ i < j
                                 /\ t[i] = [run |-> r, role |-> "user"]
                                 /\ t[j] = [run |-> r, role |-> "assistant"]

CompletedHasTurn == \A r \in Runs : status[r] = "completed" => HasTurn(r)

(* A run that is queued or executing always carries a heartbeat, whoever     *)
(* wrote the row last, so the scan for expired leases (which skips NULL) can *)
(* reach it once its message or its worker is lost.                          *)
Recoverable == \A r \in Runs : status[r] \in Scanned => heartbeat[r] # "null"

(* As long as nothing crashed, a session's active_run_id names a run some    *)
(* worker claimed and will release: recovery, cancellation and a second      *)
(* executor may take a slot away, never leave one behind.                    *)
SlotHasHolder ==
    ~crashed =>
        \A s \in Sessions : slot[s] # NoRun =>
            \E w \in Workers : job[w] = slot[s] /\ pc[w] \in Holding

(* "The same session can only have one active run at a time", for the runs   *)
(* that neither lease recovery nor an API cancel has rewritten: two of them, *)
(* or one of them twice, are never executed at once in a session.            *)
ExclusiveTurns ==
    \A v, w \in Workers :
        /\ v # w
        /\ pc[v] \in Working /\ pc[w] \in Working
        /\ job[v] \notin disturbed /\ job[w] \notin disturbed
        => \/ SessionOf[job[v]] # SessionOf[job[w]]
           \/ ~InSession(job[v]) /\ job[v] # job[w]

(* In a session's transcript, without the messages of disturbed runs, every  *)
(* reply directly follows its own question and answers it once.              *)
TurnsContiguous ==
    \A s \in Sessions :
        LET t == transcript[s]
        IN  \A i \in DOMAIN t : t[i].role = "assistant" /\ t[i].run \notin disturbed =>
                \E j \in DOMAIN t :
                    /\ j < i /\ t[j] = [run |-> t[i].run, role |-> "user"]
                    /\ \A k \in DOMAIN t : j < k /\ k < i => t[k].run \in disturbed

(* The phase of a run in the service SessionTurns promises: it is served     *)
(* from the moment its session's slot is its own until its status is final.  *)
Phase(r) ==
    IF r \in disturbed THEN "disturbed" ELSE
    CASE status[r] = "none"      -> "absent"
      [] status[r] \in Terminal  -> "served"
      [] status[r] \in Active    -> "serving"
      [] OTHER -> IF InSession(r) /\ slot[SessionOf[r]] = r THEN "serving" ELSE "waiting"

Turns == INSTANCE SessionTurns WITH phase <- [r \in Runs |-> Phase(r)]

(* Claims, executions, releases and recoveries implement that service: a     *)
(* session's undisturbed runs are served one at a time, once, oldest first.  *)
ServesTurns == Turns!Spec

(* The status of a run that ended changes again only if lease recovery or an *)
(* API cancel rewrote it, or to "failed" when its events cannot be published.*)
EndedStaysEnded ==
    [][\A r \in Runs :
          status[r] \in Terminal /\ r \notin disturbed' =>
              status'[r] \in {status[r], "failed"}]_vars

(* The state diagram of docs/phase4_9: completed, cancelled and failed have  *)
(* no transition but to the end.                                             *)
TerminalIsFinal ==
    [][\A r \in Runs : status[r] \in Terminal => status'[r] = status[r]]_vars

(* docs/phase4_9: "The same session can only have one active run at a time." *)
OneActiveRunPerSession ==
    \A q, r \in Runs :
        /\ q # r /\ InSession(q) /\ SessionOf[q] = SessionOf[r]
        => ~(status[q] \in Active /\ status[r] \in Active)

(* A session is blocked for r for good: its slot was left behind by a run    *)
(* that ended, or an older run was accepted and never queued.                *)
Blocked(r) ==
    /\ InSession(r)
    /\ \/ LET q == slot[SessionOf[r]] IN
              /\ q # NoRun /\ status[q] \in Terminal
              /\ \A w \in Workers : ~(job[w] = q /\ pc[w] \in Holding)
       \/ \E q \in Older(r) : status[q] = "accepted" /\ request[q] = "done"

(* Every run that was queued or whose execution began ends, however often    *)
(* workers die and leases expire, unless a crash left its session blocked.   *)
QueuedRunsEnd ==
    \A r \in Runs :
        status[r] \in Scanned ~> (status[r] \in Terminal \/ (crashed /\ Blocked(r)))
=============================================================================
