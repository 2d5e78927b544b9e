--------------------------- MODULE ChatEventStream ---------------------------
(***************************************************************************)
(* The event stream of one chat run: the SSE request that creates the run, *)
(* subscribes to its channel, enqueues it and forwards what is published   *)
(* until the run ends (stream_skill_run_events), the workers and the       *)
(* cancel route that publish, and the channel between them: Redis pub/sub, *)
(* which forgets what nobody listens to, or the in-process event bus.      *)
(*                                                                         *)
(* A step is one database commit, one snapshot read, or one publication.   *)
(* ChatRuns has the life of the run in detail; here "active" stands for    *)
(* retrieving and answering, and the session's slot is left out.           *)
(***************************************************************************)
EXTENDS Naturals, Sequences, FiniteSets

CONSTANTS
    Workers,      \* worker processes
    Backends,     \* the task queue backends considered: "redis", "local"
    Chunks,       \* what one execution publishes before its end, in order
    MaxFaults     \* bound: lost connections, failed commands, crashes, recoveries

ASSUME BackendsAssumption == Backends \subseteq {"redis", "local"}
ASSUME WorkersAssumption  == "api" \notin Workers /\ "stream" \notin Workers
ASSUME ChunksAssumption   == Chunks \in Seq(STRING)
ASSUME FaultsAssumption   == MaxFaults \in Nat

VARIABLES
    backend,      \* settings.task_queue_backend
    status,       \* status of the run's row, "none" before it exists
    cancel,       \* cancel_requested with its reason
    reached,      \* history: the terminal statuses the row has had
    queue,        \* entries for the run in the list of chat runs
    job,          \* process -> what it does for the run
    out,          \* process -> events it still has to publish
    inbox,        \* what the subscription holds and has not handed out
    owed,         \* history: events of the executions published, not yielded
    stream,       \* where the SSE generator is
    told,         \* the end it told the client of, "none" before
    gone,         \* the client has disconnected
    lossy,        \* history: a publication or the subscription has failed
    faults

rowVars     == <<backend, status, cancel, reached, queue>>
workVars    == <<job, out>>
channelVars == <<inbox, owed>>
clientVars  == <<stream, told, gone>>
faultVars   == <<lossy, faults>>
vars == <<rowVars, workVars, channelVars, clientVars, faultVars>>

-----------------------------------------------------------------------------
Terminal   == {"completed", "failed", "cancelled"}
Processes  == Workers \union {"api", "stream"}
Streaming  == {"check", "wait", "poll", "stopped"}   \* inside the while loop
Subscribed == stream \in Streaming \union {"enqueue", "leave"}

Status(v) == [event |-> "status", value |-> v]
Work(c)   == [event |-> "work", value |-> c]    \* status, context, answer_delta
Done      == [event |-> "run_completed", value |-> "completed"]
Failed    == [event |-> "error", value |-> "failed"]
Closed    == [event |-> "closed", value |-> "none"]     \* LocalChatEventBus.close

WorkEvents == {Work(Chunks[i]) : i \in DOMAIN Chunks}
EndEvents  == {Done, Failed, Status("cancelled")}
Events     == WorkEvents \union EndEvents \union {Status(t) : t \in Terminal} \union {Closed}

IsWork(e) == e \in WorkEvents

(* Mutant: every end is announced as a completion. *)
EndsCompleted(t) ==
    <<Status(t), Done>> \o (IF backend = "local" THEN <<Closed>> ELSE <<>>)

(* What _finalize_run publishes behind its commit; only the in-process bus  *)
(* is closed (close_chat_event_stream).                                     *)
TerminalEvents(t) ==
    <<Status(t)>>
      \o (CASE t = "completed" -> <<Done>> [] t = "failed" -> <<Failed>> [] OTHER -> <<>>)
      \o (IF backend = "local" THEN <<Closed>> ELSE <<>>)

(* Mutant: the reason is written where the status belongs. *)
ReasonAsStatus(reason) == reason

CancelStatus(reason) == IF reason = "aborted" THEN "failed" ELSE "cancelled"

(* A message reaches the subscription that exists when it is published. *)
Deliver(e) == IF Subscribed THEN Append(inbox, e) ELSE inbox

Fault == faults < MaxFaults /\ faults' = faults + 1

(* The subscription is closed with the generator, whatever it still holds. *)
CloseStream(t) == /\ stream' = "closed"
                  /\ told' = t
                  /\ inbox' = <<>> /\ owed' = <<>>

-----------------------------------------------------------------------------
(* _finalize_run: commit the terminal status, whatever the row holds, then  *)
(* publish.                                                                 *)
Finalize(p, t, ends) ==
    /\ status' = t
    /\ reached' = reached \union {t}
    /\ out' = [out EXCEPT ![p] = TerminalEvents(t)]
    /\ job' = [job EXCEPT ![p] = ends]

(* request_run_cancel: its reading and its writing, which ChatRuns has      *)
(* apart, are one step here.                                                *)
RequestRunCancel(p, reason) ==
    \/ /\ status \in Terminal
       /\ UNCHANGED <<status, reached, cancel, out, job>>
    \/ /\ status \in {"accepted", "queued"}
       /\ cancel' = reason
       /\ Finalize(p, CancelStatus(reason), "unguarded")
    \/ /\ status = "active"
       /\ cancel' = reason
       /\ UNCHANGED <<status, reached, out, job>>

(*************************** the SSE generator *****************************)
(* stream_skill_run_events: _create_pending_run, then "accepted" *)
Create ==
    /\ stream = "create"
    /\ stream' = "subscribe"
    /\ status' = "accepted"
    /\ UNCHANGED <<backend, cancel, reached, queue, workVars, channelVars, told, gone, faultVars>>

(* open_chat_event_subscription *)
Subscribe ==
    /\ stream = "subscribe"
    /\ stream' = "enqueue"
    /\ inbox' = <<>>
    /\ UNCHANGED <<rowVars, workVars, owed, told, gone, faultVars>>

(* _mark_run_queued: the run may have been cancelled meanwhile, it is       *)
(* pushed all the same.                                                     *)
MarkQueued ==
    /\ stream = "enqueue"
    /\ stream' = "check"
    /\ status' = IF status = "accepted" THEN "queued" ELSE status
    /\ queue' = queue + 1
    /\ UNCHANGED <<backend, cancel, reached, workVars, channelVars, told, gone, faultVars>>

(* The push fails behind the commit: the route reports an error. *)
MarkQueuedFails ==
    /\ stream = "enqueue" /\ backend = "redis" /\ Fault
    /\ status' = IF status = "accepted" THEN "queued" ELSE status
    /\ CloseStream("broken")
    /\ UNCHANGED <<backend, cancel, reached, queue, workVars, gone, lossy>>

(* disconnect_check, and the cancellation of an abandoned run *)
Check ==
    /\ stream = "check" /\ ~gone
    /\ stream' = "wait"
    /\ UNCHANGED <<rowVars, workVars, channelVars, told, gone, faultVars>>

CheckGone ==
    /\ stream = "check" /\ gone
    /\ RequestRunCancel("stream", "aborted")
    /\ stream' = "leave"
    /\ UNCHANGED <<backend, queue, channelVars, told, gone, faultVars>>

(* asyncio.CancelledError behind request_run_cancel's publications *)
LeaveLoop ==
    /\ stream = "leave" /\ out["stream"] = <<>>
    /\ CloseStream(told)
    /\ UNCHANGED <<rowVars, workVars, gone, faultVars>>

(* next_event hands out an event; the stream ends at the first final one. *)
NextEvent ==
    /\ stream = "wait" /\ inbox # <<>>
    /\ LET e == Head(inbox) IN
          \/ /\ e \in EndEvents
             /\ CloseStream(e.value)
          \/ /\ e = Closed
             /\ stream' = "stopped" /\ inbox' = Tail(inbox)
             /\ UNCHANGED <<owed, told>>
          \/ /\ e \notin EndEvents \union {Closed}
             /\ stream' = "check" /\ inbox' = Tail(inbox)
             /\ owed' = IF IsWork(e) /\ owed # <<>> THEN Tail(owed) ELSE owed
             /\ UNCHANGED told
    /\ UNCHANGED <<rowVars, workVars, gone, faultVars>>

(* Mutant: a timeout drops the message that arrives with it. *)
TimeoutDropsEvent ==
    /\ stream = "wait"
    /\ stream' = "poll"
    /\ inbox' = IF inbox = <<>> THEN <<>> ELSE Tail(inbox)
    /\ UNCHANGED <<rowVars, workVars, owed, told, gone, faultVars>>

(* next_event times out: of a message that has arrived, the wait hands it   *)
(* out; one that arrives later arrives behind this step.                    *)
Timeout ==
    /\ stream = "wait" /\ inbox = <<>>
    /\ stream' = "poll"
    /\ UNCHANGED <<rowVars, workVars, channelVars, told, gone, faultVars>>

(* Mutant: the poll forgets that a run may end cancelled. *)
PollWithoutCancelled ==
    /\ stream = "poll"
    /\ \/ /\ status \in {"completed", "failed"}
          /\ CloseStream(status)
       \/ /\ status \notin {"completed", "failed"}
          /\ stream' = "check" /\ UNCHANGED <<told, channelVars>>
    /\ UNCHANGED <<rowVars, workVars, gone, faultVars>>

(* the snapshot read behind a timeout *)
Poll ==
    /\ stream = "poll"
    /\ \/ /\ status \in Terminal
          /\ CloseStream(status)
       \/ /\ status \notin Terminal
          /\ stream' = "check" /\ UNCHANGED <<told, channelVars>>
    /\ UNCHANGED <<rowVars, workVars, gone, faultVars>>

(* the snapshot read behind StopAsyncIteration: the stream ends anyway *)
Stopped ==
    /\ stream = "stopped"
    /\ CloseStream(IF status \in Terminal THEN status ELSE told)
    /\ UNCHANGED <<rowVars, workVars, gone, faultVars>>

(* The pub/sub connection breaks: redis-py resubscribes, and what was       *)
(* published meanwhile is lost, or it gives up and the route reports an     *)
(* error (run_skill_stream).                                                *)
ConnectionBreaks ==
    /\ Subscribed /\ stream # "leave" /\ backend = "redis" /\ Fault
    /\ lossy' = TRUE /\ owed' = <<>>
    /\ \/ inbox' = <<>> /\ UNCHANGED <<stream, told>>
       \/ stream = "wait" /\ CloseStream("broken")
    /\ UNCHANGED <<rowVars, workVars, gone>>

(* The client goes away; the server may cancel the response's task before   *)
(* the loop asks for it, and then nobody cancels the run.                   *)
ClientLeaves ==
    /\ ~gone /\ stream \notin {"create", "closed"}
    /\ gone' = TRUE
    /\ UNCHANGED <<rowVars, workVars, channelVars, stream, told, faultVars>>

ResponseCancelled ==
    /\ gone /\ stream \notin {"create", "closed", "leave"}
    /\ CloseStream(told)
    /\ UNCHANGED <<rowVars, workVars, gone, faultVars>>

(******************************** publishers *******************************)
(* cancel_run: the cancel route; a second cancel for the same reason writes *)
(* nothing new.                                                             *)
ApiCancel ==
    /\ status # "none" /\ out["api"] = <<>> /\ cancel # "user"
    /\ RequestRunCancel("api", "user")
    /\ UNCHANGED <<backend, queue, channelVars, clientVars, faultVars>>

(* run_chat_run up to the claim *)
Claim(w) ==
    /\ job[w] = "idle" /\ queue > 0
    /\ queue' = queue - 1
    /\ \/ /\ status \in Terminal
          /\ UNCHANGED <<status, reached, job, out>>
       \/ /\ status \in {"accepted", "queued"} /\ cancel # "no"
          /\ Finalize(w, CancelStatus(cancel), "guarded")
       \/ /\ status \notin Terminal
          /\ ~(status \in {"accepted", "queued"} /\ cancel # "no")
          /\ status' = "active"
          /\ job' = [job EXCEPT ![w] = "retrieve"]
          /\ UNCHANGED <<reached, out>>
    /\ UNCHANGED <<backend, cancel, channelVars, clientVars, faultVars>>

(* stream_final_answer_and_persist: "answering" is written whatever the row *)
(* holds, then the answer is published.                                     *)
Answer(w) ==
    /\ job[w] = "retrieve" /\ out[w] = <<>>
    /\ status' = "active"
    /\ job' = [job EXCEPT ![w] = "answer"]
    /\ out' = [out EXCEPT ![w] = [i \in DOMAIN Chunks |-> Work(Chunks[i])]]
    /\ UNCHANGED <<backend, cancel, reached, queue, channelVars, clientVars, faultVars>>

(* the answer is persisted: _finalize_run inside the try *)
Complete(w) ==
    /\ job[w] = "answer" /\ out[w] = <<>>
    /\ Finalize(w, "completed", "guarded")
    /\ UNCHANGED <<backend, cancel, queue, channelVars, clientVars, faultVars>>

(* except ChatRunCancelled, except Exception: _finalize_run outside the try *)
Abort(w) ==
    /\ job[w] \in {"retrieve", "answer"}
    /\ \/ cancel # "no" /\ Finalize(w, CancelStatus(cancel), "unguarded")
       \/ Finalize(w, "failed", "unguarded")
    /\ UNCHANGED <<backend, cancel, queue, channelVars, clientVars, faultVars>>

(* One event of p is out; behind the last terminal one the handler returns. *)
Advance(p) ==
    /\ out' = [out EXCEPT ![p] = Tail(@)]
    /\ job' = IF job[p] \in {"guarded", "unguarded"} /\ Len(out[p]) = 1
              THEN [job EXCEPT ![p] = "idle"] ELSE job

(* publish_chat_event *)
Publish(p) ==
    /\ out[p] # <<>>
    /\ inbox' = Deliver(Head(out[p]))
    /\ owed' = IF IsWork(Head(out[p])) /\ ~lossy
               THEN Append(owed, Head(out[p])) ELSE owed
    /\ Advance(p)
    /\ UNCHANGED <<rowVars, clientVars, faultVars>>

(* _publish_redis_channel_event: the reply of the first attempt is lost,    *)
(* the second one publishes again.                                          *)
PublishTwice(p) ==
    /\ backend = "redis" /\ out[p] # <<>> /\ Fault
    /\ lossy' = TRUE /\ owed' = <<>>
    /\ inbox' = IF Subscribed THEN inbox \o <<Head(out[p]), Head(out[p])>> ELSE inbox
    /\ Advance(p)
    /\ UNCHANGED <<rowVars, clientVars>>

(* Both attempts fail, the event may be out all the same.  Inside the try   *)
(* of run_chat_run the run ends failed, even one whose "completed" is       *)
(* committed already; elsewhere the exception leaves the handler.           *)
PublishFails(p) ==
    /\ backend = "redis" /\ out[p] # <<>> /\ Fault
    /\ lossy' = TRUE /\ owed' = <<>>
    /\ inbox' \in {inbox, Deliver(Head(out[p]))}
    /\ \/ /\ job[p] \in {"retrieve", "answer", "guarded"}
          /\ Finalize(p, "failed", "unguarded")
       \/ /\ job[p] \notin {"retrieve", "answer", "guarded"}
          /\ out' = [out EXCEPT ![p] = <<>>]
          /\ job' = [job EXCEPT ![p] = "idle"]
          /\ UNCHANGED <<status, reached>>
    /\ UNCHANGED <<backend, cancel, queue, clientVars>>

(* A worker process dies. *)
Crash(w) ==
    /\ backend = "redis" /\ job[w] # "idle" /\ Fault
    /\ job' = [job EXCEPT ![w] = "idle"]
    /\ out' = [out EXCEPT ![w] = <<>>]
    /\ UNCHANGED <<rowVars, channelVars, clientVars, lossy>>

(* mark_orphaned_chat_runs_for_retry and the push: the lease has expired,   *)
(* since nobody has the run, or its holder is slow (a fault).               *)
Abandoned == queue = 0 /\ \A w \in Workers : job[w] = "idle"

Recover(w) ==
    /\ job[w] = "idle" /\ status \in {"queued", "active"}
    /\ IF Abandoned THEN UNCHANGED faults ELSE Fault
    /\ status' = "queued"
    /\ queue' = queue + 1
    /\ UNCHANGED <<backend, cancel, reached, workVars, channelVars, clientVars, lossy>>

-----------------------------------------------------------------------------
Init ==
    /\ backend \in Backends
    /\ status = "none" /\ cancel = "no" /\ reached = {} /\ queue = 0
    /\ job = [p \in Processes |-> "idle"]
    /\ out = [p \in Processes |-> <<>>]
    /\ inbox = <<>> /\ owed = <<>>
    /\ stream = "create" /\ told = "none" /\ gone = FALSE
    /\ lossy = FALSE /\ faults = 0

StreamStep == \/ Create \/ Subscribe \/ MarkQueued \/ Check \/ CheckGone \/ LeaveLoop
              \/ NextEvent \/ Timeout \/ Poll \/ Stopped

(* The model follows the run as long as somebody listens. *)
Next ==
    /\ stream # "closed"
    /\ \/ StreamStep \/ MarkQueuedFails \/ ConnectionBreaks
       \/ ClientLeaves \/ ResponseCancelled \/ ApiCancel
       \/ \E w \in Workers : \/ Claim(w) \/ Answer(w) \/ Complete(w) \/ Abort(w)
                             \/ Crash(w) \/ Recover(w)
       \/ \E p \in Processes : Publish(p) \/ PublishTwice(p) \/ PublishFails(p)

Spec == Init /\ [][Next]_vars

(* The generator is a task of the event loop, and its wait has a timeout;   *)
(* a publisher's commands return or fail.                                   *)
FairSpec == Spec /\ WF_vars(StreamStep) /\ \A p \in Processes : WF_vars(Publish(p))

-----------------------------------------------------------------------------
TypeOK ==
    /\ backend \in Backends
    /\ status \in Terminal \union {"none", "accepted", "queued", "active"}
    /\ cancel \in {"no", "user", "aborted"}
    /\ reached \subseteq Terminal /\ queue \in Nat
    /\ job \in [Processes -> {"idle", "retrieve", "answer", "guarded", "unguarded"}]
    /\ out \in [Processes -> Seq(Events)]
    /\ inbox \in Seq(Events) /\ owed \in Seq(WorkEvents)
    /\ stream \in Streaming \union {"create", "subscribe", "enqueue", "leave", "closed"}
    /\ told \in Terminal \union {"none", "broken"}
    /\ gone \in BOOLEAN /\ lossy \in BOOLEAN /\ faults \in 0..MaxFaults

(* What the client is told of the end has been committed before: whichever  *)
(* of the event, the poll and the closed bus tells it, and whoever reran or *)
(* cancelled the run meanwhile (stream_skill_run_events, _finalize_run).    *)
EndHappened == told \in Terminal => told \in reached

(* What a sequence of events holds of the executions' work, in its order.   *)
WorkOf(held, work) ==
    \E at \in [DOMAIN work -> DOMAIN held] :
        /\ \A i, k \in DOMAIN work : i < k => at[i] < at[k]
        /\ \A i \in DOMAIN work : held[at[i]] = work[i]
        /\ \A n \in DOMAIN held : IsWork(held[n]) <=> \E i \in DOMAIN work : at[i] = n

(* While the channel loses nothing, what the executions have published and the *)
(* stream has not yielded waits in the subscription, in that order: the     *)
(* subscription is open before the run can be popped, and no poll takes an  *)
(* event away.                                                              *)
NothingMissed ==
    (~lossy /\ stream \in Streaming) => WorkOf(inbox, owed)

(* The stream of a run that has ended for good is closed, although the      *)
(* terminal events may have been published to nobody or lost on the way.    *)
StreamEnds == <>[](status \in Terminal) => <>(stream = "closed")

=============================================================================
