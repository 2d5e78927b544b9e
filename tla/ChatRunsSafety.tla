--------------------------- MODULE ChatRunsSafety ---------------------------
(***************************************************************************)
(* The type invariant and the safety properties of ChatRuns for every set  *)
(* of runs, sessions and workers and any number of faults.  Typing follows *)
(* what an action's control flow (Goto, ReturnToLoop, BeginFinalize, Load) *)
(* does to the worker that takes it; each other property is strengthened   *)
(* to an inductive invariant, which every action is shown to keep.         *)
(***************************************************************************)
EXTENDS ChatRuns, TLAPS

USE DEF rowVars, chatVars, clientVars, localVars, faultVars

(* What a control step leaves of a worker's local state. *)
LocalOK == WorkerTypes /\ LocalFits

-----------------------------------------------------------------------------
(* Facts about the helpers. *)

(* A cancelled run ends as failed or cancelled, never as completed. *)
LEMMA CancelStatusType ==
    ASSUME NEW reason
    PROVE  CancelStatus(reason) \in Terminal /\ CancelStatus(reason) # "completed"
  BY DEF CancelStatus, Terminal

(* Freeing slots keeps the slots' type. *)
LEMMA SlotFreedType ==
    ASSUME ChatTypes, NEW R
    PROVE  SlotFreedOf(R) \in [Sessions -> Runs \union {NoRun}]
  BY DEF SlotFreedOf, ChatTypes

(* A message of a run of a session fits in its transcript. *)
LEMMA WithMessageType ==
    ASSUME ChatTypes, NEW r \in Runs, NEW role \in {"user", "assistant"}
    PROVE  WithMessage(r, role) \in [Sessions -> Seq(Message)]
  <1> DEFINE m == [run |-> r, role |-> role]
  <1>1. m \in Message
    BY DEF Message
  <1>2. ASSUME NEW t \in Seq(Message) PROVE Append(t, m) \in Seq(Message)
    BY <1>1
  <1> QED BY <1>2 DEF WithMessage, ChatTypes

(* A handler that returns leaves an idle worker. *)
LEMMA ReturnToLoopType ==
    ASSUME LocalOK, NEW w \in Workers, ReturnToLoop(w),
           stale' \in [Workers -> SUBSET Runs], moved' \in [Workers -> SUBSET Runs]
    PROVE  LocalOK'
  <1>1. WorkerTypes'
    BY DEF LocalOK, WorkerTypes, ReturnToLoop, Goto, Steps
  <1>2. LocalFits'
    BY DEF LocalOK, WorkerTypes, LocalFits, ReturnToLoop, Goto
  <1> QED BY <1>1, <1>2 DEF LocalOK

(* A handler that begins a finalisation knows its run and its outcome. *)
LEMMA BeginFinalizeType ==
    ASSUME LocalOK, NEW w \in Workers, NEW outcome \in Terminal, NEW inTry \in BOOLEAN,
           BeginFinalize(w, outcome, inTry), job[w] # NoRun, UNCHANGED job,
           copy' \in [Workers -> Status \union {"none"}],
           stale' \in [Workers -> SUBSET Runs], moved' \in [Workers -> SUBSET Runs]
    PROVE  LocalOK'
  <1>1. WorkerTypes'
    BY DEF LocalOK, WorkerTypes, BeginFinalize, Goto, Steps, Holding
  <1>2. outcome # "none"
    BY DEF Terminal
  <1>3. LocalFits'
    BY <1>2 DEF LocalOK, WorkerTypes, LocalFits, BeginFinalize, Goto
  <1> QED BY <1>1, <1>3 DEF LocalOK

(* A step to a place other than these needs only that the worker has a run. *)
LEMMA GotoType ==
    ASSUME LocalOK, NEW w \in Workers, NEW step \in Steps, Goto(w, step),
           step \in {"requeue", "repush"} \/
               (job[w] # NoRun /\ step \notin {"pop", "finalize", "release"}),
           UNCHANGED <<job, goal, guarded>>,
           copy' \in [Workers -> Status \union {"none"}],
           stale' \in [Workers -> SUBSET Runs], moved' \in [Workers -> SUBSET Runs]
    PROVE  LocalOK'
  <1>1. WorkerTypes'
    BY DEF LocalOK, WorkerTypes, Goto
  <1>2. LocalFits'
    BY DEF LocalOK, WorkerTypes, LocalFits, Goto
  <1> QED BY <1>1, <1>2 DEF LocalOK

(* The run a worker handles is a run. *)
LEMMA JobType ==
    ASSUME LocalOK, NEW w \in Workers,
           job[w] # NoRun \/ pc[w] \notin {"reap", "requeue", "repush", "pop"}
    PROVE  job[w] \in Runs /\ job[w] # NoRun
  BY DEF LocalOK, WorkerTypes, LocalFits

(* Loading a run ends the handler, finalises the run, or goes on to claim. *)
LEMMA LoadType ==
    ASSUME RowTypes, LocalOK, NEW w \in Workers, Load(w), job[w] # NoRun,
           UNCHANGED <<stale, moved>>
    PROVE  LocalOK'
  <1> DEFINE r == job[w]
  <1>1. r \in Runs
    BY JobType
  <1>2. /\ stale' \in [Workers -> SUBSET Runs]
        /\ moved' \in [Workers -> SUBSET Runs]
        /\ [copy EXCEPT ![w] = status[r]] \in [Workers -> Status \union {"none"}]
    BY <1>1 DEF LocalOK, WorkerTypes, RowTypes
  <1>3. CASE ReturnToLoop(w)
    BY <1>2, <1>3, ReturnToLoopType
  <1>4. CASE /\ BeginFinalize(w, CancelStatus(cancel[r]), TRUE)
             /\ copy' = [copy EXCEPT ![w] = status[r]] /\ UNCHANGED job
    BY <1>2, <1>4, BeginFinalizeType, CancelStatusType
  <1>5. CASE /\ Goto(w, "claim")
             /\ copy' = [copy EXCEPT ![w] = status[r]]
             /\ UNCHANGED <<job, goal, guarded>>
    <2>1. "claim" \in Steps
      BY DEF Steps
    <2> QED BY <1>2, <1>5, <2>1, GotoType
  <1> QED BY <1>3, <1>4, <1>5 DEF Load

(* After a refresh a handler goes on or finalises what was cancelled. *)
LEMMA RefreshAndCheckType ==
    ASSUME RowTypes', LocalOK, NEW w \in Workers, NEW step \in Working,
           RefreshAndCheck(w, step), job[w] # NoRun, UNCHANGED <<job, stale, moved>>
    PROVE  LocalOK'
  <1> DEFINE r == job[w]
  <1>1. r \in Runs
    BY JobType
  <1>2. /\ stale' \in [Workers -> SUBSET Runs]
        /\ moved' \in [Workers -> SUBSET Runs]
        /\ copy' \in [Workers -> Status \union {"none"}]
    BY <1>1 DEF LocalOK, WorkerTypes, RowTypes, RefreshAndCheck
  <1>3. CASE Goto(w, step) /\ UNCHANGED <<goal, guarded>>
    <2>1. step \in Steps /\ step \notin {"pop", "finalize", "release"}
      BY DEF Steps, Holding, Working
    <2> QED BY <1>2, <1>3, <2>1, GotoType
  <1>4. CASE BeginFinalize(w, CancelStatus(cancel[r]), FALSE)
    BY <1>2, <1>4, BeginFinalizeType, CancelStatusType
  <1> QED BY <1>3, <1>4 DEF RefreshAndCheck

(* Committing a status keeps the rows' types. *)
LEMMA CommitRunType ==
    ASSUME RowTypes, NEW w \in Workers, job[w] \in Runs, NEW value \in Status,
           CommitRun(w, value), UNCHANGED <<cancel, answered>>
    PROVE  RowTypes'
  BY DEF RowTypes, CommitRun

-----------------------------------------------------------------------------
(* One step of a client or of the clock. *)
LEMMA ClientStepTypeOK ==
    ASSUME TypeOK, NEW r \in Runs,
           RequestStep(r) \/ RequestTornDown(r) \/ CancelStep(r) \/ LeaseRunsOut(r)
    PROVE  TypeOK'
  <1> USE DEF TypeOK
  <1>1. CASE CreatePendingRun(r)
    BY <1>1 DEF CreatePendingRun, RowTypes, ChatTypes, ClientTypes, WorkerTypes,
                HistoryTypes, LocalFits, Status, Ordered
  <1>2. CASE MarkRunQueued(r)
    BY <1>2 DEF MarkRunQueued, RowTypes, ChatTypes, ClientTypes, WorkerTypes,
                HistoryTypes, LocalFits, Status, Ordered
  <1>3. CASE EnqueueChatRun(r)
    BY <1>3 DEF EnqueueChatRun, RowTypes, ChatTypes, ClientTypes, WorkerTypes,
                HistoryTypes, LocalFits
  <1>4. CASE RequestTornDown(r)
    BY <1>4, BoundsAssumption
       DEF RequestTornDown, Crash, Fault, RowTypes, ChatTypes, ClientTypes, WorkerTypes,
           HistoryTypes, LocalFits
  <1>5. CASE RequestRunCancel(r)
    BY <1>5 DEF RequestRunCancel, RowTypes, ChatTypes, ClientTypes, WorkerTypes,
                HistoryTypes, LocalFits
  <1>6. CASE CancelWaitingRun(r)
    BY <1>6, CancelStatusType
       DEF CancelWaitingRun, RowTypes, ChatTypes, ClientTypes, WorkerTypes,
           HistoryTypes, LocalFits, Status
  <1>7. CASE CancelReleaseSlot(r)
    BY <1>7, SlotFreedType
       DEF CancelReleaseSlot, RowTypes, ChatTypes, ClientTypes, WorkerTypes,
           HistoryTypes, LocalFits
  <1>8. CASE CancelActiveRun(r)
    BY <1>8 DEF CancelActiveRun, RowTypes, ChatTypes, ClientTypes, WorkerTypes,
                HistoryTypes, LocalFits
  <1>9. CASE LeaseRunsOut(r)
    BY <1>9, BoundsAssumption
       DEF LeaseRunsOut, Fault, RowTypes, ChatTypes, ClientTypes, WorkerTypes,
           HistoryTypes, LocalFits
  <1> QED BY <1>1, <1>2, <1>3, <1>4, <1>5, <1>6, <1>7, <1>8, <1>9
          DEF RequestStep, CancelStep

(* One step of a worker's loop: recovery, pop, claim. *)
LEMMA LoopStepTypeOK ==
    ASSUME TypeOK, NEW w \in Workers,
           \/ SelectStaleRuns(w) \/ RequeueStaleRuns(w) \/ PushRequeuedRun(w)
           \/ PopAfterRequeue(w) \/ PopTimesOut(w) \/ LoadAfterRequeue(w)
           \/ ClaimSessionSlot(w) \/ RequeueWaitingRun(w) \/ PushFails(w)
           \/ WorkerDies(w)
    PROVE  TypeOK'
  <1> USE DEF TypeOK
  <1>a. LocalOK
    BY DEF LocalOK
  <1>b. {"reap", "requeue", "repush", "pop", "load", "start", "wait"} \subseteq Steps
    BY DEF Steps, Holding, Working
  <1>c. ASSUME Pop(w), UNCHANGED <<copy, goal, guarded, stale, moved>>
        PROVE  LocalOK' /\ queue' \in Seq(Runs)
    <2>1. Head(queue) \in Runs /\ Tail(queue) \in Seq(Runs)
      BY <1>c DEF Pop, ChatTypes
    <2>2. LocalOK'
      BY <1>a, <1>b, <1>c, <2>1, RunsAssumption
         DEF Pop, Goto, LocalOK, WorkerTypes, LocalFits
    <2> QED BY <2>1, <2>2, <1>c DEF Pop
  <1>1. CASE SelectStaleRuns(w)
    <2>1. LocalOK' /\ queue' \in Seq(Runs)
      <3>1. CASE /\ Goto(w, "requeue")
                 /\ stale' = [stale EXCEPT ![w] = StaleRuns]
                 /\ moved' = [moved EXCEPT ![w] = {r \in StaleRuns : status[r] \in Active}]
                 /\ UNCHANGED <<queue, job, copy, goal, guarded>>
        <4>1. stale' \in [Workers -> SUBSET Runs] /\ moved' \in [Workers -> SUBSET Runs]
          BY <3>1 DEF StaleRuns, WorkerTypes
        <4> QED BY <1>a, <1>b, <3>1, <4>1, GotoType DEF WorkerTypes, ChatTypes
      <3>2. CASE Pop(w) /\ UNCHANGED <<copy, goal, guarded, stale, moved>>
        BY <3>2, <1>c
      <3>3. CASE Load(w) /\ job[w] # NoRun /\ UNCHANGED <<queue, stale, moved>>
        BY <3>3, <1>a, LoadType DEF ChatTypes
      <3> QED BY <1>1, <3>1, <3>2, <3>3 DEF SelectStaleRuns
    <2> QED BY <1>1, <2>1
            DEF SelectStaleRuns, LocalOK, RowTypes, ChatTypes, ClientTypes, HistoryTypes
  <1>2. CASE RequeueStaleRuns(w)
    <2>1. LocalOK'
      BY <1>2, <1>a, <1>b, GotoType DEF RequeueStaleRuns, WorkerTypes
    <2>2. disturbed' \subseteq Runs
      BY <1>2 DEF RequeueStaleRuns, HistoryTypes, WorkerTypes
    <2> QED BY <1>2, <2>1, <2>2, SlotFreedType
            DEF RequeueStaleRuns, LocalOK, RowTypes, ChatTypes, ClientTypes,
                HistoryTypes, Status, Ordered
  <1>3. CASE PushRequeuedRun(w)
    <2>1. PICK r \in stale[w] :
             /\ queue' = Append(queue, r)
             /\ stale' = [stale EXCEPT ![w] = @ \ {r}]
             /\ IF stale[w] # {r} THEN UNCHANGED pc
                ELSE Goto(w, IF job[w] = NoRun THEN "pop" ELSE "load")
      BY <1>3 DEF PushRequeuedRun
    <2>2. queue' \in Seq(Runs) /\ stale' \in [Workers -> SUBSET Runs]
      BY <2>1 DEF ChatTypes, WorkerTypes
    <2>3. LocalOK'
      BY <1>3, <1>a, <1>b, <2>1, <2>2
         DEF PushRequeuedRun, Goto, LocalOK, WorkerTypes, LocalFits
    <2> QED BY <1>3, <2>2, <2>3
            DEF PushRequeuedRun, LocalOK, RowTypes, ChatTypes, ClientTypes, HistoryTypes
  <1>4. CASE PopAfterRequeue(w)
    BY <1>4, <1>c
       DEF PopAfterRequeue, LocalOK, RowTypes, ChatTypes, ClientTypes, HistoryTypes
  <1>5. CASE PopTimesOut(w)
    BY <1>5, <1>b
       DEF PopTimesOut, Goto, RowTypes, ChatTypes, ClientTypes, WorkerTypes,
           HistoryTypes, LocalFits
  <1>6. CASE LoadAfterRequeue(w)
    BY <1>6, <1>a, LoadType, JobType
       DEF LoadAfterRequeue, LocalOK, RowTypes, ChatTypes, ClientTypes, HistoryTypes
  <1>7. CASE ClaimSessionSlot(w)
    <2>1. job[w] \in Runs /\ job[w] # NoRun
      BY <1>7, <1>a, JobType DEF ClaimSessionSlot
    <2>2. LocalOK'
      BY <1>7, <1>a, <1>b, <2>1, GotoType DEF ClaimSessionSlot, WorkerTypes
    <2>3. slot' \in [Sessions -> Runs \union {NoRun}]
      BY <1>7, <2>1 DEF ClaimSessionSlot, ChatTypes
    <2> QED BY <1>7, <2>2, <2>3
            DEF ClaimSessionSlot, LocalOK, RowTypes, ChatTypes, ClientTypes, HistoryTypes
  <1>8. CASE RequeueWaitingRun(w)
    <2>1. job[w] \in Runs
      BY <1>8, <1>a, JobType DEF RequeueWaitingRun
    <2>2. LocalOK'
      BY <1>8, <1>a, ReturnToLoopType DEF RequeueWaitingRun, WorkerTypes
    <2> QED BY <1>8, <2>1, <2>2
            DEF RequeueWaitingRun, LocalOK, RowTypes, ChatTypes, ClientTypes, HistoryTypes
  <1>9. CASE PushFails(w)
    <2>1. /\ stale' \in [Workers -> SUBSET Runs]
          /\ moved' \in [Workers -> SUBSET Runs]
      BY <1>9 DEF PushFails, WorkerTypes
    <2>2. LocalOK'
      <3>1. CASE ReturnToLoop(w)
        BY <1>a, <2>1, <3>1, ReturnToLoopType
      <3>2. CASE job[w] # NoRun /\ BeginFinalize(w, "failed", FALSE)
        <4>1. job[w] \in Runs
          BY <1>a, <3>2, JobType
        <4>2. /\ UNCHANGED job
              /\ \/ copy' = copy
                 \/ copy' = [copy EXCEPT ![w] = status[job[w]]]
          BY <1>9, <3>2 DEF PushFails
        <4>4. status[job[w]] \in Status \union {"none"}
          BY <4>1 DEF RowTypes
        <4>5. copy' \in [Workers -> Status \union {"none"}]
          BY <4>2, <4>4 DEF WorkerTypes
        <4>3. "failed" \in Terminal
          BY DEF Terminal
        <4> QED BY <1>a, <2>1, <3>2, <4>2, <4>5, <4>3, BeginFinalizeType
      <3> QED BY <1>9, <3>1, <3>2 DEF PushFails
    <2> QED BY <1>9, <2>2, BoundsAssumption
            DEF PushFails, Fault, LocalOK, RowTypes, ChatTypes, ClientTypes, HistoryTypes
  <1>10. CASE WorkerDies(w)
    <2>1. LocalOK'
      BY <1>10, <1>a, ReturnToLoopType DEF WorkerDies, WorkerTypes
    <2> QED BY <1>10, <2>1, BoundsAssumption
            DEF WorkerDies, Crash, Fault, LocalOK, RowTypes, ChatTypes, ClientTypes,
                HistoryTypes
  <1> QED BY <1>1, <1>2, <1>3, <1>4, <1>5, <1>6, <1>7, <1>8, <1>9, <1>10

(* One step of a worker that executes the run it claimed. *)
LEMMA ExecuteTypeOK ==
    ASSUME TypeOK, NEW w \in Workers, Execute(w)
    PROVE  TypeOK'
  <1> USE DEF TypeOK
  <1> DEFINE r == job[w]
  <1>a. LocalOK
    BY DEF LocalOK
  <1>b. r \in Runs /\ r # NoRun
    BY <1>a, JobType
       DEF Execute, StartRetrieving, AppendQuestion, TouchHeartbeat, StartAnswering,
           StreamChunk, PersistAnswer, AppendReply, ExecutionFails, FinalizeRun,
           ReleaseSessionSlot, Working
  <1>c. /\ Working \subseteq Steps /\ "finalize" \in Steps /\ "release" \in Steps
        /\ {"completed", "failed"} \subseteq Terminal
        /\ {"retrieving", "answering"} \union Terminal \subseteq Status
        /\ Working \intersect {"pop", "finalize", "release"} = {}
    BY DEF Steps, Holding, Working, Terminal, Status, Ordered, Active
  <1>d. {"question", "retrieve", "answer", "stream", "reply"} \subseteq Working
    BY DEF Working
  <1>e. copy \in [Workers -> Status \union {"none"}]
    BY DEF WorkerTypes
  <1>f. stale \in [Workers -> SUBSET Runs] /\ moved \in [Workers -> SUBSET Runs]
    BY DEF WorkerTypes
  <1>g. status[r] \in Status \union {"none"}
    BY <1>b DEF RowTypes
  <1>1. CASE StartRetrieving(w)
    <2>1. RowTypes'
      BY <1>1, <1>b, <1>c, CommitRunType DEF StartRetrieving
    <2>2. LocalOK'
      BY <1>1, <1>a, <1>b, <1>d, <2>1, RefreshAndCheckType DEF StartRetrieving
    <2> QED BY <1>1, <2>1, <2>2
            DEF StartRetrieving, LocalOK, ChatTypes, ClientTypes, HistoryTypes
  <1>2. CASE AppendQuestion(w)
    <2>1. LocalOK'
      BY <1>2, <1>a, <1>b, <1>c, <1>d, <1>e, <1>f, GotoType DEF AppendQuestion
    <2>2. ChatTypes'
      BY <1>2, <1>b, WithMessageType DEF AppendQuestion, ChatTypes
    <2> QED BY <1>2, <2>1, <2>2
            DEF AppendQuestion, LocalOK, RowTypes, ClientTypes, HistoryTypes
  <1>3. CASE TouchHeartbeat(w)
    <2>1. RowTypes'
      BY <1>3 DEF TouchHeartbeat, RowTypes
    <2>2. LocalOK'
      BY <1>3, <1>a, <1>b, <1>d, <2>1, RefreshAndCheckType DEF TouchHeartbeat
    <2> QED BY <1>3, <2>1, <2>2
            DEF TouchHeartbeat, LocalOK, ChatTypes, ClientTypes, HistoryTypes
  <1>4. CASE StartAnswering(w)
    <2>1. RowTypes'
      BY <1>4, <1>b, <1>c, CommitRunType DEF StartAnswering
    <2>2. LocalOK'
      BY <1>4, <1>a, <1>b, <1>d, <2>1, RefreshAndCheckType DEF StartAnswering
    <2> QED BY <1>4, <2>1, <2>2
            DEF StartAnswering, LocalOK, ChatTypes, ClientTypes, HistoryTypes
  <1>5. CASE StreamChunk(w)
    <2>1. RowTypes'
      BY <1>5 DEF StreamChunk, RowTypes
    <2>2. LocalOK'
      <3>1. CASE UNCHANGED <<pc, goal, guarded>>
        BY <1>5, <1>a, <3>1 DEF StreamChunk, LocalOK, WorkerTypes, LocalFits
      <3>2. CASE BeginFinalize(w, CancelStatus(cancel[r]), FALSE)
        BY <1>5, <1>a, <1>b, <1>e, <1>f, <3>2, BeginFinalizeType, CancelStatusType
           DEF StreamChunk
      <3> QED BY <1>5, <3>1, <3>2 DEF StreamChunk
    <2> QED BY <1>5, <2>1, <2>2
            DEF StreamChunk, LocalOK, ChatTypes, ClientTypes, HistoryTypes
  <1>6. CASE PersistAnswer(w)
    <2>1. RowTypes'
      BY <1>6 DEF PersistAnswer, RowTypes
    <2>2. copy' \in [Workers -> Status \union {"none"}]
      BY <1>6, <1>e, <1>g DEF PersistAnswer
    <2>3. LocalOK'
      <3>1. CASE Goto(w, "reply") /\ UNCHANGED <<goal, guarded>>
        BY <1>6, <1>a, <1>b, <1>c, <1>d, <1>f, <2>2, <3>1, GotoType DEF PersistAnswer
      <3>2. CASE BeginFinalize(w, "completed", TRUE)
        BY <1>6, <1>a, <1>b, <1>c, <1>f, <2>2, <3>2, BeginFinalizeType DEF PersistAnswer
      <3> QED BY <1>6, <3>1, <3>2 DEF PersistAnswer
    <2> QED BY <1>6, <2>1, <2>3
            DEF PersistAnswer, LocalOK, ChatTypes, ClientTypes, HistoryTypes
  <1>7. CASE AppendReply(w)
    <2>1. LocalOK'
      BY <1>7, <1>a, <1>b, <1>c, <1>e, <1>f, BeginFinalizeType DEF AppendReply
    <2>2. ChatTypes'
      BY <1>7, <1>b, WithMessageType DEF AppendReply, ChatTypes
    <2> QED BY <1>7, <2>1, <2>2
            DEF AppendReply, LocalOK, RowTypes, ClientTypes, HistoryTypes
  <1>8. CASE ExecutionFails(w)
    <2>1. LocalOK'
      BY <1>8, <1>a, <1>b, <1>c, <1>e, <1>f, BeginFinalizeType DEF ExecutionFails
    <2> QED BY <1>8, <2>1
            DEF ExecutionFails, LocalOK, RowTypes, ChatTypes, ClientTypes, HistoryTypes
  <1>9. CASE FinalizeRun(w)
    <2>1. goal[w] \in Terminal
      BY <1>9, <1>a DEF FinalizeRun, LocalOK, WorkerTypes, LocalFits
    <2>2. RowTypes'
      BY <1>9, <1>b, <1>c, <2>1, CommitRunType DEF FinalizeRun
    <2>3. LocalOK'
      BY <1>9, <1>a, <1>b, <1>c, <2>1, <2>2
         DEF FinalizeRun, Goto, LocalOK, WorkerTypes, LocalFits, RowTypes
    <2> QED BY <1>9, <2>2, <2>3
            DEF FinalizeRun, LocalOK, ChatTypes, ClientTypes, HistoryTypes
  <1>10. CASE ReleaseSessionSlot(w)
    <2>1. LocalOK'
      <3>1. CASE ReturnToLoop(w)
        BY <1>10, <1>a, <1>f, <3>1, ReturnToLoopType DEF ReleaseSessionSlot
      <3>2. CASE BeginFinalize(w, "failed", FALSE) /\ UNCHANGED <<job, copy>>
        BY <1>10, <1>a, <1>b, <1>c, <1>e, <1>f, <3>2, BeginFinalizeType
           DEF ReleaseSessionSlot
      <3> QED BY <1>10, <3>1, <3>2 DEF ReleaseSessionSlot
    <2> QED BY <1>10, <2>1, SlotFreedType
            DEF ReleaseSessionSlot, LocalOK, RowTypes, ChatTypes, ClientTypes,
                HistoryTypes
  <1> QED BY <1>1, <1>2, <1>3, <1>4, <1>5, <1>6, <1>7, <1>8, <1>9, <1>10 DEF Execute

-----------------------------------------------------------------------------
(* Every step keeps the types: the induction step, cited wherever an action  *)
(* is taken in a typed state.                                                *)
LEMMA NextTypeOK == TypeOK /\ [Next]_vars => TypeOK'
  <1> SUFFICES ASSUME TypeOK, [Next]_vars PROVE TypeOK'
    OBVIOUS
  <1>1. CASE UNCHANGED vars
    BY <1>1 DEF vars, TypeOK, RowTypes, ChatTypes, ClientTypes, WorkerTypes,
                HistoryTypes, LocalFits
  <1>2. ASSUME NEW r \in Runs,
               RequestStep(r) \/ RequestTornDown(r) \/ CancelStep(r) \/ LeaseRunsOut(r)
        PROVE  TypeOK'
    BY <1>2, ClientStepTypeOK
  <1>3. ASSUME NEW w \in Workers, WorkerStep(w) \/ WorkerDies(w)
        PROVE  TypeOK'
    BY <1>3, LoopStepTypeOK, ExecuteTypeOK DEF WorkerStep
  <1> QED BY <1>1, <1>2, <1>3 DEF Next

(* All variables start with their types. *)
LEMMA InitTypeOK == Init => TypeOK
  <1> SUFFICES ASSUME Init PROVE TypeOK
    OBVIOUS
  <1>1. RowTypes /\ ClientTypes
    BY DEF Init, RowTypes, ClientTypes
  <1>2. ChatTypes
    <2>1. <<>> \in Seq(Message) /\ <<>> \in Seq(Runs)
      OBVIOUS
    <2> QED BY <2>1 DEF Init, ChatTypes
  <1>3. WorkerTypes /\ LocalFits
    BY DEF Init, WorkerTypes, LocalFits, Steps
  <1>4. HistoryTypes
    <2>1. faults \in 0..MaxFaults
      BY BoundsAssumption DEF Init
    <2> QED BY <2>1, Zenon DEF Init, HistoryTypes
  <1> QED BY <1>1, <1>2, <1>3, <1>4 DEF TypeOK

(* In every reachable state each variable has its type, and a handler past   *)
(* its load knows its run and the outcome it is about to write.              *)
THEOREM TypeCorrect == Spec => []TypeOK
  BY InitTypeOK, NextTypeOK, PTL DEF Spec

-----------------------------------------------------------------------------
(* Inductive invariants. *)

(* What recovery will turn from active to queued is among what it beats for, *)
(* and is forgotten once that is committed.                                  *)
RecoveryFits ==
    \A w \in Workers : /\ moved[w] \subseteq stale[w]
                       /\ pc[w] # "requeue" => moved[w] = {}

(* A slot is only ever held by a run of its session. *)
SlotOfSession == \A s \in Sessions : slot[s] # NoRun => SessionOf[slot[s]] = s

(* Every reply in a transcript comes after its question. *)
RepliesFollow ==
    \A s \in Sessions : \A j \in DOMAIN transcript[s] :
        transcript[s][j].role = "assistant" =>
            \E i \in DOMAIN transcript[s] :
                i < j /\ transcript[s][i] = [run |-> transcript[s][j].run, role |-> "user"]

(* What an executor has put on record when it reaches each step. *)
Recorded ==
    \A w \in Workers : \A r \in Runs : job[w] = r =>
        /\ pc[w] \in {"retrieve", "answer", "stream", "reply"} /\ InSession(r)
               => HasMessage(r, "user")
        /\ pc[w] = "reply" => answered[r]
        /\ pc[w] \in {"finalize", "release"} /\ goal[w] = "completed" => HasTurn(r)

-----------------------------------------------------------------------------
(* The local state of an executor's steps, as the proofs below need it. *)

(* An executor has a run that its pc says it holds. *)
LEMMA ExecutorHolds ==
    ASSUME TypeOK, NEW w \in Workers, Execute(w)
    PROVE  pc[w] \in Holding /\ job[w] \in Runs /\ job[w] # NoRun
  <1>1. pc[w] \in Holding
    BY DEF Execute, StartRetrieving, AppendQuestion, TouchHeartbeat, StartAnswering,
           StreamChunk, PersistAnswer, AppendReply, ExecutionFails, FinalizeRun,
           ReleaseSessionSlot, Holding, Working
  <1>2. pc[w] \notin {"reap", "requeue", "repush", "pop"}
    BY <1>1 DEF Holding, Working
  <1> QED BY <1>1, <1>2, JobType DEF TypeOK, LocalOK

(* An executor's step moves only the executor: to a step at which it still   *)
(* holds its run, or out of the handler after the slot was released.         *)
LEMMA ExecutorMoves ==
    ASSUME TypeOK, NEW w \in Workers, Execute(w)
    PROVE  /\ \A v \in Workers \ {w} : pc'[v] = pc[v] /\ job'[v] = job[v] /\ goal'[v] = goal[v]
           /\ \/ pc'[w] \in Holding /\ job' = job
              \/ ReleaseSessionSlot(w) /\ pc'[w] = "reap" /\ job'[w] = NoRun
           /\ UNCHANGED <<stale, moved, queue, request, crashed, disturbed>>
  <1> USE DEF TypeOK, WorkerTypes, Goto, BeginFinalize, Holding, Working
  <1>1. CASE StartRetrieving(w)
    BY <1>1 DEF StartRetrieving, RefreshAndCheck
  <1>2. CASE AppendQuestion(w)
    BY <1>2 DEF AppendQuestion
  <1>3. CASE TouchHeartbeat(w)
    BY <1>3 DEF TouchHeartbeat, RefreshAndCheck
  <1>4. CASE StartAnswering(w)
    BY <1>4 DEF StartAnswering, RefreshAndCheck
  <1>5. CASE StreamChunk(w)
    BY <1>5 DEF StreamChunk
  <1>6. CASE PersistAnswer(w)
    BY <1>6 DEF PersistAnswer
  <1>7. CASE AppendReply(w)
    BY <1>7 DEF AppendReply
  <1>8. CASE ExecutionFails(w)
    BY <1>8 DEF ExecutionFails
  <1>9. CASE FinalizeRun(w)
    BY <1>9 DEF FinalizeRun
  <1>10. CASE ReleaseSessionSlot(w)
    BY <1>10 DEF ReleaseSessionSlot, ReturnToLoop
  <1> QED BY <1>1, <1>2, <1>3, <1>4, <1>5, <1>6, <1>7, <1>8, <1>9, <1>10 DEF Execute

-----------------------------------------------------------------------------
(* Recoverability. *)

(* Every write of a scanned status comes with a heartbeat, and no step takes   *)
(* a heartbeat away.                                                          *)
LEMMA RecoverableStep ==
    ASSUME TypeOK, TypeOK', RecoveryFits, Recoverable, [Next]_vars
    PROVE  RecoveryFits' /\ Recoverable'
  <1> USE DEF TypeOK, RowTypes, WorkerTypes
  <1>1. CASE UNCHANGED vars
    BY <1>1 DEF vars, RecoveryFits, Recoverable
  <1>2. ASSUME NEW r \in Runs,
               RequestStep(r) \/ RequestTornDown(r) \/ CancelStep(r) \/ LeaseRunsOut(r)
        PROVE  RecoveryFits' /\ Recoverable'
    <2>1. UNCHANGED localVars
      BY <1>2 DEF RequestStep, CreatePendingRun, MarkRunQueued, EnqueueChatRun,
                  RequestTornDown, CancelStep, RequestRunCancel, CancelWaitingRun,
                  CancelReleaseSlot, CancelActiveRun, LeaseRunsOut
    <2>2. RecoveryFits'
      BY <2>1 DEF RecoveryFits
    <2>3. Recoverable'
      BY <1>2, CancelStatusType
         DEF Recoverable, RequestStep, CreatePendingRun, MarkRunQueued, EnqueueChatRun,
             RequestTornDown, CancelStep, RequestRunCancel, CancelWaitingRun,
             CancelReleaseSlot, CancelActiveRun, LeaseRunsOut, Scanned, Active, Terminal
    <2> QED BY <2>2, <2>3
  <1>3. ASSUME NEW w \in Workers, Execute(w)
        PROVE  RecoveryFits' /\ Recoverable'
    <2>1. RecoveryFits'
      <3>1. UNCHANGED <<stale, moved>> /\ \A v \in Workers \ {w} : pc'[v] = pc[v]
        BY <1>3, ExecutorMoves
      <3>2. pc[w] # "requeue"
        BY <1>3, ExecutorHolds DEF Holding, Working
      <3> QED BY <3>1, <3>2 DEF RecoveryFits
    <2>2. ASSUME NEW r \in Runs PROVE heartbeat'[r] = "fresh" \/
                    (heartbeat'[r] = heartbeat[r] /\ status'[r] = status[r])
      <3>1. CASE StartRetrieving(w) \/ StartAnswering(w) \/ FinalizeRun(w)
        <4>1. PICK value : CommitRun(w, value)
          BY <3>1 DEF StartRetrieving, StartAnswering, FinalizeRun
        <4>2. CASE r = job[w]
          BY <4>1, <4>2 DEF CommitRun
        <4>3. CASE r # job[w]
          BY <4>1, <4>3 DEF CommitRun
        <4> QED BY <4>2, <4>3
      <3>2. CASE TouchHeartbeat(w) \/ StreamChunk(w) \/ PersistAnswer(w)
        <4>1. UNCHANGED status
          BY <3>2 DEF TouchHeartbeat, StreamChunk, PersistAnswer
        <4>2. \/ heartbeat' = [heartbeat EXCEPT ![job[w]] = "fresh"]
              \/ UNCHANGED heartbeat
          BY <3>2 DEF TouchHeartbeat, StreamChunk, PersistAnswer
        <4> QED BY <4>1, <4>2
      <3>3. CASE \/ AppendQuestion(w) \/ AppendReply(w) \/ ExecutionFails(w)
                 \/ ReleaseSessionSlot(w)
        BY <3>3 DEF AppendQuestion, AppendReply, ExecutionFails, ReleaseSessionSlot
      <3> QED BY <1>3, <3>1, <3>2, <3>3 DEF Execute
    <2>3. Recoverable'
      BY <2>2 DEF Recoverable
    <2> QED BY <2>1, <2>3
  <1>4. ASSUME NEW w \in Workers, RequeueStaleRuns(w)
        PROVE  RecoveryFits' /\ Recoverable'
    BY <1>4 DEF RequeueStaleRuns, Goto, RecoveryFits, Recoverable
  <1>5. ASSUME NEW w \in Workers,
               \/ SelectStaleRuns(w) \/ PushRequeuedRun(w) \/ PopAfterRequeue(w)
               \/ PopTimesOut(w) \/ LoadAfterRequeue(w) \/ ClaimSessionSlot(w)
               \/ RequeueWaitingRun(w) \/ PushFails(w) \/ WorkerDies(w)
        PROVE  RecoveryFits' /\ Recoverable'
    <2> USE DEF RecoveryFits, Goto, ReturnToLoop, BeginFinalize
    <2>1. UNCHANGED rowVars
      BY <1>5 DEF SelectStaleRuns, PushRequeuedRun, PopAfterRequeue, PopTimesOut,
                  LoadAfterRequeue, ClaimSessionSlot, RequeueWaitingRun, PushFails,
                  WorkerDies
    <2>2. CASE SelectStaleRuns(w)
      BY <2>2 DEF SelectStaleRuns, Pop, Load, Recoverable
    <2>3. CASE PushRequeuedRun(w)
      BY <2>3 DEF PushRequeuedRun, Recoverable
    <2>4. CASE PopAfterRequeue(w) \/ PopTimesOut(w) \/ LoadAfterRequeue(w)
      BY <2>4 DEF PopAfterRequeue, PopTimesOut, LoadAfterRequeue, Pop, Load, Recoverable
    <2>5. CASE ClaimSessionSlot(w) \/ RequeueWaitingRun(w)
      BY <2>5 DEF ClaimSessionSlot, RequeueWaitingRun, Recoverable
    <2>6. CASE PushFails(w) \/ WorkerDies(w)
      BY <2>6 DEF PushFails, WorkerDies, Recoverable
    <2> QED BY <1>5, <2>2, <2>3, <2>4, <2>5, <2>6
  <1> QED BY <1>1, <1>2, <1>3, <1>4, <1>5 DEF Next, WorkerStep

(* Whatever interleaving of requests, recoveries, cancels and executors: a   *)
(* run that is queued or executing is within reach of lease recovery.        *)
THEOREM AlwaysRecoverable == Spec => []Recoverable
  <1>1. Init => RecoveryFits /\ Recoverable
    BY DEF Init, RecoveryFits, Recoverable, Scanned, Active
  <1>2. TypeOK /\ TypeOK' /\ RecoveryFits /\ Recoverable /\ [Next]_vars
            => RecoveryFits' /\ Recoverable'
    BY RecoverableStep
  <1> QED BY <1>1, <1>2, TypeCorrect, PTL DEF Spec

-----------------------------------------------------------------------------
(* Session slots. *)

(* A step of the loop is taken by a worker that holds nothing, and moves no  *)
(* other worker.                                                             *)
LEMMA LoopMoves ==
    ASSUME TypeOK, NEW w \in Workers,
           \/ SelectStaleRuns(w) \/ RequeueStaleRuns(w) \/ PushRequeuedRun(w)
           \/ PopAfterRequeue(w) \/ PopTimesOut(w) \/ LoadAfterRequeue(w)
           \/ ClaimSessionSlot(w) \/ RequeueWaitingRun(w) \/ PushFails(w)
    PROVE  /\ pc[w] \notin Holding
           /\ \A v \in Workers \ {w} :
                 pc'[v] = pc[v] /\ job'[v] = job[v] /\ goal'[v] = goal[v]
           /\ UNCHANGED <<answered, transcript, request, canceller, crashed>>
  <1> USE DEF TypeOK, WorkerTypes, Goto, BeginFinalize, ReturnToLoop, Holding, Working
  <1>1. CASE SelectStaleRuns(w)
    BY <1>1 DEF SelectStaleRuns, Pop, Load
  <1>2. CASE RequeueStaleRuns(w) \/ PopTimesOut(w) \/ ClaimSessionSlot(w)
    BY <1>2 DEF RequeueStaleRuns, PopTimesOut, ClaimSessionSlot
  <1>3. CASE PushRequeuedRun(w) \/ RequeueWaitingRun(w)
    BY <1>3 DEF PushRequeuedRun, RequeueWaitingRun
  <1>4. CASE PopAfterRequeue(w) \/ LoadAfterRequeue(w)
    BY <1>4 DEF PopAfterRequeue, LoadAfterRequeue, Pop, Load
  <1>5. CASE PushFails(w)
    BY <1>5 DEF PushFails, Fault
  <1> QED BY <1>1, <1>2, <1>3, <1>4, <1>5

(* Slots are claimed by ClaimSessionSlot; every other step frees or keeps.   *)
LEMMA SlotsOnlyFreed ==
    ASSUME TypeOK, [Next]_vars, \A w \in Workers : ~ClaimSessionSlot(w)
    PROVE  \A s \in Sessions : slot'[s] \in {slot[s], NoRun}
  <1> USE DEF SlotFreedOf
  <1>1. CASE UNCHANGED vars
    BY <1>1 DEF vars
  <1>2. ASSUME NEW r \in Runs,
               RequestStep(r) \/ RequestTornDown(r) \/ CancelStep(r) \/ LeaseRunsOut(r)
        PROVE  \A s \in Sessions : slot'[s] \in {slot[s], NoRun}
    BY <1>2 DEF RequestStep, CreatePendingRun, MarkRunQueued, EnqueueChatRun,
                RequestTornDown, CancelStep, RequestRunCancel, CancelWaitingRun,
                CancelReleaseSlot, CancelActiveRun, LeaseRunsOut
  <1>3. ASSUME NEW w \in Workers, WorkerStep(w) \/ WorkerDies(w)
        PROVE  \A s \in Sessions : slot'[s] \in {slot[s], NoRun}
    BY <1>3 DEF WorkerStep, SelectStaleRuns, RequeueStaleRuns, PushRequeuedRun,
                PopAfterRequeue, PopTimesOut, LoadAfterRequeue, RequeueWaitingRun,
                PushFails, Execute, StartRetrieving, AppendQuestion, TouchHeartbeat,
                StartAnswering, StreamChunk, PersistAnswer, AppendReply, ExecutionFails,
                FinalizeRun, ReleaseSessionSlot, WorkerDies
  <1> QED BY <1>1, <1>2, <1>3 DEF Next

(* While nothing crashes a claimed slot keeps its holder, or is freed.        *)
LEMMA SlotStep ==
    ASSUME TypeOK, TypeOK', SlotOfSession, SlotHasHolder, [Next]_vars
    PROVE  SlotOfSession' /\ SlotHasHolder'
  <1>1. ASSUME NEW w \in Workers, ClaimSessionSlot(w)
        PROVE  SlotOfSession' /\ SlotHasHolder'
    <2> DEFINE r == job[w]
    <2>1. /\ \A s \in Sessions : slot'[s] = slot[s] \/ (slot'[s] = r /\ s = SessionOf[r])
          /\ \A s \in Sessions : slot'[s] # slot[s] => pc'[w] = "start"
          /\ UNCHANGED <<job, crashed>>
      BY <1>1 DEF ClaimSessionSlot, TypeOK, ChatTypes, WorkerTypes, Goto
    <2>2. SlotOfSession'
      BY <2>1 DEF SlotOfSession
    <2>3. pc[w] \notin Holding /\ \A v \in Workers \ {w} : pc'[v] = pc[v]
      BY <1>1, LoopMoves
    <2>4. SlotHasHolder'
      <3> SUFFICES ASSUME ~crashed', NEW s \in Sessions, slot'[s] # NoRun
                   PROVE  \E v \in Workers : job'[v] = slot'[s] /\ pc'[v] \in Holding
        BY DEF SlotHasHolder
      <3>1. CASE slot'[s] = slot[s]
        <4>1. PICK v \in Workers : job[v] = slot[s] /\ pc[v] \in Holding
          BY <2>1, <3>1 DEF SlotHasHolder
        <4> QED BY <2>1, <2>3, <3>1, <4>1
      <3>2. CASE slot'[s] # slot[s]
        BY <2>1, <3>2 DEF Holding, Working
      <3> QED BY <3>1, <3>2
    <2> QED BY <2>2, <2>4
  <1>2. ASSUME \A w \in Workers : ~ClaimSessionSlot(w)
        PROVE  SlotOfSession' /\ SlotHasHolder'
    <2>1. \A s \in Sessions : slot'[s] \in {slot[s], NoRun}
      BY <1>2, SlotsOnlyFreed
    <2>2. SlotOfSession'
      BY <2>1 DEF SlotOfSession
    <2>3. ASSUME ~crashed', NEW s \in Sessions, slot'[s] # NoRun
          PROVE  \E v \in Workers : job'[v] = slot'[s] /\ pc'[v] \in Holding
      <3>1. slot'[s] = slot[s]
        BY <2>1, <2>3
      <3>2. ~crashed => \E v \in Workers : job[v] = slot[s] /\ pc[v] \in Holding
        BY <2>3, <3>1 DEF SlotHasHolder
      <3>3. CASE UNCHANGED vars
        BY <2>3, <3>1, <3>2, <3>3 DEF vars
      <3>4. ASSUME NEW r \in Runs,
                   RequestStep(r) \/ RequestTornDown(r) \/ CancelStep(r) \/ LeaseRunsOut(r)
            PROVE  \E v \in Workers : job'[v] = slot'[s] /\ pc'[v] \in Holding
        <4>1. UNCHANGED localVars /\ (crashed => crashed')
          BY <3>4 DEF RequestStep, CreatePendingRun, MarkRunQueued, EnqueueChatRun,
                      RequestTornDown, Crash, CancelStep, RequestRunCancel,
                      CancelWaitingRun, CancelReleaseSlot, CancelActiveRun, LeaseRunsOut
        <4> QED BY <2>3, <3>1, <3>2, <4>1
      <3>5. ASSUME NEW w \in Workers, WorkerStep(w), ~Execute(w)
            PROVE  \E v \in Workers : job'[v] = slot'[s] /\ pc'[v] \in Holding
        BY <2>3, <3>1, <3>2, <3>5, LoopMoves DEF WorkerStep
      <3>6. ASSUME NEW w \in Workers, Execute(w)
            PROVE  \E v \in Workers : job'[v] = slot'[s] /\ pc'[v] \in Holding
        <4>1. PICK v \in Workers : job[v] = slot[s] /\ pc[v] \in Holding
          BY <2>3, <3>2, <3>6, ExecutorMoves
        <4>2. CASE ReleaseSessionSlot(w)
          <5>1. slot[s] # job[w]
            BY <2>3, <3>1, <4>2 DEF ReleaseSessionSlot, SlotFreedOf, SlotOfSession
          <5> QED BY <3>1, <3>6, <4>1, <5>1, ExecutorMoves
        <4>3. CASE ~ReleaseSessionSlot(w)
          BY <3>1, <3>6, <4>1, <4>3, ExecutorMoves
        <4> QED BY <4>2, <4>3
      <3>7. ASSUME NEW w \in Workers, WorkerDies(w) PROVE FALSE
        BY <2>3, <3>7 DEF WorkerDies, Crash
      <3> QED BY <3>3, <3>4, <3>5, <3>6, <3>7 DEF Next
    <2>4. SlotHasHolder'
      BY <2>3 DEF SlotHasHolder
    <2> QED BY <2>2, <2>4
  <1> QED BY <1>1, <1>2

(* Without a crash no path through claims, recoveries, cancels, failures and *)
(* republished finalisations leaves a session's slot to a run nobody holds.  *)
THEOREM SlotNeverLeaks == Spec => []SlotHasHolder
  <1>1. Init => SlotOfSession /\ SlotHasHolder
    BY DEF Init, SlotOfSession, SlotHasHolder
  <1>2. TypeOK /\ TypeOK' /\ SlotOfSession /\ SlotHasHolder /\ [Next]_vars
            => SlotOfSession' /\ SlotHasHolder'
    BY SlotStep
  <1> QED BY <1>1, <1>2, TypeCorrect, PTL DEF Spec

-----------------------------------------------------------------------------
(* What a completed run has on record. *)

(* Transcripts only grow and answers are never taken back. *)
LEMMA RecordsKept ==
    ASSUME TypeOK, [Next]_vars
    PROVE  /\ \A r \in Runs : answered[r] => answered'[r]
           /\ \A s \in Sessions : /\ DOMAIN transcript[s] \subseteq DOMAIN transcript'[s]
                                  /\ \A i \in DOMAIN transcript[s] :
                                        transcript'[s][i] = transcript[s][i]
  <1> USE DEF TypeOK, RowTypes, ChatTypes
  <1> DEFINE Kept == /\ \A r \in Runs : answered[r] => answered'[r]
                     /\ \A s \in Sessions :
                           /\ DOMAIN transcript[s] \subseteq DOMAIN transcript'[s]
                           /\ \A i \in DOMAIN transcript[s] :
                                 transcript'[s][i] = transcript[s][i]
  <1>1. CASE UNCHANGED <<answered, transcript>>
    BY <1>1
  <1>2. ASSUME NEW w \in Workers, NEW m,
               transcript' = [transcript EXCEPT ![SessionOf[job[w]]] = Append(@, m)],
               UNCHANGED answered
        PROVE  Kept
    <2>1. ASSUME NEW s \in Sessions
          PROVE  /\ transcript[s] \in Seq(Message)
                 /\ transcript'[s] = transcript[s] \/ transcript'[s] = Append(transcript[s], m)
      BY <1>2
    <2>2. ASSUME NEW t \in Seq(Message)
          PROVE  /\ DOMAIN t \subseteq DOMAIN Append(t, m)
                 /\ \A i \in DOMAIN t : Append(t, m)[i] = t[i]
      BY <2>2
    <2> QED BY <1>2, <2>1, <2>2
  <1>3. ASSUME NEW w \in Workers, AppendQuestion(w) \/ AppendReply(w) PROVE Kept
    BY <1>2, <1>3 DEF AppendQuestion, AppendReply, WithMessage
  <1>4. ASSUME NEW w \in Workers, PersistAnswer(w) PROVE Kept
    BY <1>4 DEF PersistAnswer
  <1>5. ASSUME NEW w \in Workers, Execute(w), ~AppendQuestion(w), ~AppendReply(w),
               ~PersistAnswer(w)
        PROVE  UNCHANGED <<answered, transcript>>
    BY <1>5 DEF Execute, StartRetrieving, TouchHeartbeat, StartAnswering, StreamChunk,
                ExecutionFails, FinalizeRun, ReleaseSessionSlot
  <1>6. ASSUME NEW w \in Workers, WorkerStep(w) \/ WorkerDies(w), ~Execute(w)
        PROVE  UNCHANGED <<answered, transcript>>
    BY <1>6, LoopMoves DEF WorkerStep, WorkerDies
  <1>7. ASSUME NEW r \in Runs,
               RequestStep(r) \/ RequestTornDown(r) \/ CancelStep(r) \/ LeaseRunsOut(r)
        PROVE  UNCHANGED <<answered, transcript>>
    BY <1>7 DEF RequestStep, CreatePendingRun, MarkRunQueued, EnqueueChatRun,
                RequestTornDown, CancelStep, RequestRunCancel, CancelWaitingRun,
                CancelReleaseSlot, CancelActiveRun, LeaseRunsOut
  <1> QED BY <1>1, <1>3, <1>4, <1>5, <1>6, <1>7 DEF Next, vars

(* So a message that is found, and a turn on record, remain. *)
LEMMA TurnKept ==
    ASSUME TypeOK, [Next]_vars, NEW r \in Runs
    PROVE  /\ \A role : HasMessage(r, role) => HasMessage(r, role)'
           /\ HasTurn(r) => HasTurn(r)'
  <1>1. InSession(r) => SessionOf[r] \in Sessions
    BY SessionAssumption DEF InSession
  <1>2. \A role : HasMessage(r, role) => HasMessage(r, role)'
    BY <1>1, RecordsKept DEF HasMessage, InSession
  <1>3. HasTurn(r) => HasTurn(r)'
    BY <1>1, RecordsKept DEF HasTurn, InSession
  <1> QED BY <1>2, <1>3

(* The first thing a reply finds in the transcript is its question. *)
LEMMA RepliesFollowStep ==
    ASSUME TypeOK, TypeOK', RepliesFollow, Recorded, [Next]_vars
    PROVE  RepliesFollow'
  <1> USE DEF TypeOK, ChatTypes
  <1>1. ASSUME NEW w \in Workers, AppendQuestion(w) \/ AppendReply(w)
        PROVE  RepliesFollow'
    <2> DEFINE r == job[w]
    <2>1. PICK role \in {"user", "assistant"} :
             /\ transcript' = WithMessage(r, role)
             /\ role = "assistant" => HasMessage(r, "user") \/ ~InSession(r)
      <3>1. r \in Runs
        BY <1>1, JobType DEF AppendQuestion, AppendReply, LocalOK
      <3> QED BY <1>1, <3>1 DEF AppendQuestion, AppendReply, Recorded
    <2> DEFINE m == [run |-> r, role |-> role]
    <2> SUFFICES ASSUME NEW s \in Sessions, NEW j \in DOMAIN transcript'[s],
                        transcript'[s][j].role = "assistant"
                 PROVE  \E i \in DOMAIN transcript'[s] :
                           /\ i < j
                           /\ transcript'[s][i] = [run |-> transcript'[s][j].run, role |-> "user"]
      BY DEF RepliesFollow
    <2>2. /\ DOMAIN transcript[s] = 1..Len(transcript[s])
          /\ DOMAIN transcript[s] \subseteq DOMAIN transcript'[s]
          /\ \A i \in DOMAIN transcript[s] : transcript'[s][i] = transcript[s][i]
      BY RecordsKept
    <2>3. CASE j \in DOMAIN transcript[s]
      <3>1. transcript'[s][j] = transcript[s][j]
        BY <2>2, <2>3
      <3>2. PICK i \in DOMAIN transcript[s] :
               i < j /\ transcript[s][i] = [run |-> transcript[s][j].run, role |-> "user"]
        BY <2>3, <3>1 DEF RepliesFollow
      <3> QED BY <2>2, <3>1, <3>2
    <2>4. CASE j \notin DOMAIN transcript[s]
      <3>1. s = SessionOf[r] /\ transcript'[s] = Append(transcript[s], m)
        BY <2>1, <2>4 DEF WithMessage
      <3>2. j = Len(transcript[s]) + 1 /\ transcript'[s][j] = m
        <4> HIDE DEF m
        <4>1. transcript[s] \in Seq(Message)
          OBVIOUS
        <4>2. DOMAIN transcript'[s] = 1..(Len(transcript[s]) + 1)
          BY <3>1, <4>1
        <4>3. j = Len(transcript[s]) + 1
          BY <2>2, <2>4, <4>1, <4>2
        <4> QED BY <3>1, <4>1, <4>3
      <3>3. role = "assistant"
        BY <3>2
      <3>4. HasMessage(r, "user")
        BY <2>1, <3>1, <3>3, SessionAssumption DEF InSession
      <3>5. PICK i \in DOMAIN transcript[s] : transcript[s][i] = [run |-> r, role |-> "user"]
        BY <3>1, <3>4 DEF HasMessage
      <3> QED BY <2>2, <3>2, <3>5
    <2> QED BY <2>3, <2>4
  <1>2. ASSUME \A w \in Workers : ~AppendQuestion(w) /\ ~AppendReply(w)
        PROVE  RepliesFollow'
    <2>1. UNCHANGED transcript
      <3>1. CASE UNCHANGED vars
        BY <3>1 DEF vars
      <3>2. ASSUME NEW w \in Workers, Execute(w) PROVE UNCHANGED transcript
        BY <1>2, <3>2
           DEF Execute, StartRetrieving, TouchHeartbeat, StartAnswering, StreamChunk,
               PersistAnswer, ExecutionFails, FinalizeRun, ReleaseSessionSlot
      <3>3. ASSUME NEW w \in Workers, WorkerStep(w) \/ WorkerDies(w), ~Execute(w)
            PROVE  UNCHANGED transcript
        BY <3>3, LoopMoves DEF WorkerStep, WorkerDies
      <3>4. ASSUME NEW r \in Runs,
                   RequestStep(r) \/ RequestTornDown(r) \/ CancelStep(r) \/ LeaseRunsOut(r)
            PROVE  UNCHANGED transcript
        BY <3>4 DEF RequestStep, CreatePendingRun, MarkRunQueued, EnqueueChatRun,
                    RequestTornDown, CancelStep, RequestRunCancel, CancelWaitingRun,
                    CancelReleaseSlot, CancelActiveRun, LeaseRunsOut
      <3> QED BY <3>1, <3>2, <3>3, <3>4 DEF Next
    <2> QED BY <2>1 DEF RepliesFollow
  <1> QED BY <1>1, <1>2

(* A reply that follows its question makes a turn. *)
LEMMA ReplyIsTurn ==
    ASSUME NEW t, NEW r,
           \A j \in DOMAIN t : t[j].role = "assistant" =>
               \E i \in DOMAIN t : i < j /\ t[i] = [run |-> t[j].run, role |-> "user"],
           \E j \in DOMAIN t : t[j] = [run |-> r, role |-> "assistant"]
    PROVE  \E i, j \in DOMAIN t : /\ i < j
                                  /\ t[i] = [run |-> r, role |-> "user"]
                                  /\ t[j] = [run |-> r, role |-> "assistant"]
  <1>1. PICK j \in DOMAIN t : t[j] = [run |-> r, role |-> "assistant"]
    OBVIOUS
  <1>2. t[j].run = r /\ t[j].role = "assistant"
    BY <1>1
  <1>3. PICK i \in DOMAIN t : i < j /\ t[i] = [run |-> r, role |-> "user"]
    BY <1>2
  <1> QED BY <1>1, <1>3

(* A message that is appended is found. *)
LEMMA AppendedIsFound ==
    ASSUME ChatTypes, NEW r \in Runs, InSession(r), NEW role \in {"user", "assistant"},
           transcript' = WithMessage(r, role)
    PROVE  HasMessage(r, role)'
  <1> DEFINE m == [run |-> r, role |-> role]
             t == transcript[SessionOf[r]]
  <1>1. SessionOf[r] \in Sessions
    BY SessionAssumption DEF InSession
  <1>2. t \in Seq(Message) /\ transcript'[SessionOf[r]] = Append(t, m)
    BY <1>1 DEF WithMessage, ChatTypes
  <1>3. Len(t) + 1 \in DOMAIN Append(t, m) /\ Append(t, m)[Len(t) + 1] = m
    BY <1>2
  <1> QED BY <1>2, <1>3 DEF HasMessage, InSession

(* The question that was looked for or appended is on record. *)
LEMMA QuestionRecorded ==
    ASSUME TypeOK, Recorded, [Next]_vars, NEW w \in Workers, Execute(w),
           NEW r \in Runs, job[w] = r, InSession(r),
           pc'[w] \in {"retrieve", "answer", "stream", "reply"}
    PROVE  HasMessage(r, "user")'
  <1> USE DEF TypeOK, WorkerTypes, Goto, BeginFinalize
  <1>1. CASE AppendQuestion(w)
    BY <1>1, AppendedIsFound DEF AppendQuestion
  <1>2. CASE HasMessage(r, "user")
    BY <1>2, TurnKept
  <1>3. CASE StartRetrieving(w)
    <2>1. HasMessage(r, "user")
      BY <1>3 DEF StartRetrieving, RefreshAndCheck
    <2> QED BY <1>2, <2>1
  <1>4. CASE ~AppendQuestion(w) /\ ~StartRetrieving(w)
    <2>1. pc[w] \in {"retrieve", "answer", "stream", "reply"}
      BY <1>4 DEF Execute, TouchHeartbeat, StartAnswering, StreamChunk, PersistAnswer,
                  AppendReply, ExecutionFails, FinalizeRun, ReleaseSessionSlot,
                  RefreshAndCheck, ReturnToLoop
    <2> QED BY <1>2, <2>1 DEF Recorded
  <1> QED BY <1>1, <1>3, <1>4

(* A finalisation begins as completed only for a turn on record. *)
LEMMA CompletionRecorded ==
    ASSUME TypeOK, TypeOK', RepliesFollow', Recorded, [Next]_vars,
           NEW w \in Workers, Execute(w), NEW r \in Runs, job[w] = r,
           pc'[w] \in {"finalize", "release"}, goal'[w] = "completed"
    PROVE  HasTurn(r)'
  <1> USE DEF TypeOK, WorkerTypes, Goto, BeginFinalize
  <1>a. ASSUME answered'[r], InSession(r) => HasMessage(r, "assistant")'
        PROVE  HasTurn(r)'
    <2>1. ASSUME InSession(r)
          PROVE  \E i, j \in DOMAIN transcript'[SessionOf[r]] :
                    /\ i < j
                    /\ transcript'[SessionOf[r]][i] = [run |-> r, role |-> "user"]
                    /\ transcript'[SessionOf[r]][j] = [run |-> r, role |-> "assistant"]
      <3>1. SessionOf[r] \in Sessions
        BY <2>1, SessionAssumption DEF InSession
      <3> DEFINE t == transcript'[SessionOf[r]]
      <3>2. \A j \in DOMAIN t : t[j].role = "assistant" =>
               \E i \in DOMAIN t : i < j /\ t[i] = [run |-> t[j].run, role |-> "user"]
        BY <3>1 DEF RepliesFollow
      <3>3. \E j \in DOMAIN t : t[j] = [run |-> r, role |-> "assistant"]
        BY <1>a, <2>1 DEF HasMessage
      <3> HIDE DEF t
      <3>4. \E i, j \in DOMAIN t : /\ i < j
                                   /\ t[i] = [run |-> r, role |-> "user"]
                                   /\ t[j] = [run |-> r, role |-> "assistant"]
        BY <3>2, <3>3, ReplyIsTurn
      <3> QED BY <3>4 DEF t
    <2> QED BY <1>a, <2>1 DEF HasTurn, InSession
  <1>1. CASE PersistAnswer(w)
    <2>1. answered'[r] /\ UNCHANGED transcript
      BY <1>1 DEF PersistAnswer, RowTypes
    <2>2. InSession(r) => HasMessage(r, "assistant")
      BY <1>1 DEF PersistAnswer
    <2> QED BY <1>a, <2>1, <2>2 DEF HasMessage, InSession
  <1>2. CASE AppendReply(w)
    <2>1. answered'[r]
      BY <1>2 DEF AppendReply, Recorded
    <2>2. InSession(r) => HasMessage(r, "assistant")'
      BY <1>2, AppendedIsFound DEF AppendReply
    <2> QED BY <1>a, <2>1, <2>2
  <1>3. CASE FinalizeRun(w)
    <2>1. HasTurn(r)
      BY <1>3 DEF FinalizeRun, Recorded
    <2> QED BY <2>1, TurnKept
  <1>4. CASE ~PersistAnswer(w) /\ ~AppendReply(w) /\ ~FinalizeRun(w)
    BY <1>4, CancelStatusType
       DEF Execute, StartRetrieving, AppendQuestion, TouchHeartbeat, StartAnswering,
           StreamChunk, ExecutionFails, ReleaseSessionSlot, RefreshAndCheck,
           ReturnToLoop, Working
  <1> QED BY <1>1, <1>2, <1>3, <1>4

(* What executors have recorded at each step is kept and added to. *)
LEMMA RecordedStep ==
    ASSUME TypeOK, TypeOK', RepliesFollow', Recorded, [Next]_vars
    PROVE  Recorded'
  <1> USE DEF TypeOK, WorkerTypes
  <1> SUFFICES ASSUME NEW w \in Workers, NEW r \in Runs, job'[w] = r
               PROVE  /\ pc'[w] \in {"retrieve", "answer", "stream", "reply"} /\ InSession(r)
                             => HasMessage(r, "user")'
                      /\ pc'[w] = "reply" => answered'[r]
                      /\ pc'[w] \in {"finalize", "release"} /\ goal'[w] = "completed"
                             => HasTurn(r)'
    BY DEF Recorded, InSession
  <1> DEFINE Good == /\ pc'[w] \in {"retrieve", "answer", "stream", "reply"} /\ InSession(r)
                             => HasMessage(r, "user")'
                     /\ pc'[w] = "reply" => answered'[r]
                     /\ pc'[w] \in {"finalize", "release"} /\ goal'[w] = "completed"
                             => HasTurn(r)'
  <1>a. ASSUME pc'[w] = pc[w], job'[w] = job[w], goal'[w] = goal[w] PROVE Good
    BY <1>a, TurnKept, RecordsKept DEF Recorded
  <1>1. CASE UNCHANGED vars
    BY <1>1, <1>a DEF vars
  <1>2. ASSUME NEW q \in Runs,
               RequestStep(q) \/ RequestTornDown(q) \/ CancelStep(q) \/ LeaseRunsOut(q)
        PROVE  Good
    <2>1. UNCHANGED localVars
      BY <1>2 DEF RequestStep, CreatePendingRun, MarkRunQueued, EnqueueChatRun,
                  RequestTornDown, CancelStep, RequestRunCancel, CancelWaitingRun,
                  CancelReleaseSlot, CancelActiveRun, LeaseRunsOut
    <2> QED BY <1>a, <2>1
  <1>3. ASSUME NEW v \in Workers \ {w}, WorkerStep(v) \/ WorkerDies(v) PROVE Good
    BY <1>3, <1>a, LoopMoves, ExecutorMoves DEF WorkerStep, WorkerDies, ReturnToLoop, Goto
  <1>4. CASE Execute(w)
    <2>1. job[w] = r
      BY <1>4, ExecutorMoves, RunsAssumption
    <2>2. ASSUME pc'[w] = "reply" PROVE answered'[r]
      <3>1. PersistAnswer(w)
        BY <1>4, <2>2
           DEF Execute, StartRetrieving, AppendQuestion, TouchHeartbeat, StartAnswering,
               StreamChunk, AppendReply, ExecutionFails, FinalizeRun, ReleaseSessionSlot,
               RefreshAndCheck, ReturnToLoop, BeginFinalize, Goto
      <3> QED BY <2>1, <3>1 DEF PersistAnswer, RowTypes
    <2> QED BY <1>4, <2>1, <2>2, QuestionRecorded, CompletionRecorded
  <1>5. CASE WorkerDies(w)
    BY <1>5 DEF WorkerDies, ReturnToLoop, Goto
  <1>6. CASE WorkerStep(w) /\ ~Execute(w)
    <2>1. /\ pc'[w] \notin {"retrieve", "answer", "stream", "reply", "release"}
          /\ pc'[w] = "finalize" => goal'[w] # "completed"
      <3> USE DEF Pop, Load, ReturnToLoop, BeginFinalize, Goto
      <3>1. CASE SelectStaleRuns(w)
        BY <3>1, CancelStatusType DEF SelectStaleRuns
      <3>2. CASE LoadAfterRequeue(w)
        BY <3>2, CancelStatusType DEF LoadAfterRequeue
      <3>3. CASE RequeueStaleRuns(w) \/ PushRequeuedRun(w) \/ PushFails(w)
        BY <3>3 DEF RequeueStaleRuns, PushRequeuedRun, PushFails
      <3>4. CASE PopAfterRequeue(w) \/ PopTimesOut(w)
        BY <3>4 DEF PopAfterRequeue, PopTimesOut
      <3>5. CASE ClaimSessionSlot(w) \/ RequeueWaitingRun(w)
        BY <3>5 DEF ClaimSessionSlot, RequeueWaitingRun
      <3> QED BY <1>6, <3>1, <3>2, <3>3, <3>4, <3>5 DEF WorkerStep
    <2> QED BY <2>1
  <1> QED BY <1>1, <1>2, <1>3, <1>4, <1>5, <1>6 DEF Next

(* Only a finalisation completes a run. *)
LEMMA CompletedStep ==
    ASSUME TypeOK, TypeOK', Recorded, CompletedHasTurn, [Next]_vars
    PROVE  CompletedHasTurn'
  <1> USE DEF TypeOK, RowTypes
  <1>1. ASSUME NEW r \in Runs, status'[r] = "completed", status[r] # "completed"
        PROVE  HasTurn(r)
    <2>1. ASSUME NEW w \in Workers, FinalizeRun(w) PROVE HasTurn(r)
      BY <1>1, <2>1 DEF FinalizeRun, CommitRun, Recorded
    <2>2. ASSUME NEW w \in Workers, StartRetrieving(w) \/ StartAnswering(w) PROVE FALSE
      BY <1>1, <2>2 DEF StartRetrieving, StartAnswering, CommitRun
    <2>3. ASSUME NEW w \in Workers, Execute(w), ~FinalizeRun(w), ~StartRetrieving(w),
                 ~StartAnswering(w)
          PROVE  FALSE
      BY <1>1, <2>3 DEF Execute, AppendQuestion, TouchHeartbeat, StreamChunk,
                        PersistAnswer, AppendReply, ExecutionFails, ReleaseSessionSlot
    <2>4. ASSUME NEW w \in Workers, RequeueStaleRuns(w) PROVE FALSE
      BY <1>1, <2>4 DEF RequeueStaleRuns
    <2>5. ASSUME NEW w \in Workers, WorkerStep(w) \/ WorkerDies(w), ~Execute(w),
                 ~RequeueStaleRuns(w)
          PROVE  FALSE
      BY <1>1, <2>5 DEF WorkerStep, SelectStaleRuns, PushRequeuedRun, PopAfterRequeue,
                        PopTimesOut, LoadAfterRequeue, ClaimSessionSlot,
                        RequeueWaitingRun, PushFails, WorkerDies
    <2>6. ASSUME NEW q \in Runs,
                 RequestStep(q) \/ RequestTornDown(q) \/ CancelStep(q) \/ LeaseRunsOut(q)
          PROVE  FALSE
      BY <1>1, <2>6, CancelStatusType
         DEF RequestStep, CreatePendingRun, MarkRunQueued, EnqueueChatRun,
             RequestTornDown, CancelStep, RequestRunCancel, CancelWaitingRun,
             CancelReleaseSlot, CancelActiveRun, LeaseRunsOut
    <2>7. CASE UNCHANGED vars
      BY <1>1, <2>7 DEF vars
    <2> QED BY <2>1, <2>2, <2>3, <2>4, <2>5, <2>6, <2>7 DEF Next
  <1>2. ASSUME NEW r \in Runs, status'[r] = "completed" PROVE HasTurn(r)'
    BY <1>1, <1>2, TurnKept DEF CompletedHasTurn
  <1> QED BY <1>2 DEF CompletedHasTurn

(* However often a run is executed, recovered, cancelled or failed: when its *)
(* status says completed, its answer and its turn are on record.             *)
THEOREM CompletedRunsHaveTurns == Spec => []CompletedHasTurn
  <1> DEFINE I == RepliesFollow /\ Recorded /\ CompletedHasTurn
  <1>1. Init => I
    BY DEF Init, RepliesFollow, Recorded, CompletedHasTurn
  <1>2. TypeOK /\ TypeOK' /\ I /\ [Next]_vars => I'
    BY RepliesFollowStep, RecordedStep, CompletedStep
  <1>3. I => CompletedHasTurn
    OBVIOUS
  <1> QED BY <1>1, <1>2, <1>3, TypeCorrect, PTL DEF Spec
=============================================================================
