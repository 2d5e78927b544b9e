------------------------- MODULE ChatRunsExclusion -------------------------
(***************************************************************************)
(* One turn at a time: the runs of a session that neither lease recovery   *)
(* nor an API cancel has rewritten exclude each other and end once, for    *)
(* every set of runs, sessions and workers and any number of faults.       *)
(***************************************************************************)
EXTENDS ChatRunsSafety

USE DEF rowVars, chatVars, clientVars, localVars, faultVars

-----------------------------------------------------------------------------
(* The inductive invariant. *)

(* An undisturbed run is in one place: its request has yet to push it, or it *)
(* has one message in the list, or one worker handles it.                    *)
OnePlace ==
    \A r \in Runs \ disturbed :
        /\ request[r] # "done" => ~InQueue(r) /\ \A w \in Workers : job[w] # r
        /\ InQueue(r) => \A w \in Workers : job[w] # r
        /\ \A i, j \in DOMAIN queue : queue[i] = r /\ queue[j] = r => i = j
        /\ \A v, w \in Workers : job[v] = r /\ job[w] = r => v = w
        /\ \A w \in Workers : pc[w] = "repush" => r \notin stale[w]

(* The slot of an undisturbed run stays its own while it is worked on. *)
WorkHoldsSlot ==
    \A w \in Workers :
        pc[w] \in Working /\ job[w] \notin disturbed /\ InSession(job[w])
            => slot[SessionOf[job[w]]] = job[w]

(* A cancel request that is about to free a slot has rewritten the run. *)
CancelDisturbs == \A r \in Runs : canceller[r] = "release" => r \in disturbed

(* Once an undisturbed run has ended, only its own executor still has it, on *)
(* the way out or about to record that its events were not published.        *)
EndedIsLeft ==
    \A r \in Runs \ disturbed :
        /\ status[r] = "none" => request[r] = "idle"
        /\ request[r] = "created" => status[r] = "accepted"
        /\ status[r] \in Terminal =>
              /\ request[r] = "done" /\ ~InQueue(r)
              /\ \A w \in Workers : job[w] = r =>
                    pc[w] = "release" \/ (pc[w] = "finalize" /\ goal[w] = "failed")

-----------------------------------------------------------------------------
(* One place per run. *)

(* A run is pushed once when it was nowhere. *)
LEMMA PushKeepsOnePlace ==
    ASSUME TypeOK, OnePlace, NEW q \in Runs, queue' = Append(queue, q),
           q \notin disturbed' => ~InQueue(q) /\ \A w \in Workers : job'[w] # q,
           q \notin disturbed' => request'[q] = "done",
           \A r \in Runs \ {q} : request'[r] = request[r],
           disturbed \subseteq disturbed',
           \A w \in Workers : job'[w] \in {job[w], NoRun},
           \A w \in Workers : pc'[w] = "repush" => pc[w] = "repush" /\ stale'[w] \subseteq stale[w]
    PROVE  OnePlace'
  <1>1. /\ queue \in Seq(Runs) /\ DOMAIN queue = 1..Len(queue)
        /\ DOMAIN queue' = 1..(Len(queue) + 1) /\ queue'[Len(queue) + 1] = q
        /\ \A i \in 1..Len(queue) : queue'[i] = queue[i]
    BY DEF TypeOK, ChatTypes
  <1>2. \A r \in Runs \ {q} : InQueue(r)' => InQueue(r)
    BY <1>1 DEF InQueue
  <1> SUFFICES ASSUME NEW r \in Runs \ disturbed'
               PROVE  /\ request'[r] # "done" => ~InQueue(r)' /\ \A w \in Workers : job'[w] # r
                      /\ InQueue(r)' => \A w \in Workers : job'[w] # r
                      /\ \A i, j \in DOMAIN queue' : queue'[i] = r /\ queue'[j] = r => i = j
                      /\ \A v, w \in Workers : job'[v] = r /\ job'[w] = r => v = w
                      /\ \A w \in Workers : pc'[w] = "repush" => r \notin stale'[w]
    BY DEF OnePlace
  <1>3. r \in Runs \ disturbed /\ r # NoRun
    BY RunsAssumption
  <1>4. CASE r = q
    BY <1>1, <1>3, <1>4 DEF OnePlace, InQueue
  <1>5. CASE r # q
    BY <1>1, <1>2, <1>3, <1>5 DEF OnePlace
  <1> QED BY <1>4, <1>5

(* A worker that had no run pops one. *)
LEMMA PopKeepsOnePlace ==
    ASSUME TypeOK, OnePlace, NEW w \in Workers, Pop(w), job[w] = NoRun,
           UNCHANGED <<request, stale, disturbed>>
    PROVE  OnePlace'
  <1>1. /\ queue \in Seq(Runs) /\ queue # <<>> /\ DOMAIN queue = 1..Len(queue)
        /\ DOMAIN queue' = 1..(Len(queue) - 1)
        /\ \A i \in DOMAIN queue' : queue'[i] = queue[i + 1] /\ i + 1 \in DOMAIN queue
        /\ 1 \in DOMAIN queue
    BY DEF TypeOK, ChatTypes, Pop
  <1>2. /\ job'[w] = queue[1] /\ \A v \in Workers \ {w} : job'[v] = job[v]
        /\ \A v \in Workers : pc'[v] = "repush" => pc[v] = "repush"
    BY <1>1 DEF TypeOK, WorkerTypes, Pop, Goto
  <1>3. \A r \in Runs : InQueue(r)' => InQueue(r)
    BY <1>1 DEF InQueue
  <1>4. ASSUME NEW r \in Runs \ disturbed, r = queue[1]
        PROVE  ~InQueue(r)' /\ request[r] = "done" /\ \A v \in Workers : job[v] # r
    <2>1. InQueue(r)
      BY <1>1, <1>4 DEF InQueue
    <2>2. \A i, j \in DOMAIN queue : queue[i] = r /\ queue[j] = r => i = j
      BY DEF OnePlace
    <2>3. ~InQueue(r)'
      BY <1>1, <1>4, <2>2 DEF InQueue
    <2> QED BY <2>1, <2>3 DEF OnePlace
  <1>5. \A r \in Runs \ disturbed : \A i, j \in DOMAIN queue' :
            queue'[i] = r /\ queue'[j] = r => i = j
    BY <1>1 DEF OnePlace
  <1> QED BY <1>2, <1>3, <1>4, <1>5 DEF OnePlace

(* Runs are dropped or stay where they are. *)
LEMMA StayKeepsOnePlace ==
    ASSUME TypeOK, OnePlace, UNCHANGED queue,
           disturbed \subseteq disturbed',
           \A r \in Runs : request'[r] # "done" => request[r] # "done",
           \A w \in Workers : job'[w] \in {job[w], NoRun},
           \A w \in Workers : pc'[w] = "repush" =>
               stale'[w] \subseteq disturbed' \/ (pc[w] = "repush" /\ stale'[w] \subseteq stale[w])
    PROVE  OnePlace'
  <1>1. \A r \in Runs : r # NoRun /\ (InQueue(r)' <=> InQueue(r))
    BY RunsAssumption DEF InQueue
  <1> QED BY <1>1 DEF OnePlace

(* Every step keeps an undisturbed run in its one place. *)
LEMMA OnePlaceStep ==
    ASSUME TypeOK, TypeOK', OnePlace, [Next]_vars
    PROVE  OnePlace'
  <1> USE DEF TypeOK, ClientTypes, WorkerTypes
  <1>1. CASE UNCHANGED vars
    BY <1>1, StayKeepsOnePlace DEF vars
  <1>2. ASSUME NEW r \in Runs, EnqueueChatRun(r) PROVE OnePlace'
    BY <1>2, PushKeepsOnePlace DEF EnqueueChatRun, OnePlace
  <1>3. ASSUME NEW r \in Runs,
               \/ CreatePendingRun(r) \/ MarkRunQueued(r) \/ RequestTornDown(r)
               \/ CancelStep(r) \/ LeaseRunsOut(r)
        PROVE  OnePlace'
    <2>1. /\ UNCHANGED <<queue, localVars>> /\ disturbed \subseteq disturbed'
          /\ \A q \in Runs : request'[q] # "done" => request[q] # "done"
      BY <1>3 DEF CreatePendingRun, MarkRunQueued, RequestTornDown, CancelStep,
                  RequestRunCancel, CancelWaitingRun, CancelReleaseSlot,
                  CancelActiveRun, LeaseRunsOut
    <2> QED BY <2>1, StayKeepsOnePlace
  <1>4. ASSUME NEW w \in Workers, SelectStaleRuns(w) PROVE OnePlace'
    <2>a. UNCHANGED <<request, disturbed>>
      BY <1>4 DEF SelectStaleRuns
    <2>1. CASE Goto(w, "requeue") /\ UNCHANGED <<queue, job>>
      <3>1. \A v \in Workers : pc'[v] = "repush" => pc[v] = "repush" /\ v # w
        BY <2>1 DEF Goto
      <3>2. \A v \in Workers \ {w} : stale'[v] = stale[v]
        BY <1>4 DEF SelectStaleRuns
      <3> QED BY <2>a, <2>1, <3>1, <3>2, StayKeepsOnePlace
    <2>2. CASE job[w] = NoRun /\ Pop(w) /\ UNCHANGED stale
      BY <1>4, <2>2, PopKeepsOnePlace DEF SelectStaleRuns
    <2>3. CASE Load(w) /\ UNCHANGED <<queue, stale>>
      BY <2>a, <2>3, StayKeepsOnePlace DEF Load, Goto, ReturnToLoop, BeginFinalize
    <2> QED BY <1>4, <2>1, <2>2, <2>3 DEF SelectStaleRuns
  <1>5. ASSUME NEW w \in Workers, RequeueStaleRuns(w) PROVE OnePlace'
    BY <1>5, StayKeepsOnePlace DEF RequeueStaleRuns, Goto
  <1>6. ASSUME NEW w \in Workers, PushRequeuedRun(w) PROVE OnePlace'
    <2>1. PICK q \in stale[w] : /\ queue' = Append(queue, q)
                                /\ stale' = [stale EXCEPT ![w] = @ \ {q}]
      BY <1>6 DEF PushRequeuedRun
    <2>2. q \in Runs /\ q \in disturbed
      BY <1>6, <2>1 DEF PushRequeuedRun, OnePlace
    <2> QED BY <1>6, <2>1, <2>2, PushKeepsOnePlace DEF PushRequeuedRun, Goto
  <1>7. ASSUME NEW w \in Workers, PopAfterRequeue(w) PROVE OnePlace'
    BY <1>7, PopKeepsOnePlace DEF PopAfterRequeue, LocalFits
  <1>8. ASSUME NEW w \in Workers, PopTimesOut(w) \/ LoadAfterRequeue(w) \/ ClaimSessionSlot(w)
        PROVE  OnePlace'
    BY <1>8, StayKeepsOnePlace
       DEF PopTimesOut, LoadAfterRequeue, ClaimSessionSlot, Load, Goto, ReturnToLoop,
           BeginFinalize
  <1>9. ASSUME NEW w \in Workers, RequeueWaitingRun(w) PROVE OnePlace'
    <2>1. job[w] \in Runs /\ queue' = Append(queue, job[w])
      BY <1>9, JobType DEF RequeueWaitingRun, LocalOK
    <2>2. \A v \in Workers : job'[v] = IF v = w THEN NoRun ELSE job[v]
      BY <1>9 DEF RequeueWaitingRun, ReturnToLoop
    <2>3. job[w] \notin disturbed' =>
             /\ request'[job[w]] = "done" /\ ~InQueue(job[w])
             /\ \A v \in Workers : job'[v] # job[w]
      <3> SUFFICES ASSUME job[w] \notin disturbed'
                   PROVE  /\ request[job[w]] = "done" /\ ~InQueue(job[w])
                          /\ \A v \in Workers \ {w} : job[v] # job[w]
        BY <1>9, <2>1, <2>2, RunsAssumption DEF RequeueWaitingRun
      <3>1. job[w] \in Runs \ disturbed
        BY <1>9, <2>1 DEF RequeueWaitingRun
      <3> QED BY <3>1 DEF OnePlace
    <2> QED BY <1>9, <2>1, <2>2, <2>3, PushKeepsOnePlace
            DEF RequeueWaitingRun, ReturnToLoop, Goto
  <1>10. ASSUME NEW w \in Workers, PushFails(w) \/ WorkerDies(w) PROVE OnePlace'
    BY <1>10, StayKeepsOnePlace
       DEF PushFails, WorkerDies, Goto, ReturnToLoop, BeginFinalize
  <1>11. ASSUME NEW w \in Workers, Execute(w) PROVE OnePlace'
    BY <1>11, ExecutorMoves, StayKeepsOnePlace DEF Holding, Working
  <1> QED BY <1>1, <1>2, <1>3, <1>4, <1>5, <1>6, <1>7, <1>8, <1>9, <1>10, <1>11
          DEF Next, RequestStep, WorkerStep

-----------------------------------------------------------------------------
(* The slot protects the run that is worked on. *)

(* A cancel that is about to release a slot has disturbed its run.            *)
LEMMA CancelDisturbsStep ==
    ASSUME TypeOK, CancelDisturbs, [Next]_vars
    PROVE  CancelDisturbs' /\ disturbed \subseteq disturbed'
  <1> USE DEF TypeOK, ClientTypes, CancelDisturbs
  <1>1. CASE UNCHANGED vars
    BY <1>1 DEF vars
  <1>2. ASSUME NEW r \in Runs, CancelStep(r)
        PROVE  CancelDisturbs' /\ disturbed \subseteq disturbed'
    BY <1>2 DEF CancelStep, RequestRunCancel, CancelWaitingRun, CancelReleaseSlot,
                CancelActiveRun
  <1>3. ASSUME NEW r \in Runs, RequestStep(r) \/ RequestTornDown(r) \/ LeaseRunsOut(r)
        PROVE  CancelDisturbs' /\ disturbed \subseteq disturbed'
    BY <1>3 DEF RequestStep, CreatePendingRun, MarkRunQueued, EnqueueChatRun,
                RequestTornDown, LeaseRunsOut
  <1>4. ASSUME NEW w \in Workers, WorkerStep(w) \/ WorkerDies(w)
        PROVE  UNCHANGED canceller /\ disturbed \subseteq disturbed'
    <2>1. CASE Execute(w)
      BY <2>1 DEF Execute, StartRetrieving, AppendQuestion, TouchHeartbeat,
                  StartAnswering, StreamChunk, PersistAnswer, AppendReply,
                  ExecutionFails, FinalizeRun, ReleaseSessionSlot
    <2>2. CASE ~Execute(w)
      BY <1>4, <2>2 DEF WorkerStep, SelectStaleRuns, RequeueStaleRuns, PushRequeuedRun,
                  PopAfterRequeue, PopTimesOut, LoadAfterRequeue, ClaimSessionSlot,
                  RequeueWaitingRun, PushFails, WorkerDies
    <2> QED BY <2>1, <2>2
  <1> QED BY <1>1, <1>2, <1>3, <1>4 DEF Next

(* An undisturbed run loses its slot only to its own executor's release. *)
LEMMA SlotKept ==
    ASSUME TypeOK, CancelDisturbs, [Next]_vars, NEW r \in Runs \ disturbed',
           InSession(r), slot[SessionOf[r]] = r,
           \A w \in Workers : ReleaseSessionSlot(w) => job[w] # r
    PROVE  slot'[SessionOf[r]] = r
  <1> DEFINE s == SessionOf[r]
  <1>1. r # NoRun /\ s \in Sessions /\ r \notin disturbed
    BY RunsAssumption, SessionAssumption, CancelDisturbsStep DEF InSession
  <1>2. ASSUME NEW v \in Workers, ClaimSessionSlot(v) PROVE slot'[s] = r
    BY <1>1, <1>2 DEF ClaimSessionSlot, TypeOK, ChatTypes
  <1>3. ASSUME NEW v \in Workers, ReleaseSessionSlot(v) PROVE slot'[s] = r
    BY <1>1, <1>3 DEF ReleaseSessionSlot, SlotFreedOf
  <1>4. ASSUME NEW v \in Workers, RequeueStaleRuns(v) PROVE slot'[s] = r
    BY <1>1, <1>4 DEF RequeueStaleRuns, SlotFreedOf
  <1>5. ASSUME NEW q \in Runs, CancelReleaseSlot(q) PROVE slot'[s] = r
    BY <1>1, <1>5 DEF CancelReleaseSlot, SlotFreedOf, CancelDisturbs
  <1>6. ASSUME NEW v \in Workers, Execute(v), ~ReleaseSessionSlot(v)
        PROVE  UNCHANGED slot
    BY <1>6 DEF Execute, StartRetrieving, AppendQuestion, TouchHeartbeat,
                StartAnswering, StreamChunk, PersistAnswer, AppendReply,
                ExecutionFails, FinalizeRun
  <1>7. ASSUME NEW v \in Workers, WorkerStep(v) \/ WorkerDies(v), ~Execute(v),
               ~ClaimSessionSlot(v), ~RequeueStaleRuns(v)
        PROVE  UNCHANGED slot
    BY <1>7 DEF WorkerStep, SelectStaleRuns, PushRequeuedRun, PopAfterRequeue,
                PopTimesOut, LoadAfterRequeue, RequeueWaitingRun, PushFails, WorkerDies
  <1>8. ASSUME NEW q \in Runs, ~CancelReleaseSlot(q),
                RequestStep(q) \/ RequestTornDown(q) \/ CancelStep(q) \/ LeaseRunsOut(q)
         PROVE  UNCHANGED slot
    BY <1>8 DEF RequestStep, CreatePendingRun, MarkRunQueued, EnqueueChatRun,
                RequestTornDown, CancelStep, RequestRunCancel, CancelWaitingRun,
                CancelActiveRun, LeaseRunsOut
  <1> QED BY <1>2, <1>3, <1>4, <1>5, <1>6, <1>7, <1>8 DEF Next, vars

(* The slot an executor claimed stays its own until its run is disturbed.     *)
LEMMA WorkHoldsSlotStep ==
    ASSUME TypeOK, TypeOK', OnePlace, CancelDisturbs, WorkHoldsSlot, [Next]_vars
    PROVE  WorkHoldsSlot'
  <1> USE DEF TypeOK, WorkerTypes
  <1> SUFFICES ASSUME NEW w \in Workers, pc'[w] \in Working,
                      job'[w] \notin disturbed', InSession(job'[w])
               PROVE  slot'[SessionOf[job'[w]]] = job'[w]
    BY DEF WorkHoldsSlot, InSession
  <1> DEFINE r == job'[w]
             s == SessionOf[r]
  <1>1. pc'[w] \in Holding /\ r # NoRun /\ r \in Runs /\ s \in Sessions
    <2>1. pc'[w] \notin {"reap", "requeue", "repush", "pop"} /\ pc'[w] \in Holding
      BY DEF Working, Holding
    <2>2. r # NoRun /\ r \in Runs
      BY <2>1 DEF LocalFits
    <2> QED BY <2>1, <2>2, SessionAssumption DEF InSession
  <1>2. r \notin disturbed
    BY CancelDisturbsStep
  <1>3. CASE ClaimSessionSlot(w)
    BY <1>1, <1>3 DEF ClaimSessionSlot, Goto, ChatTypes, Working
  <1>4. CASE ~ClaimSessionSlot(w)
    <2>1. pc[w] \in Working /\ job[w] = r
      <3>1. CASE UNCHANGED localVars
        BY <3>1
      <3>2. CASE Execute(w)
        <4>1. job[w] = r
          BY <1>1, <3>2, ExecutorMoves
        <4> QED BY <3>2, <4>1
               DEF Execute, StartRetrieving, AppendQuestion, TouchHeartbeat,
                   StartAnswering, StreamChunk, PersistAnswer, AppendReply,
                   ExecutionFails, FinalizeRun, ReleaseSessionSlot, Goto, ReturnToLoop,
                   BeginFinalize, Working
      <3>3. CASE \/ SelectStaleRuns(w) \/ RequeueStaleRuns(w) \/ PushRequeuedRun(w)
                 \/ PopAfterRequeue(w) \/ PopTimesOut(w) \/ LoadAfterRequeue(w)
                 \/ RequeueWaitingRun(w) \/ PushFails(w) \/ WorkerDies(w)
        BY <3>3 DEF SelectStaleRuns, RequeueStaleRuns, PushRequeuedRun, PopAfterRequeue,
                    PopTimesOut, LoadAfterRequeue, RequeueWaitingRun, PushFails,
                    WorkerDies, Pop, Load, Goto, ReturnToLoop, BeginFinalize, Working
      <3>4. ASSUME NEW v \in Workers \ {w}, WorkerStep(v) \/ WorkerDies(v)
            PROVE  pc'[w] = pc[w] /\ job'[w] = job[w]
        BY <3>4, LoopMoves, ExecutorMoves
           DEF WorkerStep, WorkerDies, ReturnToLoop, Goto
      <3>5. ASSUME NEW q \in Runs,
                   RequestStep(q) \/ RequestTornDown(q) \/ CancelStep(q) \/ LeaseRunsOut(q)
            PROVE  UNCHANGED localVars
        BY <3>5 DEF RequestStep, CreatePendingRun, MarkRunQueued, EnqueueChatRun,
                    RequestTornDown, CancelStep, RequestRunCancel, CancelWaitingRun,
                    CancelReleaseSlot, CancelActiveRun, LeaseRunsOut
      <3> QED BY <1>4, <3>1, <3>2, <3>3, <3>4, <3>5 DEF Next, WorkerStep, vars
    <2>2. slot[s] = r
      BY <1>2, <2>1 DEF WorkHoldsSlot
    <2>3. ASSUME NEW v \in Workers, ReleaseSessionSlot(v) PROVE job[v] # r
      BY <1>1, <1>2, <2>1, <2>3 DEF ReleaseSessionSlot, OnePlace, Working
    <2> QED BY <1>1, <2>2, <2>3, SlotKept DEF InSession
  <1> QED BY <1>3, <1>4

(* Two undisturbed runs of a session are never worked on at once, and no     *)
(* undisturbed run is worked on twice: both would need the one slot.         *)
LEMMA SlotExcludes == TypeOK /\ OnePlace /\ WorkHoldsSlot => ExclusiveTurns
  <1> SUFFICES ASSUME TypeOK, OnePlace, WorkHoldsSlot,
                      NEW v \in Workers, NEW w \in Workers, v # w,
                      pc[v] \in Working, pc[w] \in Working,
                      job[v] \notin disturbed, job[w] \notin disturbed,
                      SessionOf[job[v]] = SessionOf[job[w]]
               PROVE  ~InSession(job[v]) /\ job[v] # job[w]
    BY DEF ExclusiveTurns
  <1>1. job[v] \in Runs /\ job[w] \in Runs
    BY JobType DEF TypeOK, LocalOK, Working
  <1>2. job[v] # job[w]
    BY <1>1 DEF OnePlace
  <1>3. ~InSession(job[v])
    BY <1>2 DEF WorkHoldsSlot, InSession
  <1> QED BY <1>2, <1>3

(* ... in every reachable state, whatever faults have happened. *)
THEOREM TurnsExclude == Spec => []ExclusiveTurns
  <1>1. Init => OnePlace /\ CancelDisturbs /\ WorkHoldsSlot
    BY RunsAssumption DEF Init, OnePlace, CancelDisturbs, WorkHoldsSlot, InQueue, Working
  <1>2. TypeOK /\ TypeOK' /\ OnePlace /\ CancelDisturbs /\ WorkHoldsSlot /\ [Next]_vars
            => OnePlace' /\ CancelDisturbs' /\ WorkHoldsSlot'
    BY OnePlaceStep, CancelDisturbsStep, WorkHoldsSlotStep
  <1> QED BY <1>1, <1>2, SlotExcludes, TypeCorrect, PTL DEF Spec

-----------------------------------------------------------------------------
(* The end of a run. *)

(* Who writes a run's status, and what.  A disturbed run is written by the   *)
(* recovery or the cancel that disturbs it as well.                          *)
LEMMA StatusWrites ==
    ASSUME TypeOK, RecoveryFits, [Next]_vars, NEW r \in Runs \ disturbed',
           status'[r] # status[r]
    PROVE  \/ CreatePendingRun(r) /\ status'[r] = "accepted"
           \/ MarkRunQueued(r) /\ status'[r] = "queued"
           \/ \E w \in Workers :
                 /\ job[w] = r
                 /\ \/ (StartRetrieving(w) \/ StartAnswering(w)) /\ status'[r] \in Active
                    \/ FinalizeRun(w) /\ status'[r] = goal[w]
  <1> USE DEF TypeOK, RowTypes
  <1>1. CASE UNCHANGED vars
    BY <1>1 DEF vars
  <1>2. ASSUME NEW q \in Runs, CreatePendingRun(q) \/ MarkRunQueued(q)
        PROVE  (CreatePendingRun(r) /\ status'[r] = "accepted") \/
               (MarkRunQueued(r) /\ status'[r] = "queued")
    BY <1>2 DEF CreatePendingRun, MarkRunQueued
  <1>3. ASSUME NEW q \in Runs, CancelWaitingRun(q) PROVE FALSE
    BY <1>3 DEF CancelWaitingRun
  <1>4. ASSUME NEW q \in Runs,
               \/ EnqueueChatRun(q) \/ RequestTornDown(q) \/ RequestRunCancel(q)
               \/ CancelReleaseSlot(q) \/ CancelActiveRun(q) \/ LeaseRunsOut(q)
        PROVE  FALSE
    BY <1>4 DEF EnqueueChatRun, RequestTornDown, RequestRunCancel, CancelReleaseSlot,
                CancelActiveRun, LeaseRunsOut
  <1>5. ASSUME NEW w \in Workers, RequeueStaleRuns(w) PROVE FALSE
    BY <1>5 DEF RequeueStaleRuns, RecoveryFits
  <1>6. ASSUME NEW w \in Workers, StartRetrieving(w) \/ StartAnswering(w)
        PROVE  job[w] = r /\ status'[r] \in Active
    BY <1>6 DEF StartRetrieving, StartAnswering, CommitRun, Active
  <1>7. ASSUME NEW w \in Workers, FinalizeRun(w)
        PROVE  job[w] = r /\ status'[r] = goal[w]
    BY <1>7 DEF FinalizeRun, CommitRun
  <1>8. ASSUME NEW w \in Workers, Execute(w), ~StartRetrieving(w), ~StartAnswering(w),
               ~FinalizeRun(w)
        PROVE  FALSE
    BY <1>8 DEF Execute, AppendQuestion, TouchHeartbeat, StreamChunk, PersistAnswer,
                AppendReply, ExecutionFails, ReleaseSessionSlot
  <1>9. ASSUME NEW w \in Workers,
               \/ SelectStaleRuns(w) \/ PushRequeuedRun(w) \/ PopAfterRequeue(w)
               \/ PopTimesOut(w) \/ LoadAfterRequeue(w) \/ ClaimSessionSlot(w)
               \/ RequeueWaitingRun(w) \/ PushFails(w) \/ WorkerDies(w)
        PROVE  FALSE
    BY <1>9 DEF SelectStaleRuns, PushRequeuedRun, PopAfterRequeue, PopTimesOut,
                LoadAfterRequeue, ClaimSessionSlot, RequeueWaitingRun, PushFails,
                WorkerDies
  <1> QED BY <1>1, <1>2, <1>3, <1>4, <1>5, <1>6, <1>7, <1>8, <1>9
          DEF Next, RequestStep, CancelStep, WorkerStep

(* How an undisturbed run gets into the list, or to a worker. *)
LEMMA RunArrives ==
    ASSUME TypeOK, TypeOK', OnePlace, [Next]_vars, NEW r \in Runs \ disturbed'
    PROVE  /\ InQueue(r)' => \/ InQueue(r) \/ EnqueueChatRun(r)
                             \/ \E w \in Workers : RequeueWaitingRun(w) /\ job[w] = r
           /\ \A w \in Workers : job'[w] = r => job[w] = r \/ InQueue(r)
  <1> USE DEF TypeOK, ChatTypes, WorkerTypes
  <1> DEFINE Arrives == \/ InQueue(r) \/ EnqueueChatRun(r)
                        \/ \E w \in Workers : RequeueWaitingRun(w) /\ job[w] = r
             Queued == InQueue(r)' => Arrives
             Taken == \A w \in Workers : job'[w] = r => job[w] = r \/ InQueue(r)
  <1>a. r # NoRun
    BY RunsAssumption
  <1>b. ASSUME UNCHANGED queue PROVE Queued
    BY <1>b DEF InQueue
  <1>c. ASSUME NEW q \in Runs, queue' = Append(queue, q), InQueue(r)', ~InQueue(r)
        PROVE  q = r
    BY <1>c DEF InQueue
  <1>d. ASSUME NEW w \in Workers, Pop(w) PROVE Queued /\ Taken
    <2>1. /\ DOMAIN queue = 1..Len(queue) /\ queue # <<>> /\ 1 \in DOMAIN queue
          /\ DOMAIN queue' = 1..(Len(queue) - 1)
          /\ \A i \in DOMAIN queue' : queue'[i] = queue[i + 1] /\ i + 1 \in DOMAIN queue
      BY <1>d DEF Pop
    <2>2. Queued
      BY <2>1 DEF InQueue
    <2>3. /\ job'[w] = queue[1]
          /\ \A v \in Workers \ {w} : job'[v] = job[v]
      BY <1>d, <2>1 DEF Pop
    <2>4. Taken
      BY <2>1, <2>3 DEF InQueue
    <2> QED BY <2>2, <2>4
  <1>1. CASE UNCHANGED vars
    BY <1>1, <1>b DEF vars
  <1>2. ASSUME NEW q \in Runs,
               RequestStep(q) \/ RequestTornDown(q) \/ CancelStep(q) \/ LeaseRunsOut(q)
        PROVE  Queued /\ Taken
    <2>1. CASE EnqueueChatRun(q)
      BY <2>1, <1>c DEF EnqueueChatRun
    <2>2. CASE ~EnqueueChatRun(q)
      BY <1>2, <2>2, <1>b
         DEF RequestStep, CreatePendingRun, MarkRunQueued, RequestTornDown, CancelStep,
             RequestRunCancel, CancelWaitingRun, CancelReleaseSlot, CancelActiveRun,
             LeaseRunsOut
    <2> QED BY <2>1, <2>2
  <1>3. ASSUME NEW w \in Workers, PushRequeuedRun(w) PROVE Queued /\ Taken
    <2>1. PICK q \in stale[w] : queue' = Append(queue, q)
      BY <1>3 DEF PushRequeuedRun
    <2>2. q \in Runs /\ q # r
      BY <1>3, <2>1 DEF PushRequeuedRun, OnePlace
    <2> QED BY <1>3, <2>1, <2>2, <1>c DEF PushRequeuedRun
  <1>4. ASSUME NEW w \in Workers, RequeueWaitingRun(w) PROVE Queued /\ Taken
    <2>1. job[w] \in Runs
      BY <1>4, JobType DEF RequeueWaitingRun, LocalOK
    <2> QED BY <1>4, <2>1, <1>a, <1>c DEF RequeueWaitingRun, ReturnToLoop
  <1>5. ASSUME NEW w \in Workers, SelectStaleRuns(w) PROVE Queued /\ Taken
    BY <1>5, <1>a, <1>b, <1>d DEF SelectStaleRuns, Load, ReturnToLoop
  <1>6. ASSUME NEW w \in Workers, PopAfterRequeue(w) PROVE Queued /\ Taken
    BY <1>6, <1>d DEF PopAfterRequeue
  <1>7. ASSUME NEW w \in Workers,
               \/ RequeueStaleRuns(w) \/ PopTimesOut(w) \/ LoadAfterRequeue(w)
               \/ ClaimSessionSlot(w) \/ PushFails(w) \/ WorkerDies(w)
        PROVE  Queued /\ Taken
    BY <1>7, <1>a, <1>b
       DEF RequeueStaleRuns, PopTimesOut, LoadAfterRequeue, ClaimSessionSlot, PushFails,
           WorkerDies, Load, ReturnToLoop
  <1>8. ASSUME NEW w \in Workers, Execute(w) PROVE Queued /\ Taken
    BY <1>8, <1>a, <1>b, ExecutorMoves
  <1> QED BY <1>1, <1>2, <1>3, <1>4, <1>5, <1>6, <1>7, <1>8 DEF Next, WorkerStep

(* A worker that finalises or releases its run goes on to release it, to     *)
(* finalise it as failed, or to leave it.                                    *)
LEMMA FinisherMoves ==
    ASSUME TypeOK, [Next]_vars, NEW w \in Workers, job[w] # NoRun,
           pc[w] = "release" \/ (pc[w] = "finalize" /\ goal[w] = "failed")
    PROVE  \/ job'[w] = NoRun
           \/ pc'[w] = "release"
           \/ pc'[w] = "finalize" /\ goal'[w] = "failed"
  <1> USE DEF TypeOK, WorkerTypes
  <1>1. CASE UNCHANGED localVars
    BY <1>1
  <1>2. CASE WorkerStep(w) \/ WorkerDies(w)
    <2>1. CASE FinalizeRun(w)
      BY <2>1 DEF FinalizeRun, Goto
    <2>2. CASE ReleaseSessionSlot(w)
      BY <2>2 DEF ReleaseSessionSlot, ReturnToLoop, BeginFinalize, Goto
    <2>3. CASE WorkerDies(w)
      BY <2>3 DEF WorkerDies, ReturnToLoop
    <2>4. CASE Execute(w) /\ ~FinalizeRun(w) /\ ~ReleaseSessionSlot(w)
      BY <2>4 DEF Execute, StartRetrieving, AppendQuestion, TouchHeartbeat,
                  StartAnswering, StreamChunk, PersistAnswer, AppendReply,
                  ExecutionFails, Working
    <2>5. CASE WorkerStep(w) /\ ~Execute(w)
      BY <2>5, LoopMoves DEF WorkerStep, Holding
    <2> QED BY <1>2, <2>1, <2>2, <2>3, <2>4, <2>5
  <1>3. ASSUME NEW v \in Workers \ {w}, WorkerStep(v) \/ WorkerDies(v)
        PROVE  pc'[w] = pc[w] /\ goal'[w] = goal[w]
    BY <1>3, LoopMoves, ExecutorMoves DEF WorkerStep, WorkerDies, ReturnToLoop, Goto
  <1>4. ASSUME NEW q \in Runs,
               RequestStep(q) \/ RequestTornDown(q) \/ CancelStep(q) \/ LeaseRunsOut(q)
        PROVE  UNCHANGED localVars
    BY <1>4 DEF RequestStep, CreatePendingRun, MarkRunQueued, EnqueueChatRun,
                RequestTornDown, CancelStep, RequestRunCancel, CancelWaitingRun,
                CancelReleaseSlot, CancelActiveRun, LeaseRunsOut
  <1> QED BY <1>1, <1>2, <1>3, <1>4 DEF Next, vars

(* A request moves on from idle to created, from created to marked, to done. *)
LEMMA RequestMoves ==
    ASSUME TypeOK, [Next]_vars, NEW r \in Runs, request'[r] # request[r]
    PROVE  \/ CreatePendingRun(r) \/ MarkRunQueued(r)
           \/ EnqueueChatRun(r) \/ RequestTornDown(r)
  <1> USE DEF TypeOK, ClientTypes
  <1>1. CASE UNCHANGED vars
    BY <1>1 DEF vars
  <1>2. ASSUME NEW q \in Runs, RequestStep(q) \/ RequestTornDown(q), q # r PROVE FALSE
    BY <1>2 DEF RequestStep, CreatePendingRun, MarkRunQueued, EnqueueChatRun,
                RequestTornDown
  <1>3. ASSUME NEW q \in Runs, CancelStep(q) \/ LeaseRunsOut(q) PROVE FALSE
    BY <1>3 DEF CancelStep, RequestRunCancel, CancelWaitingRun, CancelReleaseSlot,
                CancelActiveRun, LeaseRunsOut
  <1>4. ASSUME NEW w \in Workers, WorkerStep(w) \/ WorkerDies(w) PROVE FALSE
    BY <1>4, LoopMoves, ExecutorMoves DEF WorkerStep, WorkerDies
  <1> QED BY <1>1, <1>2, <1>3, <1>4 DEF Next, RequestStep

(* What an ended run has left behind stays behind. *)
LEMMA EndedIsLeftStep ==
    ASSUME TypeOK, TypeOK', RecoveryFits, OnePlace, CancelDisturbs,
           EndedIsLeft, [Next]_vars
    PROVE  EndedIsLeft'
  <1> USE DEF TypeOK
  <1> SUFFICES ASSUME NEW r \in Runs \ disturbed'
               PROVE  /\ status'[r] = "none" => request'[r] = "idle"
                      /\ request'[r] = "created" => status'[r] = "accepted"
                      /\ status'[r] \in Terminal =>
                            /\ request'[r] = "done" /\ ~InQueue(r)'
                            /\ \A w \in Workers : job'[w] = r =>
                                  \/ pc'[w] = "release"
                                  \/ pc'[w] = "finalize" /\ goal'[w] = "failed"
    BY DEF EndedIsLeft
  <1>a. r \in Runs \ disturbed /\ r \in Runs /\ r # NoRun
    BY CancelDisturbsStep, RunsAssumption
  <1>1. status'[r] = "none" => request'[r] = "idle"
    <2> SUFFICES ASSUME status'[r] = "none" PROVE request'[r] = "idle"
      OBVIOUS
    <2>1. \A w \in Workers : FinalizeRun(w) => goal[w] # "none"
      BY DEF FinalizeRun, LocalFits
    <2>2. status[r] = "none"
      BY <2>1, StatusWrites DEF Active
    <2>3. request[r] = "idle"
      BY <1>a, <2>2 DEF EndedIsLeft
    <2>4. ~CreatePendingRun(r)
      BY <1>a DEF CreatePendingRun, RowTypes
    <2> QED BY <1>a, <2>3, <2>4, RequestMoves
            DEF MarkRunQueued, EnqueueChatRun, RequestTornDown
  <1>2. request'[r] = "created" => status'[r] = "accepted"
    <2> SUFFICES ASSUME request'[r] = "created" PROVE status'[r] = "accepted"
      OBVIOUS
    <2>1. CASE CreatePendingRun(r)
      BY <1>a, <2>1 DEF CreatePendingRun, RowTypes
    <2>2. CASE ~CreatePendingRun(r)
      <3>1. ~MarkRunQueued(r) /\ ~EnqueueChatRun(r) /\ ~RequestTornDown(r)
        BY <1>a DEF ClientTypes, MarkRunQueued, EnqueueChatRun, RequestTornDown
      <3>2. request[r] = "created"
        BY <1>a, <2>2, <3>1, RequestMoves
      <3>3. status[r] = "accepted" /\ \A w \in Workers : job[w] # r
        BY <1>a, <3>2 DEF EndedIsLeft, OnePlace
      <3> QED BY <2>2, <3>1, <3>3, StatusWrites
    <2> QED BY <2>1, <2>2
  <1>3. ASSUME status'[r] \in Terminal, status[r] \notin Terminal
        PROVE  /\ request'[r] = "done" /\ ~InQueue(r)'
               /\ \A w \in Workers : job'[w] = r => pc'[w] = "release"
    <2>1. PICK w \in Workers : FinalizeRun(w) /\ job[w] = r
      BY <1>3, StatusWrites DEF Terminal, Active
    <2>2. /\ UNCHANGED <<queue, job, request>> /\ pc'[w] = "release"
      BY <2>1 DEF FinalizeRun, Goto, WorkerTypes
    <2>3. /\ request[r] = "done" /\ ~InQueue(r)
          /\ \A v \in Workers : job[v] = r => v = w
      BY <1>a, <2>1 DEF OnePlace
    <2> QED BY <2>2, <2>3 DEF InQueue
  <1>4. ASSUME status[r] \in Terminal
        PROVE  /\ request'[r] = "done" /\ ~InQueue(r)'
               /\ \A w \in Workers : job'[w] = r =>
                     \/ pc'[w] = "release"
                     \/ pc'[w] = "finalize" /\ goal'[w] = "failed"
    <2>1. /\ request[r] = "done" /\ ~InQueue(r)
          /\ \A w \in Workers : job[w] = r =>
                pc[w] = "release" \/ (pc[w] = "finalize" /\ goal[w] = "failed")
      BY <1>a, <1>4 DEF EndedIsLeft
    <2>2. request'[r] = "done"
      BY <1>a, <2>1, RequestMoves
         DEF CreatePendingRun, MarkRunQueued, EnqueueChatRun, RequestTornDown
    <2>3. ~InQueue(r)'
      BY <2>1, RunArrives DEF EnqueueChatRun, RequeueWaitingRun
    <2>4. ASSUME NEW w \in Workers, job'[w] = r
          PROVE  pc'[w] = "release" \/ (pc'[w] = "finalize" /\ goal'[w] = "failed")
      <3>1. job[w] = r
        BY <2>1, <2>4, RunArrives
      <3> QED BY <1>a, <2>1, <2>4, <3>1, FinisherMoves
    <2> QED BY <2>2, <2>3, <2>4
  <1> QED BY <1>1, <1>2, <1>3, <1>4

(* The writer of an undisturbed run that has ended is its own executor,      *)
(* which records that its terminal events could not be published.            *)
LEMMA EndedWrites ==
    ASSUME TypeOK, RecoveryFits, CancelDisturbs, EndedIsLeft, [Next]_vars,
           NEW r \in Runs, status[r] \in Terminal, r \notin disturbed'
    PROVE  status'[r] \in {status[r], "failed"}
  <1> SUFFICES ASSUME status'[r] # status[r] PROVE status'[r] = "failed"
    OBVIOUS
  <1>1. r \in Runs \ disturbed
    BY CancelDisturbsStep
  <1>2. /\ request[r] = "done"
        /\ \A w \in Workers : job[w] = r =>
              pc[w] = "release" \/ (pc[w] = "finalize" /\ goal[w] = "failed")
    BY <1>1 DEF EndedIsLeft
  <1> QED BY <1>2, StatusWrites
          DEF CreatePendingRun, MarkRunQueued, StartRetrieving, StartAnswering, FinalizeRun

(* Duplicated messages, zombies and retries notwithstanding: outside lease   *)
(* recovery and cancellation the outcome of a run is written once.           *)
THEOREM EndedRunsStayEnded == Spec => EndedStaysEnded
  <1> DEFINE I == /\ RecoveryFits /\ Recoverable
                  /\ OnePlace /\ CancelDisturbs /\ EndedIsLeft
  <1>1. Init => I
    BY RunsAssumption DEF Init, RecoveryFits, Recoverable, OnePlace, CancelDisturbs,
                          EndedIsLeft, InQueue, Scanned, Active, Terminal
  <1>2. TypeOK /\ TypeOK' /\ I /\ [Next]_vars => I'
    BY RecoverableStep, OnePlaceStep, CancelDisturbsStep, EndedIsLeftStep
  <1>3. TypeOK /\ I /\ [Next]_vars =>
            [\A r \in Runs : status[r] \in Terminal /\ r \notin disturbed' =>
                 status'[r] \in {status[r], "failed"}]_vars
    BY EndedWrites
  <1> QED BY <1>1, <1>2, <1>3, TypeCorrect, PTL DEF Spec, EndedStaysEnded
=============================================================================
