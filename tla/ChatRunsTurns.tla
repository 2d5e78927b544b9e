---------------------------- MODULE ChatRunsTurns ----------------------------
(***************************************************************************)
(* What a session sees of its undisturbed runs, for every set of runs,     *)
(* sessions and workers and any number of faults: in its transcript every  *)
(* reply follows its question, and the pipeline as a whole implements the  *)
(* service SessionTurns promises, one turn at a time and oldest first.     *)
(***************************************************************************)
EXTENDS ChatRunsExclusion

USE DEF rowVars, chatVars, clientVars, localVars, faultVars

-----------------------------------------------------------------------------
(* Contiguous turns. *)

(* Steps of a worker that has not written to its run's transcript yet, and   *)
(* those between the question and its reply.                                 *)
Early == {"reap", "requeue", "repush", "load", "claim", "wait", "start", "question"}
MidTurn == {"retrieve", "answer", "stream", "reply"}

(* An undisturbed run that has yet to execute has no message.                *)
NothingSaid ==
    \A r \in Runs \ disturbed :
        request[r] # "done" \/ InQueue(r) \/ (\E w \in Workers : job[w] = r /\ pc[w] \in Early)
            => \A s \in Sessions : \A i \in DOMAIN transcript[s] : transcript[s][i].run # r

(* The question of a turn is the last undisturbed message of its session. *)
TurnIsOpen ==
    \A w \in Workers :
        pc[w] \in MidTurn /\ job[w] \notin disturbed /\ InSession(job[w]) =>
            LET t == transcript[SessionOf[job[w]]]
            IN  \E j \in DOMAIN t :
                    /\ t[j] = [run |-> job[w], role |-> "user"]
                    /\ \A k \in DOMAIN t : j < k => t[k].run \in disturbed

(* A transcript stays as it is, or an executor adds one message at its end. *)
LEMMA OneMessage ==
    ASSUME TypeOK, [Next]_vars, NEW s \in Sessions, transcript'[s] # transcript[s]
    PROVE  \E v \in Workers, role \in {"user", "assistant"}, n \in Nat :
              /\ \/ AppendQuestion(v) /\ role = "user"
                 \/ AppendReply(v) /\ role = "assistant"
              /\ job[v] \in Runs /\ SessionOf[job[v]] = s
              /\ DOMAIN transcript[s] = 1..n /\ DOMAIN transcript'[s] = 1..(n + 1)
              /\ transcript'[s][n + 1] = [run |-> job[v], role |-> role]
              /\ \A k \in 1..n : transcript'[s][k] = transcript[s][k]
  <1> USE DEF TypeOK
  <1>1. PICK v \in Workers : AppendQuestion(v) \/ AppendReply(v)
    <2>1. CASE UNCHANGED transcript
      BY <2>1
    <2>2. ASSUME NEW w \in Workers, Execute(w), ~AppendQuestion(w), ~AppendReply(w)
          PROVE  UNCHANGED transcript
      BY <2>2 DEF Execute, StartRetrieving, TouchHeartbeat, StartAnswering, StreamChunk,
                  PersistAnswer, ExecutionFails, FinalizeRun, ReleaseSessionSlot
    <2>3. ASSUME NEW w \in Workers, WorkerStep(w) \/ WorkerDies(w), ~Execute(w)
          PROVE  UNCHANGED transcript
      BY <2>3, LoopMoves DEF WorkerStep, WorkerDies
    <2>4. ASSUME NEW r \in Runs,
                 RequestStep(r) \/ RequestTornDown(r) \/ CancelStep(r) \/ LeaseRunsOut(r)
          PROVE  UNCHANGED transcript
      BY <2>4 DEF RequestStep, CreatePendingRun, MarkRunQueued, EnqueueChatRun,
                  RequestTornDown, CancelStep, RequestRunCancel, CancelWaitingRun,
                  CancelReleaseSlot, CancelActiveRun, LeaseRunsOut
    <2> QED BY <2>1, <2>2, <2>3, <2>4 DEF Next, vars
  <1>2. PICK role \in {"user", "assistant"} :
           /\ transcript' = WithMessage(job[v], role)
           /\ \/ AppendQuestion(v) /\ role = "user"
              \/ AppendReply(v) /\ role = "assistant"
    BY <1>1 DEF AppendQuestion, AppendReply
  <1>3. job[v] \in Runs
    BY <1>1, JobType DEF AppendQuestion, AppendReply, LocalOK
  <1> DEFINE m == [run |-> job[v], role |-> role]
  <1>4. SessionOf[job[v]] = s /\ transcript'[s] = Append(transcript[s], m)
    BY <1>2 DEF WithMessage, ChatTypes
  <1>5. transcript[s] \in Seq(Message)
    BY DEF ChatTypes
  <1> HIDE DEF m
  <1>6. /\ DOMAIN transcript[s] = 1..Len(transcript[s]) /\ Len(transcript[s]) \in Nat
        /\ DOMAIN transcript'[s] = 1..(Len(transcript[s]) + 1)
        /\ transcript'[s][Len(transcript[s]) + 1] = m
        /\ \A i \in 1..Len(transcript[s]) : transcript'[s][i] = transcript[s][i]
    BY <1>4, <1>5
  <1> QED BY <1>2, <1>3, <1>4, <1>6 DEF m

(* A worker that is early with its run was so before, with the same run. *)
LEMMA EarlyMoves ==
    ASSUME TypeOK, [Next]_vars, NEW w \in Workers, job[w] # NoRun, job'[w] = job[w],
           pc'[w] \in Early
    PROVE  pc[w] \in Early
  <1> USE DEF TypeOK, WorkerTypes
  <1>a. pc[w] # "pop" /\ pc[w] \in Steps
    BY DEF LocalFits
  <1>1. CASE UNCHANGED localVars
    BY <1>1
  <1>2. CASE Execute(w)
    BY <1>2
       DEF Execute, StartRetrieving, AppendQuestion, TouchHeartbeat, StartAnswering,
           StreamChunk, PersistAnswer, AppendReply, ExecutionFails, FinalizeRun,
           ReleaseSessionSlot, RefreshAndCheck, BeginFinalize, ReturnToLoop, Goto, Early
  <1>3. CASE WorkerStep(w) /\ ~Execute(w)
    <2>1. pc[w] \notin Holding
      BY <1>3, LoopMoves DEF WorkerStep
    <2> QED BY <1>a, <2>1 DEF Steps, Early
  <1>4. CASE WorkerDies(w)
    BY <1>4 DEF WorkerDies, ReturnToLoop
  <1>5. ASSUME NEW v \in Workers \ {w}, WorkerStep(v) \/ WorkerDies(v)
        PROVE  pc'[w] = pc[w]
    BY <1>5, LoopMoves, ExecutorMoves DEF WorkerStep, WorkerDies, ReturnToLoop, Goto
  <1>6. ASSUME NEW q \in Runs,
               RequestStep(q) \/ RequestTornDown(q) \/ CancelStep(q) \/ LeaseRunsOut(q)
        PROVE  UNCHANGED localVars
    BY <1>6 DEF RequestStep, CreatePendingRun, MarkRunQueued, EnqueueChatRun,
                RequestTornDown, CancelStep, RequestRunCancel, CancelWaitingRun,
                CancelReleaseSlot, CancelActiveRun, LeaseRunsOut
  <1> QED BY <1>1, <1>2, <1>3, <1>4, <1>5, <1>6 DEF Next, vars

(* Only the execution of a run writes its messages, and ends its early steps. *)
LEMMA NothingSaidStep ==
    ASSUME TypeOK, TypeOK', OnePlace, CancelDisturbs, NothingSaid, [Next]_vars
    PROVE  NothingSaid'
  <1> USE DEF TypeOK, WorkerTypes
  <1> SUFFICES ASSUME NEW r \in Runs \ disturbed',
                      \/ request'[r] # "done" \/ InQueue(r)'
                      \/ \E w \in Workers : job'[w] = r /\ pc'[w] \in Early,
                      NEW s \in Sessions, NEW i \in DOMAIN transcript'[s]
               PROVE  transcript'[s][i].run # r
    BY DEF NothingSaid, InQueue
  <1>a. r \in Runs \ disturbed /\ r # NoRun
    BY CancelDisturbsStep, RunsAssumption
  <1>1. \/ request[r] # "done" \/ InQueue(r)
        \/ \E w \in Workers : job[w] = r /\ pc[w] \in Early
    <2>1. request'[r] # "done" => request[r] # "done"
      BY <1>a, RequestMoves
         DEF CreatePendingRun, MarkRunQueued, EnqueueChatRun, RequestTornDown
    <2>2. InQueue(r)' => \/ InQueue(r) \/ request[r] # "done"
                         \/ \E w \in Workers : job[w] = r /\ pc[w] \in Early
      BY RunArrives DEF EnqueueChatRun, RequeueWaitingRun, Early
    <2>3. ASSUME NEW w \in Workers, job'[w] = r, pc'[w] \in Early
          PROVE  InQueue(r) \/ (job[w] = r /\ pc[w] \in Early)
      BY <1>a, <2>3, RunArrives, EarlyMoves
    <2> QED BY <2>1, <2>2, <2>3
  <1>2. \A j \in DOMAIN transcript[s] : transcript[s][j].run # r
    BY <1>a, <1>1 DEF NothingSaid
  <1>3. CASE transcript'[s] = transcript[s]
    BY <1>2, <1>3
  <1>4. CASE transcript'[s] # transcript[s]
    <2>1. PICK v \in Workers, role \in {"user", "assistant"}, n \in Nat :
             /\ \/ AppendQuestion(v) /\ role = "user"
                \/ AppendReply(v) /\ role = "assistant"
             /\ job[v] \in Runs /\ SessionOf[job[v]] = s
             /\ DOMAIN transcript[s] = 1..n /\ DOMAIN transcript'[s] = 1..(n + 1)
             /\ transcript'[s][n + 1] = [run |-> job[v], role |-> role]
             /\ \A k \in 1..n : transcript'[s][k] = transcript[s][k]
      BY <1>4, OneMessage
    <2>2. job[v] # r
      <3> SUFFICES ASSUME job[v] = r PROVE FALSE
        OBVIOUS
      <3>1. request[r] = "done" /\ ~InQueue(r) /\ \A w \in Workers : job[w] = r => w = v
        BY <1>a DEF OnePlace
      <3>2. UNCHANGED <<request, queue, job>> /\ pc'[v] \notin Early
        BY <2>1 DEF AppendQuestion, AppendReply, Goto, BeginFinalize, Early
      <3> QED BY <3>1, <3>2 DEF InQueue
    <2> QED BY <1>2, <2>1, <2>2
  <1> QED BY <1>3, <1>4

(* Between a question and its reply only disturbed runs write to a session.  *)
LEMMA TurnIsOpenStep ==
    ASSUME TypeOK, TypeOK', OnePlace, CancelDisturbs, ExclusiveTurns, NothingSaid,
           TurnIsOpen, [Next]_vars
    PROVE  TurnIsOpen'
  <1> USE DEF TypeOK, WorkerTypes
  <1> SUFFICES ASSUME NEW w \in Workers, NEW r \in Runs, job'[w] = r,
                      pc'[w] \in MidTurn, r \notin disturbed', InSession(r)
               PROVE  \E j \in DOMAIN transcript'[SessionOf[r]] :
                         /\ transcript'[SessionOf[r]][j] = [run |-> r, role |-> "user"]
                         /\ \A k \in DOMAIN transcript'[SessionOf[r]] :
                               j < k => transcript'[SessionOf[r]][k].run \in disturbed'
    <2>1. \A w \in Workers : pc'[w] \in MidTurn => job'[w] \in Runs
      BY DEF LocalFits, MidTurn
    <2> QED BY <2>1 DEF TurnIsOpen, InSession
  <1> DEFINE s == SessionOf[r]
             Open == \E j \in DOMAIN transcript'[s] :
                         /\ transcript'[s][j] = [run |-> r, role |-> "user"]
                         /\ \A k \in DOMAIN transcript'[s] :
                               j < k => transcript'[s][k].run \in disturbed'
  <1>a. r \in Runs \ disturbed /\ r # NoRun /\ s \in Sessions /\ disturbed \subseteq disturbed'
    BY CancelDisturbsStep, RunsAssumption, SessionAssumption DEF InSession
  <1>1. CASE AppendQuestion(w)
    <2>1. transcript'[s] = Append(transcript[s], [run |-> r, role |-> "user"])
      BY <1>a, <1>1 DEF AppendQuestion, WithMessage, ChatTypes
    <2>2. transcript[s] \in Seq(Message)
      BY <1>a DEF ChatTypes
    <2>3. /\ DOMAIN transcript'[s] = 1..(Len(transcript[s]) + 1)
          /\ Len(transcript[s]) + 1 \in DOMAIN transcript'[s]
          /\ transcript'[s][Len(transcript[s]) + 1] = [run |-> r, role |-> "user"]
      BY <2>1, <2>2
    <2>4. Len(transcript[s]) \in Nat
      BY <2>2
    <2> QED BY <2>3, <2>4
  <1>2. CASE job[w] = r /\ pc[w] \in MidTurn
    <2>1. PICK j \in DOMAIN transcript[s] :
             /\ transcript[s][j] = [run |-> r, role |-> "user"]
             /\ \A k \in DOMAIN transcript[s] : j < k => transcript[s][k].run \in disturbed
      BY <1>a, <1>2 DEF TurnIsOpen
    <2>2. CASE transcript'[s] = transcript[s]
      BY <1>a, <2>1, <2>2
    <2>3. CASE transcript'[s] # transcript[s]
      <3>1. PICK v \in Workers, role \in {"user", "assistant"}, n \in Nat :
               /\ \/ AppendQuestion(v) /\ role = "user"
                  \/ AppendReply(v) /\ role = "assistant"
               /\ job[v] \in Runs /\ SessionOf[job[v]] = s
               /\ DOMAIN transcript[s] = 1..n /\ DOMAIN transcript'[s] = 1..(n + 1)
               /\ transcript'[s][n + 1] = [run |-> job[v], role |-> role]
               /\ \A k \in 1..n : transcript'[s][k] = transcript[s][k]
        BY <1>a, <2>3, OneMessage
      <3>2. v # w
        BY <1>2, <3>1 DEF AppendQuestion, AppendReply, BeginFinalize, Goto, MidTurn
      <3>3. job[v] \in disturbed
        BY <1>a, <1>2, <3>1, <3>2
           DEF ExclusiveTurns, AppendQuestion, AppendReply, Working, MidTurn, InSession
      <3>4. j \in DOMAIN transcript'[s] /\ transcript'[s][j] = [run |-> r, role |-> "user"]
        BY <2>1, <3>1
      <3>5. ASSUME NEW k \in DOMAIN transcript'[s], j < k
            PROVE  transcript'[s][k].run \in disturbed'
        BY <1>a, <2>1, <3>1, <3>3, <3>5
      <3> QED BY <3>4, <3>5
    <2> QED BY <2>2, <2>3
  <1>3. CASE ~AppendQuestion(w) /\ ~(job[w] = r /\ pc[w] \in MidTurn)
    <2>1. CASE UNCHANGED localVars
      BY <1>3, <2>1
    <2>2. CASE Execute(w)
      <3>1. job[w] = r
        BY <1>a, <2>2, ExecutorMoves
      <3>2. StartRetrieving(w) /\ pc'[w] = "retrieve"
        BY <1>3, <2>2, <3>1
           DEF Execute, StartRetrieving, TouchHeartbeat, StartAnswering, StreamChunk,
               PersistAnswer, AppendReply, ExecutionFails, FinalizeRun,
               ReleaseSessionSlot, RefreshAndCheck, BeginFinalize, ReturnToLoop, Goto,
               MidTurn
      <3>3. HasMessage(r, "user") /\ pc[w] \in Early
        BY <3>1, <3>2 DEF StartRetrieving, RefreshAndCheck, BeginFinalize, Goto, Early
      <3>4. \A i \in DOMAIN transcript[s] : transcript[s][i].run # r
        BY <1>a, <3>1, <3>3 DEF NothingSaid
      <3>5. PICK i \in DOMAIN transcript[s] : transcript[s][i] = [run |-> r, role |-> "user"]
        BY <3>3 DEF HasMessage
      <3>6. transcript[s][i].run = r
        BY <3>5
      <3> QED BY <3>4, <3>6
    <2>3. CASE (WorkerStep(w) \/ WorkerDies(w)) /\ ~Execute(w)
      BY <2>3
         DEF WorkerStep, SelectStaleRuns, RequeueStaleRuns, PushRequeuedRun,
             PopAfterRequeue, PopTimesOut, LoadAfterRequeue, ClaimSessionSlot,
             RequeueWaitingRun, PushFails, WorkerDies, Pop, Load, Goto, ReturnToLoop,
             BeginFinalize, MidTurn
    <2>4. ASSUME NEW v \in Workers \ {w}, WorkerStep(v) \/ WorkerDies(v)
          PROVE  pc'[w] = pc[w] /\ job'[w] = job[w]
      BY <2>4, LoopMoves, ExecutorMoves DEF WorkerStep, WorkerDies, ReturnToLoop, Goto
    <2>5. ASSUME NEW q \in Runs,
                 RequestStep(q) \/ RequestTornDown(q) \/ CancelStep(q) \/ LeaseRunsOut(q)
          PROVE  UNCHANGED localVars
      BY <2>5 DEF RequestStep, CreatePendingRun, MarkRunQueued, EnqueueChatRun,
                  RequestTornDown, CancelStep, RequestRunCancel, CancelWaitingRun,
                  CancelReleaseSlot, CancelActiveRun, LeaseRunsOut
    <2> QED BY <1>3, <2>1, <2>2, <2>3, <2>4, <2>5 DEF Next, vars
  <1> QED BY <1>1, <1>2, <1>3

(* A reply is added to an open turn, and what has been said stays. *)
LEMMA ContiguousStep ==
    ASSUME TypeOK, CancelDisturbs, TurnIsOpen, TurnsContiguous, [Next]_vars
    PROVE  TurnsContiguous'
  <1> SUFFICES ASSUME NEW s \in Sessions, NEW i \in DOMAIN transcript'[s],
                      transcript'[s][i].role = "assistant",
                      transcript'[s][i].run \notin disturbed'
               PROVE  \E j \in DOMAIN transcript'[s] :
                         /\ j < i
                         /\ transcript'[s][j] = [run |-> transcript'[s][i].run, role |-> "user"]
                         /\ \A k \in DOMAIN transcript'[s] :
                               j < k /\ k < i => transcript'[s][k].run \in disturbed'
    BY DEF TurnsContiguous
  <1>a. disturbed \subseteq disturbed'
    BY CancelDisturbsStep
  <1>b. ASSUME i \in DOMAIN transcript[s], transcript'[s][i] = transcript[s][i]
        PROVE  \E j \in DOMAIN transcript[s] :
                  /\ j < i
                  /\ transcript[s][j] = [run |-> transcript'[s][i].run, role |-> "user"]
                  /\ \A k \in DOMAIN transcript[s] :
                        j < k /\ k < i => transcript[s][k].run \in disturbed
    BY <1>a, <1>b DEF TurnsContiguous
  <1>1. CASE transcript'[s] = transcript[s]
    BY <1>a, <1>b, <1>1
  <1>2. CASE transcript'[s] # transcript[s]
    <2>1. PICK v \in Workers, role \in {"user", "assistant"}, n \in Nat :
             /\ \/ AppendQuestion(v) /\ role = "user"
                \/ AppendReply(v) /\ role = "assistant"
             /\ job[v] \in Runs /\ SessionOf[job[v]] = s
             /\ DOMAIN transcript[s] = 1..n /\ DOMAIN transcript'[s] = 1..(n + 1)
             /\ transcript'[s][n + 1] = [run |-> job[v], role |-> role]
             /\ \A k \in 1..n : transcript'[s][k] = transcript[s][k]
      BY <1>2, OneMessage
    <2>2. CASE i \in 1..n
      <3>1. PICK j \in 1..n :
               /\ j < i
               /\ transcript[s][j] = [run |-> transcript'[s][i].run, role |-> "user"]
               /\ \A k \in 1..n : j < k /\ k < i => transcript[s][k].run \in disturbed
        BY <1>b, <2>1, <2>2
      <3>2. \A k \in 1..(n + 1) : k < i => k \in 1..n
        BY <2>1, <2>2
      <3> QED BY <1>a, <2>1, <3>1, <3>2
    <2>3. CASE i \notin 1..n
      <3>1. i = n + 1
        BY <2>1, <2>3
      <3>2. /\ transcript'[s][i].role = role /\ transcript'[s][i].run = job[v]
        BY <2>1, <3>1
      <3>3. AppendReply(v) /\ job[v] \notin disturbed
        BY <1>a, <2>1, <3>2
      <3>4. InSession(job[v]) /\ pc[v] \in MidTurn
        BY <2>1, <3>3, SessionAssumption DEF InSession, AppendReply, MidTurn
      <3>5. PICK j \in 1..n :
               /\ transcript[s][j] = [run |-> job[v], role |-> "user"]
               /\ \A k \in 1..n : j < k => transcript[s][k].run \in disturbed
        BY <2>1, <3>3, <3>4 DEF TurnIsOpen
      <3>6. j < i /\ j \in 1..(n + 1) /\ \A k \in 1..(n + 1) : k < i => k \in 1..n
        BY <2>1, <3>1
      <3>7. transcript'[s][j] = [run |-> transcript'[s][i].run, role |-> "user"]
        BY <2>1, <3>2, <3>5
      <3>8. \A k \in 1..(n + 1) : j < k /\ k < i => transcript'[s][k].run \in disturbed'
        BY <1>a, <2>1, <3>5, <3>6
      <3> QED BY <2>1, <3>6, <3>7, <3>8
    <2> QED BY <2>2, <2>3
  <1> QED BY <1>1, <1>2

(* However the executors of a session interleave, fail and are replaced: the *)
(* replies of undisturbed runs directly follow their questions.              *)
THEOREM TurnsStayContiguous == Spec => []TurnsContiguous
  <1> DEFINE I == OnePlace /\ CancelDisturbs /\ WorkHoldsSlot /\ NothingSaid /\ TurnIsOpen /\ TurnsContiguous
  <1>1. ASSUME Init PROVE I
    <2>1. OnePlace /\ CancelDisturbs /\ WorkHoldsSlot
      BY <1>1, RunsAssumption
         DEF Init, OnePlace, CancelDisturbs, WorkHoldsSlot, InQueue, Working
    <2>2. NothingSaid /\ TurnIsOpen /\ TurnsContiguous
      BY <1>1 DEF Init, NothingSaid, TurnIsOpen, TurnsContiguous, MidTurn
    <2> QED BY <2>1, <2>2
  <1>2. TypeOK /\ TypeOK' /\ I /\ [Next]_vars => I'
    BY OnePlaceStep, CancelDisturbsStep, WorkHoldsSlotStep, SlotExcludes,
       NothingSaidStep, TurnIsOpenStep, ContiguousStep
  <1>3. I => TurnsContiguous
    OBVIOUS
  <1> QED BY <1>1, <1>2, <1>3, TypeCorrect, PTL DEF Spec

-----------------------------------------------------------------------------
(* The service: the inductive invariant behind the refinement. *)

(* Recovery and cancels know only runs that exist. *)
KnownExist ==
    /\ \A r \in Runs : canceller[r] # "idle" => status[r] # "none"
    /\ \A w \in Workers : \A r \in stale[w] : status[r] # "none"

(* Before its request an undisturbed run has no row, before its push no slot. *)
NotBefore ==
    \A r \in Runs \ disturbed :
        /\ request[r] = "idle" => status[r] = "none"
        /\ InSession(r) /\ slot[SessionOf[r]] = r => request[r] = "done"

(* A worker that has loaded or written the end of an undisturbed run is right, *)
(* so a finalisation that writes nothing has nothing to write.                 *)
CopyOfEnded ==
    \A w \in Workers :
        /\ job[w] = NoRun => copy[w] \notin Terminal
        /\ job[w] \in Runs \ disturbed =>
              /\ copy[w] \in Terminal => status[job[w]] \in Terminal
              /\ pc[w] = "release" => status[job[w]] \in Terminal

(* An undisturbed run of a session executes in its session's slot. *)
ServedInSlot ==
    \A r \in Runs \ disturbed :
        status[r] \in Active /\ InSession(r) => slot[SessionOf[r]] = r

TurnsInv == /\ RecoveryFits /\ Recoverable
            /\ OnePlace /\ CancelDisturbs /\ WorkHoldsSlot /\ EndedIsLeft
            /\ KnownExist /\ NotBefore /\ CopyOfEnded /\ ServedInSlot

(* A row once written stays: no step writes the status of a row away. *)
LEMMA RowsStay ==
    ASSUME TypeOK, [Next]_vars, NEW r \in Runs, status[r] # "none"
    PROVE  status'[r] # "none"
  <1> USE DEF TypeOK, RowTypes
  <1>1. CASE UNCHANGED status
    BY <1>1
  <1>2. ASSUME NEW q \in Runs, CreatePendingRun(q) \/ MarkRunQueued(q)
        PROVE  status'[r] # "none"
    BY <1>2 DEF CreatePendingRun, MarkRunQueued
  <1>3. ASSUME NEW q \in Runs, CancelWaitingRun(q) PROVE status'[r] # "none"
    BY <1>3, CancelStatusType DEF CancelWaitingRun, Terminal
  <1>4. ASSUME NEW q \in Runs,
               \/ EnqueueChatRun(q) \/ RequestTornDown(q) \/ RequestRunCancel(q)
               \/ CancelReleaseSlot(q) \/ CancelActiveRun(q) \/ LeaseRunsOut(q)
        PROVE  UNCHANGED status
    BY <1>4 DEF EnqueueChatRun, RequestTornDown, RequestRunCancel, CancelReleaseSlot,
                CancelActiveRun, LeaseRunsOut
  <1>5. ASSUME NEW w \in Workers, RequeueStaleRuns(w) PROVE status'[r] # "none"
    BY <1>5 DEF RequeueStaleRuns
  <1>6. ASSUME NEW w \in Workers, StartRetrieving(w) \/ StartAnswering(w)
        PROVE  status'[r] # "none"
    BY <1>6 DEF StartRetrieving, StartAnswering, CommitRun
  <1>7. ASSUME NEW w \in Workers, FinalizeRun(w) PROVE status'[r] # "none"
    BY <1>7 DEF FinalizeRun, CommitRun, LocalFits
  <1>8. ASSUME NEW w \in Workers, Execute(w), ~StartRetrieving(w), ~StartAnswering(w),
               ~FinalizeRun(w)
        PROVE  UNCHANGED status
    BY <1>8 DEF Execute, AppendQuestion, TouchHeartbeat, StreamChunk, PersistAnswer,
                AppendReply, ExecutionFails, ReleaseSessionSlot
  <1>9. ASSUME NEW w \in Workers,
               \/ SelectStaleRuns(w) \/ PushRequeuedRun(w) \/ PopAfterRequeue(w)
               \/ PopTimesOut(w) \/ LoadAfterRequeue(w) \/ ClaimSessionSlot(w)
               \/ RequeueWaitingRun(w) \/ PushFails(w) \/ WorkerDies(w)
        PROVE  UNCHANGED status
    BY <1>9 DEF SelectStaleRuns, PushRequeuedRun, PopAfterRequeue, PopTimesOut,
                LoadAfterRequeue, ClaimSessionSlot, RequeueWaitingRun, PushFails,
                WorkerDies
  <1> QED BY <1>1, <1>2, <1>3, <1>4, <1>5, <1>6, <1>7, <1>8, <1>9
          DEF Next, RequestStep, CancelStep, WorkerStep, vars

(* Clients cancel, and recovery selects, what they have read. *)
LEMMA KnownExistStep ==
    ASSUME TypeOK, KnownExist, [Next]_vars
    PROVE  KnownExist'
  <1> USE DEF TypeOK, ClientTypes, WorkerTypes
  <1>1. ASSUME NEW r \in Runs, canceller'[r] # "idle"
        PROVE  canceller[r] # "idle" \/ status[r] # "none"
    <2>1. ASSUME NEW q \in Runs, RequestRunCancel(q)
          PROVE  canceller[r] # "idle" \/ status[r] # "none"
      BY <1>1, <2>1 DEF RequestRunCancel, Ordered, Active
    <2>2. ASSUME NEW q \in Runs,
                 CancelWaitingRun(q) \/ CancelReleaseSlot(q) \/ CancelActiveRun(q)
          PROVE  canceller[r] # "idle"
      BY <1>1, <2>2 DEF CancelWaitingRun, CancelReleaseSlot, CancelActiveRun
    <2>3. ASSUME NEW q \in Runs, RequestStep(q) \/ RequestTornDown(q) \/ LeaseRunsOut(q)
          PROVE  UNCHANGED canceller
      BY <2>3 DEF RequestStep, CreatePendingRun, MarkRunQueued, EnqueueChatRun,
                  RequestTornDown, LeaseRunsOut
    <2>4. ASSUME NEW w \in Workers, WorkerStep(w) \/ WorkerDies(w)
          PROVE  UNCHANGED canceller
      <3>1. CASE Execute(w)
        BY <3>1 DEF Execute, StartRetrieving, AppendQuestion, TouchHeartbeat,
                    StartAnswering, StreamChunk, PersistAnswer, AppendReply,
                    ExecutionFails, FinalizeRun, ReleaseSessionSlot
      <3>2. CASE ~Execute(w)
        BY <2>4, <3>2, LoopMoves DEF WorkerStep, WorkerDies
      <3> QED BY <3>1, <3>2
    <2> QED BY <1>1, <2>1, <2>2, <2>3, <2>4 DEF Next, CancelStep, vars
  <1>2. ASSUME NEW w \in Workers, NEW r \in stale'[w]
        PROVE  r \in stale[w] \/ (r \in Runs /\ status[r] # "none")
    <2>1. ASSUME NEW v \in Workers, SelectStaleRuns(v)
          PROVE  r \in stale[w] \/ (r \in Runs /\ status[r] # "none")
      BY <1>2, <2>1 DEF SelectStaleRuns, StaleRuns, Scanned, Active
    <2>2. ASSUME NEW v \in Workers,
                 PushRequeuedRun(v) \/ PushFails(v) \/ WorkerDies(v)
          PROVE  r \in stale[w]
      BY <1>2, <2>2 DEF PushRequeuedRun, PushFails, WorkerDies
    <2>3. ASSUME NEW v \in Workers,
                 \/ RequeueStaleRuns(v) \/ PopAfterRequeue(v) \/ PopTimesOut(v)
                 \/ LoadAfterRequeue(v) \/ ClaimSessionSlot(v) \/ RequeueWaitingRun(v)
          PROVE  UNCHANGED stale
      BY <2>3 DEF RequeueStaleRuns, PopAfterRequeue, PopTimesOut, LoadAfterRequeue,
                  ClaimSessionSlot, RequeueWaitingRun
    <2>4. ASSUME NEW v \in Workers, Execute(v) PROVE UNCHANGED stale
      BY <2>4, ExecutorMoves
    <2>5. ASSUME NEW q \in Runs,
                 RequestStep(q) \/ RequestTornDown(q) \/ CancelStep(q) \/ LeaseRunsOut(q)
          PROVE  UNCHANGED stale
      BY <2>5 DEF RequestStep, CreatePendingRun, MarkRunQueued, EnqueueChatRun,
                  RequestTornDown, CancelStep, RequestRunCancel, CancelWaitingRun,
                  CancelReleaseSlot, CancelActiveRun, LeaseRunsOut
    <2> QED BY <1>2, <2>1, <2>2, <2>3, <2>4, <2>5 DEF Next, WorkerStep, vars
  <1>3. \A w \in Workers : stale[w] \subseteq Runs
    OBVIOUS
  <1> QED BY <1>1, <1>2, <1>3, RowsStay DEF KnownExist

(* The request comes first. *)
LEMMA NotBeforeStep ==
    ASSUME TypeOK, RecoveryFits, OnePlace, CancelDisturbs, NotBefore, [Next]_vars
    PROVE  NotBefore'
  <1> USE DEF TypeOK, ClientTypes
  <1> SUFFICES ASSUME NEW r \in Runs \ disturbed'
               PROVE  /\ request'[r] = "idle" => status'[r] = "none"
                      /\ InSession(r) /\ slot'[SessionOf[r]] = r => request'[r] = "done"
    BY DEF NotBefore, InSession
  <1>a. r \in Runs \ disturbed /\ r \in Runs /\ r # NoRun
    BY CancelDisturbsStep, RunsAssumption
  <1>b. request[r] = "done" => request'[r] = "done"
    BY <1>a, RequestMoves
       DEF CreatePendingRun, MarkRunQueued, EnqueueChatRun, RequestTornDown
  <1>1. ASSUME request'[r] = "idle" PROVE status'[r] = "none"
    <2>1. request[r] = "idle"
      BY <1>a, <1>1, RequestMoves
         DEF CreatePendingRun, MarkRunQueued, EnqueueChatRun, RequestTornDown
    <2>2. ~CreatePendingRun(r) /\ ~MarkRunQueued(r)
      BY <1>a, <1>1 DEF CreatePendingRun, MarkRunQueued
    <2>3. \A w \in Workers : job[w] # r
      BY <1>a, <2>1 DEF OnePlace
    <2>4. status'[r] = status[r]
      BY <2>2, <2>3, StatusWrites
    <2> QED BY <1>a, <2>1, <2>4 DEF NotBefore
  <1>2. ASSUME InSession(r), slot'[SessionOf[r]] = r PROVE request[r] = "done"
    <2>1. SessionOf[r] \in Sessions
      BY <1>2, SessionAssumption DEF InSession
    <2>2. CASE slot[SessionOf[r]] = r
      BY <1>a, <1>2, <2>2 DEF NotBefore
    <2>3. ASSUME slot[SessionOf[r]] # r, NEW w \in Workers, ClaimSessionSlot(w)
          PROVE  request[r] = "done"
      <3>1. job[w] = r
        BY <1>2, <2>1, <2>3 DEF ClaimSessionSlot, ChatTypes
      <3> QED BY <1>a, <3>1 DEF OnePlace
    <2> QED BY <1>a, <1>2, <2>1, <2>2, <2>3, SlotsOnlyFreed
  <1> QED BY <1>b, <1>1, <1>2

(* A worker's copy is forgotten with its run, loaded again, or kept. *)
LEMMA CopyMoves ==
    ASSUME TypeOK, [Next]_vars, NEW w \in Workers
    PROVE  /\ \/ job'[w] = NoRun /\ copy'[w] = "none"
              \/ job'[w] = job[w] /\ job[w] # NoRun /\ copy'[w] = status'[job[w]]
              \/ copy'[w] = copy[w] /\ (job'[w] = job[w] \/ job[w] = NoRun)
           /\ pc'[w] = "release" => FinalizeRun(w) \/ (pc[w] = "release" /\ job'[w] = job[w])
  <1> USE DEF TypeOK, WorkerTypes
  <1> DEFINE Moves == /\ \/ job'[w] = NoRun /\ copy'[w] = "none"
                         \/ job'[w] = job[w] /\ job[w] # NoRun /\ copy'[w] = status'[job[w]]
                         \/ copy'[w] = copy[w] /\ (job'[w] = job[w] \/ job[w] = NoRun)
                      /\ pc'[w] = "release" =>
                            FinalizeRun(w) \/ (pc[w] = "release" /\ job'[w] = job[w])
  <1>1. CASE UNCHANGED localVars
    BY <1>1
  <1>2. ASSUME NEW q \in Runs,
               RequestStep(q) \/ RequestTornDown(q) \/ CancelStep(q) \/ LeaseRunsOut(q)
        PROVE  UNCHANGED localVars
    BY <1>2 DEF RequestStep, CreatePendingRun, MarkRunQueued, EnqueueChatRun,
                RequestTornDown, CancelStep, RequestRunCancel, CancelWaitingRun,
                CancelReleaseSlot, CancelActiveRun, LeaseRunsOut
  <1>3. ASSUME NEW v \in Workers, v # w, WorkerStep(v) \/ WorkerDies(v)
        PROVE  pc'[w] = pc[w] /\ job'[w] = job[w] /\ copy'[w] = copy[w]
    <2> USE DEF Goto, ReturnToLoop, BeginFinalize
    <2>1. CASE Execute(v)
      <3>1. pc'[w] = pc[w] /\ job'[w] = job[w]
        BY <1>3, <2>1, ExecutorMoves
      <3>2. copy'[w] = copy[w]
        BY <1>3, <2>1
           DEF Execute, StartRetrieving, AppendQuestion, TouchHeartbeat, StartAnswering,
               StreamChunk, PersistAnswer, AppendReply, ExecutionFails, FinalizeRun,
               ReleaseSessionSlot, RefreshAndCheck
      <3> QED BY <3>1, <3>2
    <2>2. CASE SelectStaleRuns(v) \/ LoadAfterRequeue(v)
      BY <1>3, <2>2 DEF SelectStaleRuns, LoadAfterRequeue, Pop, Load
    <2>3. CASE \/ RequeueStaleRuns(v) \/ PushRequeuedRun(v) \/ PopAfterRequeue(v)
               \/ PopTimesOut(v) \/ ClaimSessionSlot(v)
      BY <1>3, <2>3 DEF RequeueStaleRuns, PushRequeuedRun, PopAfterRequeue, PopTimesOut,
                        ClaimSessionSlot, Pop
    <2>4. CASE RequeueWaitingRun(v) \/ PushFails(v) \/ WorkerDies(v)
      BY <1>3, <2>4 DEF RequeueWaitingRun, PushFails, WorkerDies
    <2> QED BY <1>3, <2>1, <2>2, <2>3, <2>4 DEF WorkerStep
  <1>4. CASE Execute(w)
    <2>1. job[w] # NoRun
      BY <1>4, ExecutorHolds
    <2> USE DEF Goto, ReturnToLoop, BeginFinalize
    <2>2. CASE StartRetrieving(w)
      BY <2>1, <2>2 DEF StartRetrieving, RefreshAndCheck, Working
    <2>3. CASE TouchHeartbeat(w)
      BY <2>1, <2>3 DEF TouchHeartbeat, RefreshAndCheck
    <2>4. CASE StartAnswering(w)
      BY <2>1, <2>4 DEF StartAnswering, RefreshAndCheck
    <2>5. CASE PersistAnswer(w)
      BY <2>1, <2>5 DEF PersistAnswer
    <2>6. CASE FinalizeRun(w)
      BY <2>1, <2>6 DEF FinalizeRun
    <2>7. CASE ReleaseSessionSlot(w)
      BY <2>1, <2>7 DEF ReleaseSessionSlot
    <2>8. CASE AppendQuestion(w) \/ StreamChunk(w) \/ AppendReply(w) \/ ExecutionFails(w)
      BY <2>1, <2>8 DEF AppendQuestion, StreamChunk, AppendReply, ExecutionFails, Working
    <2> QED BY <1>4, <2>2, <2>3, <2>4, <2>5, <2>6, <2>7, <2>8 DEF Execute
  <1>5. ASSUME WorkerStep(w) \/ WorkerDies(w), ~Execute(w) PROVE Moves
    <2> USE DEF Goto, ReturnToLoop, BeginFinalize
    <2>1. CASE SelectStaleRuns(w)
      BY <2>1 DEF SelectStaleRuns, Pop, Load
    <2>2. CASE LoadAfterRequeue(w)
      <3>1. job[w] # NoRun
        BY <2>2 DEF LoadAfterRequeue, LocalFits
      <3> QED BY <2>2, <3>1 DEF LoadAfterRequeue, Load
    <2>3. CASE \/ RequeueStaleRuns(w) \/ PushRequeuedRun(w) \/ PopTimesOut(w)
               \/ ClaimSessionSlot(w)
      BY <2>3 DEF RequeueStaleRuns, PushRequeuedRun, PopTimesOut, ClaimSessionSlot
    <2>4. CASE PopAfterRequeue(w)
      BY <2>4 DEF PopAfterRequeue, Pop, LocalFits
    <2>5. CASE RequeueWaitingRun(w) \/ WorkerDies(w)
      BY <2>5 DEF RequeueWaitingRun, WorkerDies
    <2>6. CASE PushFails(w)
      BY <2>6 DEF PushFails
    <2> QED BY <1>5, <2>1, <2>2, <2>3, <2>4, <2>5, <2>6 DEF WorkerStep
  <1> QED BY <1>1, <1>2, <1>3, <1>4, <1>5 DEF Next, vars

(* What a worker has read of an undisturbed run's end stays true. *)
LEMMA CopyOfEndedStep ==
    ASSUME TypeOK, TypeOK', RecoveryFits, OnePlace, CancelDisturbs, EndedIsLeft,
           CopyOfEnded, [Next]_vars
    PROVE  CopyOfEnded'
  <1> USE DEF TypeOK, WorkerTypes
  <1> SUFFICES ASSUME NEW w \in Workers
               PROVE  /\ job'[w] = NoRun => copy'[w] \notin Terminal
                      /\ job'[w] \in Runs \ disturbed' =>
                            /\ copy'[w] \in Terminal => status'[job'[w]] \in Terminal
                            /\ pc'[w] = "release" => status'[job'[w]] \in Terminal
    BY DEF CopyOfEnded
  <1>1. job'[w] = NoRun => copy'[w] \notin Terminal
    BY CopyMoves DEF CopyOfEnded, Terminal
  <1> DEFINE r == job'[w]
  <1>2. ASSUME r \in Runs \ disturbed', status[r] \in Terminal
        PROVE  status'[r] \in Terminal
    BY <1>2, EndedWrites DEF Terminal
  <1>3. ASSUME r \in Runs \ disturbed', copy'[w] \in Terminal
        PROVE  status'[r] \in Terminal
    <2>1. r # NoRun /\ r \in Runs \ disturbed
      BY <1>3, RunsAssumption, CancelDisturbsStep
    <2>2. CASE job'[w] = job[w] /\ copy'[w] = status'[job[w]]
      BY <1>3, <2>2
    <2>3. CASE copy'[w] = copy[w] /\ job'[w] = job[w]
      BY <1>2, <1>3, <2>1, <2>3 DEF CopyOfEnded
    <2>4. CASE copy'[w] = copy[w] /\ job[w] = NoRun
      BY <1>3, <2>4 DEF CopyOfEnded
    <2> QED BY <2>1, <2>2, <2>3, <2>4, CopyMoves
  <1>4. ASSUME r \in Runs \ disturbed', pc'[w] = "release"
        PROVE  status'[r] \in Terminal
    <2>1. r \in Runs \ disturbed
      BY <1>4, CancelDisturbsStep
    <2>2. CASE pc[w] = "release" /\ job'[w] = job[w]
      BY <1>2, <1>4, <2>1, <2>2 DEF CopyOfEnded
    <2>3. CASE FinalizeRun(w)
      <3>1. copy'[w] = status'[job[w]] /\ job'[w] = job[w] /\ goal[w] \in Terminal
        BY <2>3 DEF FinalizeRun, LocalFits
      <3>2. CASE copy[w] = goal[w]
        BY <1>2, <1>4, <2>1, <3>1, <3>2 DEF CopyOfEnded
      <3>3. CASE copy[w] # goal[w]
        BY <1>4, <2>3, <3>1, <3>3 DEF FinalizeRun, CommitRun, RowTypes
      <3> QED BY <3>2, <3>3
    <2> QED BY <1>4, <2>2, <2>3, CopyMoves
  <1> QED BY <1>1, <1>3, <1>4

(* An executing run keeps the slot it claimed. *)
LEMMA ServedInSlotStep ==
    ASSUME TypeOK, RecoveryFits, CancelDisturbs, WorkHoldsSlot, CopyOfEnded,
           ServedInSlot, [Next]_vars
    PROVE  ServedInSlot'
  <1> SUFFICES ASSUME NEW r \in Runs \ disturbed', status'[r] \in Active, InSession(r)
               PROVE  slot'[SessionOf[r]] = r
    BY DEF ServedInSlot, InSession
  <1>a. r \in Runs \ disturbed /\ r \in Runs
    BY CancelDisturbsStep
  <1>1. CASE status[r] \in Active
    <2>1. slot[SessionOf[r]] = r
      BY <1>a, <1>1 DEF ServedInSlot
    <2>2. \A w \in Workers : ReleaseSessionSlot(w) => job[w] # r
      BY <1>a, <1>1 DEF ReleaseSessionSlot, CopyOfEnded, Active, Terminal
    <2> QED BY <2>1, <2>2, SlotKept
  <1>2. CASE status[r] \notin Active
    <2>1. \A w \in Workers : FinalizeRun(w) => goal[w] \in Terminal
      BY DEF FinalizeRun, TypeOK, WorkerTypes, LocalFits
    <2>2. PICK w \in Workers : job[w] = r /\ (StartRetrieving(w) \/ StartAnswering(w))
      BY <1>2, <2>1, StatusWrites DEF Active, Terminal
    <2>3. slot[SessionOf[r]] = r
      BY <1>a, <2>2 DEF WorkHoldsSlot, StartRetrieving, StartAnswering, Working
    <2> QED BY <2>2, <2>3 DEF StartRetrieving, StartAnswering
  <1> QED BY <1>1, <1>2

(* Together they are inductive. *)
LEMMA TurnsInvariant == Spec => []TurnsInv
  <1>1. ASSUME Init PROVE TurnsInv
    <2>1. RecoveryFits /\ Recoverable /\ OnePlace /\ CancelDisturbs /\ WorkHoldsSlot /\ EndedIsLeft
      BY <1>1, RunsAssumption
         DEF Init, RecoveryFits, Recoverable, OnePlace, CancelDisturbs, WorkHoldsSlot,
             EndedIsLeft, InQueue, Scanned, Active, Terminal, Working
    <2>2. KnownExist /\ CopyOfEnded /\ ServedInSlot
      BY <1>1 DEF Init, KnownExist, CopyOfEnded, ServedInSlot, Active, Terminal
    <2>3. NotBefore
      BY <1>1, RunsAssumption, SessionAssumption DEF Init, NotBefore, InSession
    <2> QED BY <2>1, <2>2, <2>3 DEF TurnsInv
  <1>2. TypeOK /\ TypeOK' /\ TurnsInv /\ [Next]_vars => TurnsInv'
    BY RecoverableStep, OnePlaceStep, CancelDisturbsStep, WorkHoldsSlotStep,
       EndedIsLeftStep, KnownExistStep, NotBeforeStep, CopyOfEndedStep, ServedInSlotStep
       DEF TurnsInv
  <1> QED BY <1>1, <1>2, TypeCorrect, PTL DEF Spec

-----------------------------------------------------------------------------
(* The service: every step of the pipeline is one of its steps, or none. *)

(* The phases of all runs, the state of SessionTurns. *)
RunPhases == [r \in Runs |-> Phase(r)]

(* An undisturbed run's phase, by its status and its slot. *)
LEMMA PhaseIs ==
    ASSUME TypeOK, NEW r \in Runs \ disturbed
    PROVE  /\ Phase(r) = "absent" <=> status[r] = "none"
           /\ Phase(r) = "served" <=> status[r] \in Terminal
           /\ Phase(r) = "serving" <=>
                 \/ status[r] \in Active
                 \/ status[r] \in {"accepted", "queued"} /\ InSession(r) /\ slot[SessionOf[r]] = r
           /\ Phase(r) = "waiting" <=>
                 status[r] \in {"accepted", "queued"} /\ ~(InSession(r) /\ slot[SessionOf[r]] = r)
  <1>1. status[r] \in {"none", "accepted", "queued"} \union Active \union Terminal
    BY DEF TypeOK, RowTypes, Status, Ordered
  <1> QED BY <1>1 DEF Phase, Active, Terminal

(* The phase of a disturbed run. *)
LEMMA DisturbedIs ==
    ASSUME NEW r \in disturbed
    PROVE  Phase(r) = "disturbed"
  BY DEF Phase

(* A run whose row and slot are left alone stays in its phase. *)
LEMMA PhaseStays ==
    ASSUME NEW r \in Runs, r \in disturbed' <=> r \in disturbed,
           r \notin disturbed => status'[r] = status[r],
           r \notin disturbed /\ InSession(r) =>
               (slot'[SessionOf[r]] = r <=> slot[SessionOf[r]] = r)
    PROVE  Phase(r)' = Phase(r)
  BY DEF Phase, InSession

(* When one run's phase changes, the others being left alone, the state moves. *)
LEMMA OneMoves ==
    ASSUME NEW r \in Runs, \A q \in Runs \ {r} : Phase(q)' = Phase(q)
    PROVE  RunPhases' = [RunPhases EXCEPT ![r] = Phase(r)']
  BY DEF RunPhases

(* Nothing moves when no run's phase changes. *)
LEMMA NoneMoves ==
    ASSUME \A q \in Runs : Phase(q)' = Phase(q)
    PROVE  UNCHANGED RunPhases
  BY DEF RunPhases

(* The abstract steps, said of Phase. *)
LEMMA AbstractSubmit ==
    ASSUME NEW r \in Runs, \A q \in Runs \ {r} : Phase(q)' = Phase(q),
           Phase(r) = "absent", Phase(r)' = "waiting"
    PROVE  Turns!Next
  <1>1. Turns!Submit(r)
    BY OneMoves DEF Turns!Submit, Turns!Move, RunPhases
  <1> QED BY <1>1 DEF Turns!Next

LEMMA AbstractBegin ==
    ASSUME NEW r \in Runs, \A q \in Runs \ {r} : Phase(q)' = Phase(q),
           Phase(r) = "waiting", Phase(r)' = "serving",
           \A q \in Runs \ {r} : InSession(q) /\ SessionOf[q] = SessionOf[r] =>
               Phase(q) # "serving" /\ (q < r => Phase(q) # "waiting")
    PROVE  Turns!Next
  <1>1. Turns!Begin(r)
    BY OneMoves DEF Turns!Begin, Turns!Move, Turns!Companions, RunPhases, InSession
  <1> QED BY <1>1 DEF Turns!Next

LEMMA AbstractEnd ==
    ASSUME NEW r \in Runs, \A q \in Runs \ {r} : Phase(q)' = Phase(q),
           Phase(r) \in {"waiting", "serving"}, Phase(r)' = "served"
    PROVE  Turns!Next
  <1>1. Turns!End(r)
    BY OneMoves DEF Turns!End, RunPhases
  <1> QED BY <1>1 DEF Turns!Next

LEMMA AbstractDisturb ==
    ASSUME \A r \in Runs : \/ Phase(r)' = Phase(r)
                           \/ Phase(r) # "absent" /\ Phase(r)' = "disturbed"
    PROVE  [Turns!Next]_RunPhases
  <1>1. CASE RunPhases' = RunPhases
    BY <1>1
  <1>2. CASE RunPhases' # RunPhases
    <2>1. Turns!Disturb
      BY <1>2 DEF Turns!Disturb, RunPhases
    <2> QED BY <2>1 DEF Turns!Next
  <1> QED BY <1>1, <1>2

(* A request creates the row of its run: the run is submitted. *)
LEMMA CreateMaps ==
    ASSUME TypeOK, TypeOK', TurnsInv, NEW r \in Runs, CreatePendingRun(r)
    PROVE  [Turns!Next]_RunPhases
  <1>1. \A q \in Runs \ {r} : Phase(q)' = Phase(q)
    BY PhaseStays DEF CreatePendingRun, TypeOK, RowTypes
  <1>2. CASE r \in disturbed
    <2>1. Phase(r)' = Phase(r)
      BY <1>2, PhaseStays DEF CreatePendingRun
    <2> QED BY <1>1, <2>1, NoneMoves
  <1>3. CASE r \notin disturbed
    <2>1. status[r] = "none" /\ ~(InSession(r) /\ slot[SessionOf[r]] = r)
      BY <1>3 DEF TurnsInv, NotBefore, CreatePendingRun
    <2>2. Phase(r) = "absent"
      BY <1>3, <2>1, PhaseIs
    <2>3. status'[r] = "accepted" /\ UNCHANGED <<slot, disturbed>>
      BY DEF CreatePendingRun, TypeOK, RowTypes
    <2>4. Phase(r)' = "waiting"
      BY <1>3, <2>1, <2>3 DEF Phase, Terminal, Active, InSession
    <2> QED BY <1>1, <2>2, <2>4, AbstractSubmit
  <1> QED BY <1>2, <1>3

(* Marking an accepted run as queued changes nothing in the service. *)
LEMMA MarkMaps ==
    ASSUME TypeOK, TurnsInv, NEW r \in Runs, MarkRunQueued(r)
    PROVE  UNCHANGED RunPhases
  <1>1. \A q \in Runs \ {r} : Phase(q)' = Phase(q)
    BY PhaseStays DEF MarkRunQueued, TypeOK, RowTypes
  <1>2. Phase(r)' = Phase(r)
    <2>1. CASE r \in disturbed
      BY <2>1, PhaseStays DEF MarkRunQueued
    <2>2. CASE r \notin disturbed
      <3>1. status[r] = "accepted"
        BY <2>2 DEF MarkRunQueued, TurnsInv, EndedIsLeft
      <3>2. status'[r] = "queued" /\ UNCHANGED <<slot, disturbed>>
        BY <3>1 DEF MarkRunQueued, TypeOK, RowTypes
      <3> QED BY <2>2, <3>1, <3>2 DEF Phase, Terminal, Active, InSession
    <2> QED BY <2>1, <2>2
  <1> QED BY <1>1, <1>2, NoneMoves

(* A cancel request and lease recovery take runs out of the promise. *)
LEMMA DisturbMaps ==
    ASSUME TypeOK, TurnsInv,
           \/ \E r \in Runs : CancelWaitingRun(r)
           \/ \E w \in Workers : RequeueStaleRuns(w)
    PROVE  [Turns!Next]_RunPhases
  <1> USE DEF TypeOK, TurnsInv
  <1>1. ASSUME NEW q \in disturbed', q \in Runs, status[q] # "none"
        PROVE  Phase(q) # "absent" /\ Phase(q)' = "disturbed"
    BY <1>1 DEF Phase
  <1>2. ASSUME NEW r \in Runs, CancelWaitingRun(r)
        PROVE  \A q \in Runs : \/ Phase(q)' = Phase(q)
                               \/ Phase(q) # "absent" /\ Phase(q)' = "disturbed"
    <2>1. r \in disturbed' /\ status[r] # "none"
      BY <1>2 DEF CancelWaitingRun, KnownExist
    <2>2. \A q \in Runs \ {r} : Phase(q)' = Phase(q)
      BY <1>2, PhaseStays DEF CancelWaitingRun, RowTypes
    <2> QED BY <1>1, <2>1, <2>2
  <1>3. ASSUME NEW w \in Workers, RequeueStaleRuns(w)
        PROVE  \A q \in Runs : \/ Phase(q)' = Phase(q)
                               \/ Phase(q) # "absent" /\ Phase(q)' = "disturbed"
    <2>1. ASSUME NEW q \in Runs, q \in stale[w]
          PROVE  q \in disturbed' /\ status[q] # "none"
      BY <1>3, <2>1 DEF RequeueStaleRuns, KnownExist
    <2>2. ASSUME NEW q \in Runs, q \notin stale[w] PROVE Phase(q)' = Phase(q)
      <3>1. status'[q] = status[q] /\ (q \in disturbed' <=> q \in disturbed)
        BY <1>3, <2>2 DEF RequeueStaleRuns, RecoveryFits
      <3>2. InSession(q) => (slot'[SessionOf[q]] = q <=> slot[SessionOf[q]] = q)
        BY <1>3, <2>2, SessionAssumption, RunsAssumption
           DEF RequeueStaleRuns, SlotFreedOf, InSession
      <3> QED BY <3>1, <3>2, PhaseStays
    <2> QED BY <1>1, <2>1, <2>2
  <1> QED BY <1>2, <1>3, AbstractDisturb

(* Freeing the slot of a run that is disturbed or has ended. *)
LEMMA FreeMaps ==
    ASSUME TypeOK, NEW r \in Runs, slot' = SlotFreedOf({r}), UNCHANGED <<status, disturbed>>,
           r \in disturbed \/ status[r] \in Terminal
    PROVE  UNCHANGED RunPhases
  <1>1. ASSUME NEW q \in Runs, q # r PROVE Phase(q)' = Phase(q)
    <2>1. InSession(q) => (slot'[SessionOf[q]] = q <=> slot[SessionOf[q]] = q)
      BY <1>1, SessionAssumption, RunsAssumption DEF SlotFreedOf, InSession
    <2> QED BY <2>1, PhaseStays
  <1>2. Phase(r)' = Phase(r)
    BY DEF Phase, Terminal
  <1> QED BY <1>1, <1>2, NoneMoves

(* A claim begins the run's turn: the slot was free and no older run waits. *)
LEMMA ClaimMaps ==
    ASSUME TypeOK, TurnsInv, NEW w \in Workers, NEW r \in Runs, job[w] = r,
           ClaimSessionSlot(w)
    PROVE  [Turns!Next]_RunPhases
  <1> USE DEF TypeOK
  <1> DEFINE s == SessionOf[r]
  <1>a. r # NoRun
    BY RunsAssumption
  <1>b. UNCHANGED <<status, disturbed>>
    BY DEF ClaimSessionSlot
  <1>1. CASE UNCHANGED slot
    BY <1>b, <1>1, PhaseStays, NoneMoves
  <1>2. CASE slot' # slot
    <2>1. /\ InSession(r) /\ s \in Sessions /\ slot[s] = NoRun /\ Older(r) = {}
          /\ slot' = [slot EXCEPT ![s] = r]
      BY <1>2, <1>a, SessionAssumption DEF ClaimSessionSlot, InSession
    <2>2. slot'[s] = r /\ \A t \in Sessions \ {s} : slot'[t] = slot[t]
      BY <2>1 DEF ChatTypes
    <2>3. ASSUME NEW q \in Runs, q # r PROVE Phase(q)' = Phase(q)
      <3>1. InSession(q) => (slot'[SessionOf[q]] = q <=> slot[SessionOf[q]] = q)
        BY <2>1, <2>2, <2>3, SessionAssumption, RunsAssumption DEF InSession
      <3> QED BY <1>b, <3>1, PhaseStays
    <2>4. CASE r \in disturbed
      <3>1. Phase(r)' = Phase(r)
        BY <1>a, <1>b, <2>4, PhaseStays
      <3> QED BY <2>3, <3>1, NoneMoves
    <2>5. CASE r \notin disturbed
      <3> USE DEF TurnsInv
      <3>1. status[r] \in {"accepted", "queued"}
        <4>1. status[r] # "none"
          BY <1>a, <2>5 DEF EndedIsLeft, OnePlace
        <4>2. status[r] \notin Terminal
          BY <1>a, <2>5 DEF EndedIsLeft, ClaimSessionSlot
        <4>3. status[r] \notin Active
          BY <1>a, <2>1, <2>5 DEF ServedInSlot
        <4> QED BY <1>a, <4>1, <4>2, <4>3 DEF RowTypes, Status, Ordered
      <3>2. Phase(r) = "waiting"
        BY <1>a, <2>1, <2>5, <3>1, PhaseIs
      <3>3. Phase(r)' = "serving"
        BY <1>b, <2>1, <2>2, <2>5, <3>1 DEF Phase, InSession, Terminal, Active
      <3>4. ASSUME NEW q \in Runs \ {r}, InSession(q), SessionOf[q] = s
            PROVE  Phase(q) # "serving" /\ (q < r => Phase(q) # "waiting")
        <4>1. CASE q \in disturbed
          BY <4>1, DisturbedIs
        <4>2. CASE q \notin disturbed
          <5>1. slot[SessionOf[q]] # q
            BY <2>1, <3>4, RunsAssumption
          <5>2. Phase(q) # "serving"
            BY <3>4, <4>2, <5>1, PhaseIs DEF ServedInSlot
          <5>3. ASSUME q < r, Phase(q) = "waiting" PROVE FALSE
            <6>1. status[q] \in {"accepted", "queued"}
              BY <4>2, <5>3, PhaseIs
            <6>2. q \in Older(r)
              BY <3>4, <5>3, <6>1 DEF Older, Ordered
            <6> QED BY <2>1, <6>2
          <5> QED BY <5>2, <5>3
        <4> QED BY <4>1, <4>2
      <3> QED BY <1>a, <2>3, <3>2, <3>3, <3>4, AbstractBegin
    <2> QED BY <2>4, <2>5
  <1> QED BY <1>1, <1>2

(* An executor writes that its run is being served: it is, or it has no     *)
(* session and its turn begins.                                             *)
LEMMA StartMaps ==
    ASSUME TypeOK, TypeOK', TurnsInv, [Next]_vars,
           NEW w \in Workers, NEW r \in Runs, job[w] = r,
           StartRetrieving(w) \/ StartAnswering(w)
    PROVE  [Turns!Next]_RunPhases
  <1> USE DEF TypeOK
  <1>a. r # NoRun /\ pc[w] \in Working
    BY RunsAssumption DEF StartRetrieving, StartAnswering, Working
  <1>b. UNCHANGED <<slot, disturbed>> /\ (status'[r] = status[r] \/ status'[r] \in Active)
    BY <1>a DEF StartRetrieving, StartAnswering, CommitRun, RowTypes, Active
  <1>1. ASSUME NEW q \in Runs, q # r PROVE Phase(q)' = Phase(q)
    <2>1. status'[q] = status[q]
      BY <1>1 DEF StartRetrieving, StartAnswering, CommitRun, RowTypes
    <2> QED BY <1>b, <2>1, PhaseStays
  <1>2. CASE r \in disturbed \/ status'[r] = status[r]
    <2>1. Phase(r)' = Phase(r)
      BY <1>a, <1>b, <1>2, PhaseStays
    <2> QED BY <1>1, <2>1, NoneMoves
  <1>3. CASE r \notin disturbed /\ status'[r] \in Active
    <2> USE DEF TurnsInv
    <2>1. status[r] \in {"accepted", "queued"} \union Active
      <3>1. status[r] # "none"
        BY <1>a, <1>3 DEF EndedIsLeft, OnePlace
      <3>2. status[r] \notin Terminal
        BY <1>a, <1>3 DEF EndedIsLeft, Working
      <3> QED BY <1>a, <3>1, <3>2 DEF RowTypes, Status, Ordered
    <2>2. InSession(r) => slot[SessionOf[r]] = r
      BY <1>a, <1>3 DEF WorkHoldsSlot
    <2>3. Phase(r)' = "serving"
      BY <1>b, <1>3 DEF Phase, Active, Terminal
    <2>4. CASE InSession(r) \/ status[r] \in Active
      <3>1. Phase(r) = "serving"
        BY <1>a, <1>3, <2>1, <2>2, <2>4, PhaseIs
      <3> QED BY <1>1, <2>3, <3>1, NoneMoves
    <2>5. CASE ~InSession(r) /\ status[r] \notin Active
      <3>1. Phase(r) = "waiting"
        BY <1>a, <1>3, <2>1, <2>5, PhaseIs
      <3>2. \A q \in Runs : ~(InSession(q) /\ SessionOf[q] = SessionOf[r])
        BY <2>5 DEF InSession
      <3> QED BY <1>a, <1>1, <2>3, <3>1, <3>2, AbstractBegin
    <2> QED BY <2>4, <2>5
  <1> QED BY <1>b, <1>2, <1>3

(* A finalisation ends the run, in its turn or out of it, and once. *)
LEMMA FinalizeMaps ==
    ASSUME TypeOK, TypeOK', TurnsInv, [Next]_vars, NEW w \in Workers, NEW r \in Runs, job[w] = r,
           FinalizeRun(w)
    PROVE  [Turns!Next]_RunPhases
  <1> USE DEF TypeOK
  <1>a. r # NoRun
    BY RunsAssumption
  <1>b. goal[w] \in Terminal
    BY DEF FinalizeRun, LocalFits, WorkerTypes
  <1>c. UNCHANGED <<slot, disturbed>> /\ (status'[r] = status[r] \/ status'[r] \in Terminal)
    BY <1>a, <1>b DEF FinalizeRun, CommitRun, RowTypes
  <1>1. ASSUME NEW q \in Runs, q # r PROVE Phase(q)' = Phase(q)
    <2>1. status'[q] = status[q]
      BY <1>1 DEF FinalizeRun, CommitRun
    <2> QED BY <1>c, <2>1, PhaseStays
  <1>2. CASE r \in disturbed \/ status'[r] = status[r]
    <2>1. Phase(r)' = Phase(r)
      BY <1>a, <1>c, <1>2, PhaseStays
    <2> QED BY <1>1, <2>1, NoneMoves
  <1>3. CASE r \notin disturbed /\ status'[r] \in Terminal
    <2>1. status[r] # "none"
      BY <1>a, <1>3 DEF TurnsInv, EndedIsLeft, OnePlace
    <2>2. Phase(r) \in {"waiting", "serving", "served"}
      <3>1. status[r] \in {"accepted", "queued"} \union Active \union Terminal
        BY <2>1 DEF RowTypes, Status, Ordered
      <3> QED BY <1>3, <3>1, PhaseIs
    <2>3. Phase(r)' = "served"
      BY <1>c, <1>3 DEF Phase, Active, Terminal
    <2>4. CASE Phase(r) = "served"
      BY <1>1, <2>3, <2>4, NoneMoves
    <2>5. CASE Phase(r) \in {"waiting", "serving"}
      BY <1>a, <1>1, <2>3, <2>5, AbstractEnd
    <2> QED BY <2>2, <2>4, <2>5
  <1> QED BY <1>c, <1>2, <1>3

(* Every step of the pipeline is a step of the service, or none. *)
LEMMA TurnsStep ==
    ASSUME TypeOK, TypeOK', TurnsInv, [Next]_vars
    PROVE  [Turns!Next]_RunPhases
  <1>a. ASSUME UNCHANGED <<status, slot, disturbed>> PROVE UNCHANGED RunPhases
    BY <1>a, PhaseStays, NoneMoves
  <1>1. CASE UNCHANGED vars
    BY <1>1, <1>a DEF vars
  <1>2. ASSUME NEW r \in Runs, RequestStep(r) PROVE [Turns!Next]_RunPhases
    <2>1. CASE EnqueueChatRun(r)
      BY <2>1, <1>a DEF EnqueueChatRun
    <2> QED BY <1>2, <2>1, CreateMaps, MarkMaps DEF RequestStep
  <1>3. ASSUME NEW r \in Runs, CancelStep(r) PROVE [Turns!Next]_RunPhases
    <2>1. CASE RequestRunCancel(r) \/ CancelActiveRun(r)
      BY <2>1, <1>a DEF RequestRunCancel, CancelActiveRun
    <2>2. CASE CancelReleaseSlot(r)
      <3>1. r \in disturbed
        BY <2>2 DEF CancelReleaseSlot, TurnsInv, CancelDisturbs
      <3> QED BY <2>2, <3>1, FreeMaps DEF CancelReleaseSlot
    <2> QED BY <1>3, <2>1, <2>2, DisturbMaps DEF CancelStep
  <1>4. ASSUME NEW r \in Runs, RequestTornDown(r) \/ LeaseRunsOut(r)
        PROVE  [Turns!Next]_RunPhases
    BY <1>4, <1>a DEF RequestTornDown, LeaseRunsOut
  <1>5. ASSUME NEW w \in Workers, Execute(w) PROVE [Turns!Next]_RunPhases
    <2>1. job[w] \in Runs
      BY <1>5, ExecutorHolds, JobType DEF TypeOK, LocalOK
    <2>2. CASE StartRetrieving(w) \/ StartAnswering(w)
      BY <2>1, <2>2, StartMaps
    <2>3. CASE FinalizeRun(w)
      BY <2>1, <2>3, FinalizeMaps
    <2>4. CASE ReleaseSessionSlot(w)
      <3>1. job[w] \in disturbed \/ status[job[w]] \in Terminal
        BY <2>1, <2>4 DEF ReleaseSessionSlot, TurnsInv, CopyOfEnded
      <3> QED BY <2>1, <2>4, <3>1, FreeMaps DEF ReleaseSessionSlot
    <2>5. CASE \/ AppendQuestion(w) \/ TouchHeartbeat(w) \/ StreamChunk(w)
               \/ PersistAnswer(w) \/ AppendReply(w) \/ ExecutionFails(w)
      BY <2>5, <1>a DEF AppendQuestion, TouchHeartbeat, StreamChunk, PersistAnswer,
                        AppendReply, ExecutionFails
    <2> QED BY <1>5, <2>2, <2>3, <2>4, <2>5 DEF Execute
  <1>6. ASSUME NEW w \in Workers, ClaimSessionSlot(w) PROVE [Turns!Next]_RunPhases
    <2>1. job[w] \in Runs
      BY <1>6, JobType DEF ClaimSessionSlot, TypeOK, LocalOK
    <2> QED BY <1>6, <2>1, ClaimMaps
  <1>7. ASSUME NEW w \in Workers, RequeueStaleRuns(w) PROVE [Turns!Next]_RunPhases
    BY <1>7, DisturbMaps
  <1>8. ASSUME NEW w \in Workers,
               \/ SelectStaleRuns(w) \/ PushRequeuedRun(w) \/ PopAfterRequeue(w)
               \/ PopTimesOut(w) \/ LoadAfterRequeue(w) \/ RequeueWaitingRun(w)
               \/ PushFails(w) \/ WorkerDies(w)
        PROVE  [Turns!Next]_RunPhases
    BY <1>8, <1>a DEF SelectStaleRuns, PushRequeuedRun, PopAfterRequeue, PopTimesOut,
                      LoadAfterRequeue, RequeueWaitingRun, PushFails, WorkerDies
  <1> QED BY <1>1, <1>2, <1>3, <1>4, <1>5, <1>6, <1>7, <1>8 DEF Next, WorkerStep

(* The chat pipeline implements the service SessionTurns promises: whatever  *)
(* workers, requests and faults do, the runs of a session that are left to   *)
(* it are served one at a time, each once, and none before an older one.     *)
THEOREM PipelineServesTurns == Spec => ServesTurns
  <1>1. Init => Turns!Init
    BY DEF Init, Turns!Init, Phase, Active, Terminal
  <1>2. TypeOK /\ TypeOK' /\ TurnsInv /\ [Next]_vars
            => [Turns!Next]_([r \in Runs |-> Phase(r)])
    BY TurnsStep DEF RunPhases
  <1> QED BY <1>1, <1>2, TypeCorrect, TurnsInvariant, PTL DEF Spec, ServesTurns, Turns!Spec

(* What a client relies on: of a session's runs one is being served. *)
OneServed ==
    \A r \in Runs : \A q \in Turns!Companions(r) :
        ~(RunPhases[r] = "serving" /\ RunPhases[q] = "serving")

(* The service keeps its first promise, whoever implements it. *)
LEMMA ServiceServesOne == Turns!Spec => []OneServed
  <1>1. Turns!Init => OneServed
    BY DEF Turns!Init, Turns!Companions, OneServed, RunPhases
  <1>2. ASSUME OneServed, [Turns!Next]_RunPhases PROVE OneServed'
    <2>a. \A r \in Runs : \A q \in Turns!Companions(r) : q \in Runs /\ r \in Turns!Companions(q)
      BY DEF Turns!Companions
    <2>b. DOMAIN RunPhases = Runs
      BY DEF RunPhases
    <2>1. CASE UNCHANGED RunPhases
      BY <1>2, <2>1 DEF OneServed, Turns!Companions
    <2>2. ASSUME NEW r \in Runs, Turns!Submit(r) \/ Turns!End(r) PROVE OneServed'
      <3>1. \A q \in Runs : RunPhases'[q] = "serving" => RunPhases[q] = "serving"
        BY <2>2 DEF Turns!Submit, Turns!Move, Turns!End, RunPhases
      <3> QED BY <1>2, <2>a, <3>1 DEF OneServed, Turns!Companions
    <2>3. ASSUME NEW r \in Runs, Turns!Begin(r) PROVE OneServed'
      <3>1. \A q \in Turns!Companions(r) : RunPhases[q] # "serving"
        BY <2>3, <2>a DEF Turns!Begin, RunPhases
      <3>2. \A q \in Runs \ {r} : RunPhases'[q] = RunPhases[q]
        BY <2>3 DEF Turns!Begin, Turns!Move, RunPhases
      <3>3. \A p \in Runs : p \notin Turns!Companions(p)
        BY DEF Turns!Companions
      <3> QED BY <1>2, <2>a, <3>1, <3>2, <3>3 DEF OneServed, Turns!Companions
    <2>4. CASE Turns!Disturb
      <3>1. \A q \in Runs : RunPhases'[q] = "serving" => RunPhases[q] = "serving"
        BY <2>4 DEF Turns!Disturb, RunPhases
      <3> QED BY <1>2, <2>a, <3>1 DEF OneServed, Turns!Companions
    <2> QED BY <1>2, <2>1, <2>2, <2>3, <2>4 DEF Turns!Next
  <1>3. OneServed /\ [Turns!Next]_([r \in Runs |-> Phase(r)]) => OneServed'
    BY <1>2 DEF RunPhases
  <1> QED BY <1>1, <1>3, PTL DEF Turns!Spec

(* So at no time do two undisturbed runs of a session execute, hold its slot, *)
(* or the one execute while the other holds the slot.                         *)
THEOREM OneRunServed == Spec => []OneServed
  BY PipelineServesTurns, ServiceServesOne DEF ServesTurns
=============================================================================
