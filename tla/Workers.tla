------------------------------- MODULE Workers -------------------------------
(***************************************************************************)
(* The worker processes (worker.py): what one pass of a worker's loop does *)
(* with what the queues give it, the entry of the registry that tells it   *)
(* is alive, when it ends, and the supervisor that replaces it.  What the  *)
(* handlers do is in ChatRuns, ComplianceRuns and Documents.               *)
(*                                                                         *)
(* A node code is the sequence of its parts.  A worker is a record of its  *)
(* code, whether its process is alive, whether it has a connection, its    *)
(* job and the tasks it has counted; the registry maps codes to entries.   *)
(***************************************************************************)
EXTENDS Naturals, Sequences, FiniteSets

NoJob == "none"

(* _worker_node_code_with_pid: not twice *)
NodeCode(base, pid) == IF \E i \in 2..Len(base) : base[i] = pid THEN base ELSE Append(base, pid)

(* AsyncWorkerRuntime.__init__, _connect *)
NewWorker(base, pid) ==
    [code |-> NodeCode(base, pid), alive |-> TRUE, connected |-> TRUE, job |-> NoJob, tasks |-> 0]

-----------------------------------------------------------------------------
(* The registry.                                                            *)

(* _build_worker_heartbeat_payload, _publish_heartbeat: until is when the   *)
(* key expires.                                                             *)
Entry(w, now, ttl) == [status |-> IF w.job = NoJob THEN "idle" ELSE "busy", job |-> w.job,
                       at |-> now, until |-> now + ttl]

Published(reg, w, now, ttl) ==
    [c \in DOMAIN reg \union {w.code} |-> IF c = w.code THEN Entry(w, now, ttl) ELSE reg[c]]

(* _heartbeat_loop: without a connection nothing is published, and it does  *)
(* not make one; a failure is logged.                                       *)
Heartbeat(reg, w, now, ttl, fails) ==
    IF ~w.connected \/ fails THEN reg ELSE Published(reg, w, now, ttl)

Registered(reg, now) == {c \in DOMAIN reg : reg[c].until > now}

-----------------------------------------------------------------------------
(* One pass of run().  `popped` is what BLPOP gives: nothing, a payload     *)
(* that is no JSON, one that is no object, or a message; `fails` says where *)
(* the pass meets an exception, `large` whether the process has grown       *)
(* beyond worker_max_rss_mb when it looks.                                  *)
QueueNames == <<"chat", "compliance", "parse">>

(* BLPOP serves the lists in the order they are named in.                   *)
PopsFrom(queues) ==
    LET full == {i \in DOMAIN QueueNames : queues[QueueNames[i]] # <<>>}
    IN  {QueueNames[i] : i \in {j \in full : \A k \in full : j <= k}}

AfterPop(queues) == [q \in DOMAIN queues |-> IF q \in PopsFrom(queues) THEN Tail(queues[q]) ELSE queues[q]]

Handlers == {"parse_job", "chat_run", "compliance_run"}
Payloads == Handlers \union {"nothing", "no JSON", "no object", "unknown kind"}
Failures == {"nowhere", "before the pop", "behind the pop", "in the handler"}

(* A message whose handling is begun.  What the handler throws is logged.   *)
Begun(popped, fails) ==
    /\ fails \in {"nowhere", "in the handler"}
    /\ popped \in Handlers \union {"unknown kind"}

(* What the pass has taken from the queues and not handed to a handler      *)
Dropped(popped, fails) ==
    IF fails = "before the pop" \/ popped = "nothing" \/ Begun(popped, fails) THEN {} ELSE {popped}

(* The pass ends in the branch that gives the connection up and waits for   *)
(* worker_reconnect_delay_ms.                                               *)
Reconnects(popped, fails) ==
    \/ fails = "before the pop"
    \/ popped # "nothing" /\ fails = "behind the pop"
    \/ popped = "no object" /\ fails # "before the pop"

(* _handle_message, while it runs and behind it *)
Handling(w, popped) == [w EXCEPT !.connected = TRUE, !.job = popped]

(* Only a message counts as a task, of whatever kind and end.               *)
Pass(w, popped, fails) ==
    [w EXCEPT !.connected = ~Reconnects(popped, fails), !.job = NoJob,
              !.tasks = IF Begun(popped, fails) THEN @ + 1 ELSE @]

Recycles(w, popped, fails, max, large) ==
    Begun(popped, fails) /\ (Pass(w, popped, fails).tasks >= max \/ large)

(* The end of run(): the heartbeats are over before the key is deleted; it  *)
(* is not deleted without a connection, or when that fails.                 *)
Ended(w) == [w EXCEPT !.alive = FALSE, !.connected = FALSE, !.job = NoJob]

Deregistered(reg, w, fails) ==
    IF ~w.connected \/ fails THEN reg ELSE [c \in DOMAIN reg \ {w.code} |-> reg[c]]

(* A killed process leaves its key behind.                                  *)
Killed(w) == Ended(w)

-----------------------------------------------------------------------------
(* main: as many processes as configured, but one at least; each pass of    *)
(* the supervisor replaces those that are not alive, for whatever reason.   *)
ProcessCount(n) == IF n < 1 THEN 1 ELSE n

Started(base, pids, n) == [i \in 1..ProcessCount(n) |-> NewWorker(base, pids[i])]

Supervised(workers, base, pids) ==
    [i \in DOMAIN workers |-> IF workers[i].alive THEN workers[i] ELSE NewWorker(base, pids[i])]

(* KeyboardInterrupt *)
Interrupted(workers) == [i \in DOMAIN workers |-> Killed(workers[i])]
=============================================================================
