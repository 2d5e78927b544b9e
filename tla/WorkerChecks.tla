----------------------------- MODULE WorkerChecks -----------------------------
(***************************************************************************)
(* What Workers promises, over every course of a few steps that two        *)
(* supervised workers can take: passes of any outcome, heartbeats, kills,  *)
(* passes of the supervisor and the clock.                                 *)
(***************************************************************************)
EXTENDS Workers

LOCAL Ttl == 2        \* bound: three heartbeat intervals in the code's defaults
LOCAL MaxTasks == 2   \* bound: 50 in the code's defaults
LOCAL Depth == 5      \* bound: the steps of a course
LOCAL Base == <<"worker", "host">>
LOCAL Pids == [i \in 1..9 |-> CASE i = 1 -> "pid1" [] i = 2 -> "pid2" [] i = 3 -> "pid3" [] i = 4 -> "pid4"
                                [] i = 5 -> "pid5" [] i = 6 -> "pid6" [] i = 7 -> "pid7" [] i = 8 -> "pid8"
                                [] OTHER -> "pid9"]

(* died says when the process of a code ended; tidy are those that deleted  *)
(* their own key.                                                           *)
LOCAL Begin == [ws |-> Started(Base, Pids, 2), reg |-> [c \in {} |-> 0], now |-> 0, pids |-> 2,
                died |-> [c \in {} |-> 0], tidy |-> {}]

LOCAL Put(f, k, v) == [x \in DOMAIN f \union {k} |-> IF x = k THEN v ELSE f[x]]

LOCAL Beats(x, i) ==
    {[x EXCEPT !.reg = Heartbeat(@, x.ws[i], x.now, Ttl, fails)] : fails \in BOOLEAN}

LOCAL Takes(x, i) ==
    IF x.ws[i].job # NoJob THEN {} ELSE {[x EXCEPT !.ws[i] = Handling(@, "chat_run")]}

LOCAL Ends(x, i, p, f, large) ==
    LET w == Pass([x.ws[i] EXCEPT !.job = p], p, f)
    IN  IF ~Recycles(x.ws[i], p, f, MaxTasks, large) THEN {[x EXCEPT !.ws[i] = w]}
        ELSE {[x EXCEPT !.ws[i] = Ended(w), !.reg = Deregistered(@, w, fails),
                        !.died = Put(@, w.code, x.now), !.tidy = IF fails THEN @ ELSE @ \union {w.code}]
                : fails \in BOOLEAN}

LOCAL Passes(x, i) ==
    UNION {Ends(x, i, p, f, large) :
             p \in IF x.ws[i].job = NoJob THEN {"nothing", "no JSON", "no object"} ELSE {x.ws[i].job},
             f \in IF x.ws[i].job = NoJob THEN {"nowhere", "before the pop", "behind the pop"}
                   ELSE {"nowhere", "in the handler"}, large \in BOOLEAN}

LOCAL Kills(x, i) == {[x EXCEPT !.ws[i] = Killed(@), !.died = Put(@, x.ws[i].code, x.now)]}

LOCAL Supervises(x) ==
    LET dead == {i \in DOMAIN x.ws : ~x.ws[i].alive}
        fresh == [i \in DOMAIN x.ws |-> Pids[x.pids + i]]
    IN  IF dead = {} THEN {} ELSE {[x EXCEPT !.ws = Supervised(@, Base, fresh), !.pids = @ + 2]}

LOCAL Succ(x) ==
    {[x EXCEPT !.now = @ + 1]} \union Supervises(x)
      \union UNION {Beats(x, i) : i \in DOMAIN x.ws}
      \union UNION {Takes(x, i) \union Passes(x, i) \union Kills(x, i) :
                      i \in {j \in DOMAIN x.ws : x.ws[j].alive}}

LOCAL Reached == LET R[n \in 0..Depth] == IF n = 0 THEN {Begin}
                                          ELSE R[n - 1] \union UNION {Succ(x) : x \in R[n - 1]}
                 IN  R[Depth]

LOCAL Live(x) == {x.ws[i].code : i \in {j \in DOMAIN x.ws : x.ws[j].alive}}

(* Who is registered lives, or has not been dead for as long as a key       *)
(* lasts; a worker that has deleted its key never comes back, for no        *)
(* heartbeat of its own follows.                                            *)
ASSUME RegistryForgetsTheDead ==
    \A x \in Reached :
        /\ \A c \in Registered(x.reg, x.now) \ Live(x) : c \in DOMAIN x.died /\ x.now < x.died[c] + Ttl
        /\ x.tidy \intersect DOMAIN x.reg = {}

(* The registry misses the living, though: those without a connection, and  *)
(* those that are replaced at once are listed beside their successors.      *)
ASSUME RegistryIsNoCensus ==
    /\ \E x \in Reached : \E i \in DOMAIN x.ws :
          x.ws[i].alive /\ x.ws[i].code \in DOMAIN x.reg \ Registered(x.reg, x.now)
    /\ \E x \in Reached : Cardinality(Live(x)) = 2 /\ Cardinality(Registered(x.reg, x.now)) > 2

(* A worker never begins another task once it has counted its last, and it  *)
(* ends with no job in hand unless it is killed.                            *)
ASSUME EndsBetweenTasks ==
    \A x \in Reached : \A i \in DOMAIN x.ws :
        /\ x.ws[i].alive => x.ws[i].tasks < MaxTasks
        /\ ~x.ws[i].alive => x.ws[i].job = NoJob /\ x.ws[i].code \in DOMAIN x.died
        /\ x.ws[i].job # NoJob => x.ws[i].connected

(* One pass of the supervisor and all work again: the dead have successors, *)
(* the living go on, and no two have one code.                              *)
ASSUME SupervisionRestores ==
    \A x \in Reached : \A y \in Supervises(x) \union {x} :
        /\ y # x => \A i \in DOMAIN y.ws : y.ws[i].alive
        /\ \A i \in DOMAIN x.ws : x.ws[i].alive => y.ws[i] = x.ws[i]
        /\ \A i, j \in DOMAIN y.ws : y.ws[i].code = y.ws[j].code => i = j

(* What is popped is handed to a handler or dropped, never both.  Dropped   *)
(* are payloads nobody can read, which ask for no new connection unless     *)
(* they are JSON, but also a run when a command fails behind its pop: then  *)
(* only the row knows of it.                                                *)
ASSUME PoppedIsHandledOrDropped ==
    /\ \A p \in Payloads, f \in Failures :
         /\ Begun(p, f) => Dropped(p, f) = {} /\ ~Reconnects(p, f)
         /\ p # "nothing" /\ f # "before the pop" => Begun(p, f) \/ Dropped(p, f) = {p}
         /\ Dropped(p, f) # {} => Reconnects(p, f) \/ p = "no JSON"
    /\ \E f \in Failures : "chat_run" \in Dropped("chat_run", f)

(* A code names one process of the host: that of its pid, also when it was  *)
(* made of a code already.  Two pids in the configured one would be too     *)
(* many: the processes with these pids would share it.                      *)
LOCAL Codes == UNION {[1..n -> {"worker", "pid1", "pid2"}] : n \in 1..2}

ASSUME CodesNameProcesses ==
    \A b \in Codes, p, q \in {"pid1", "pid2", "pid3"} :
        /\ p # q => NodeCode(b, p) # NodeCode(b, q)
        /\ NodeCode(NodeCode(b, p), p) = NodeCode(b, p)
        /\ p # q => NodeCode(<<"worker", p, q>>, p) = NodeCode(<<"worker", p, q>>, q)

(* The queues are not served fairly: while chat runs wait, however many     *)
(* come, no compliance run and no parse job begins; then the next one does. *)
LOCAL Queues == [chat : {<<>>, <<"c">>, <<"c", "c">>}, compliance : {<<>>, <<"k">>}, parse : {<<>>, <<"p">>}]

ASSUME ChatComesFirst ==
    \A q \in Queues :
        LET more == [AfterPop(q) EXCEPT !.chat = Append(@, "c")]
        IN  /\ PopsFrom(q) = {} <=> \A n \in DOMAIN q : q[n] = <<>>
            /\ q.chat # <<>> => PopsFrom(q) = {"chat"} /\ more.parse = q.parse /\ PopsFrom(more) = {"chat"}
            /\ q.chat = <<>> /\ q.compliance = <<>> /\ q.parse # <<>> => AfterPop(q).parse = Tail(q.parse)

(* An interrupt ends them all; there is always one process at least.        *)
ASSUME InterruptEndsAll ==
    /\ \A x \in Reached : \A i \in DOMAIN x.ws : ~Interrupted(x.ws)[i].alive
    /\ \A n \in 0..3 : Len(Started(Base, Pids, n)) >= 1 /\ Len(Started(Base, Pids, n)) >= n
=============================================================================
