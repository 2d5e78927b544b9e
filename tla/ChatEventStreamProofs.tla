------------------------ MODULE ChatEventStreamProofs ------------------------
(***************************************************************************)
(* The safety of ChatEventStream for any workers, chunks and faults.       *)
(* An end the client may still be told of is on its way in an event, so the *)
(* invariant (IInv) says of everything published, or about to be, that its  *)
(* end has been committed; and that nothing of an execution is published    *)
(* before the subscription is open (Quiet), from where on it waits there.   *)
(***************************************************************************)
EXTENDS ChatEventStream, TLAPS

(* A terminal status and an announced end have been committed. *)
Held(events) == {events[i] : i \in DOMAIN events}
Committed(events) == \A e \in Held(events) : e \in EndEvents => e.value \in reached
EndsCommitted ==
    /\ status \in Terminal => status \in reached
    /\ Committed(inbox) /\ \A p \in Processes : Committed(out[p])

(* Before the run is pushed no worker has it, and the routes publish nothing *)
(* but its end.                                                             *)
Early == {"create", "subscribe", "enqueue"}
Workless(events) == \A e \in Held(events) : ~IsWork(e)
Quiet ==
    /\ stream \in Early =>
          /\ queue = 0 /\ status \in Terminal \union {"none", "accepted"}
          /\ \A w \in Workers : job[w] = "idle" /\ out[w] = <<>>
          /\ owed = <<>> /\ Workless(inbox)
    /\ \A p \in {"api", "stream"} : /\ job[p] \in {"idle", "unguarded"}
                                    /\ Workless(out[p])

Waits == (~lossy /\ Subscribed) => WorkOf(inbox, owed)

IInv == TypeOK /\ EndsCommitted /\ EndHappened /\ Quiet /\ Waits
-----------------------------------------------------------------------------
(* What the work of a sequence becomes when an event is appended or taken.  *)

LEMMA NoWork ==
    ASSUME NEW held \in Seq(Events), Workless(held)
    PROVE  WorkOf(held, <<>>)
  <1> DEFINE at == [i \in DOMAIN <<>> |-> 1]
  <1>1. DOMAIN <<>> = {}
    OBVIOUS
  <1>2. at \in [DOMAIN <<>> -> DOMAIN held]
    BY <1>1
  <1> HIDE DEF at
  <1>3. \A n \in DOMAIN held : IsWork(held[n]) <=> \E i \in DOMAIN <<>> : at[i] = n
    BY <1>1 DEF Workless, Held
  <1>4. /\ \A i, k \in DOMAIN <<>> : i < k => at[i] < at[k]
        /\ \A i \in DOMAIN <<>> : held[at[i]] = <<>>[i]
    BY <1>1
  <1> QED BY <1>2, <1>3, <1>4 DEF WorkOf

LEMMA WorkOfAppend ==
    ASSUME NEW held \in Seq(Events), NEW work \in Seq(WorkEvents), WorkOf(held, work),
           NEW e \in Events
    PROVE  /\ IsWork(e) => WorkOf(Append(held, e), Append(work, e))
           /\ ~IsWork(e) => WorkOf(Append(held, e), work)
  <1> PICK at \in [DOMAIN work -> DOMAIN held] :
        /\ \A i, k \in DOMAIN work : i < k => at[i] < at[k]
        /\ \A i \in DOMAIN work : held[at[i]] = work[i]
        /\ \A n \in DOMAIN held : IsWork(held[n]) <=> \E i \in DOMAIN work : at[i] = n
    BY DEF WorkOf
  <1> DEFINE h == Append(held, e)  N == Len(held) + 1  M == Len(work) + 1
  <1>1. /\ DOMAIN held = 1..Len(held) /\ DOMAIN work = 1..Len(work)
        /\ Len(held) \in Nat /\ Len(work) \in Nat
    OBVIOUS
  <1>2. /\ DOMAIN h = 1..N /\ h[N] = e
        /\ \A n \in 1..Len(held) : h[n] = held[n]
    BY <1>1
  <1> HIDE DEF h
  <1>3. ASSUME ~IsWork(e) PROVE WorkOf(h, work)
    <2>1. at \in [DOMAIN work -> DOMAIN h]
      BY <1>1, <1>2
    <2>2. \A i \in DOMAIN work : h[at[i]] = work[i]
      BY <1>1, <1>2
    <2>3. \A n \in DOMAIN h : IsWork(h[n]) <=> \E i \in DOMAIN work : at[i] = n
      <3>1. ASSUME NEW n \in 1..Len(held)
            PROVE  IsWork(h[n]) <=> \E i \in DOMAIN work : at[i] = n
        BY <1>1, <1>2
      <3>2. ~IsWork(h[N]) /\ \A i \in DOMAIN work : at[i] # N
        BY <1>1, <1>2, <1>3
      <3>3. \A n \in DOMAIN h : n \in 1..Len(held) \/ n = N
        BY <1>1, <1>2
      <3> QED BY <3>1, <3>2, <3>3
    <2> QED BY <2>1, <2>2, <2>3 DEF WorkOf
  <1>4. ASSUME IsWork(e) PROVE WorkOf(h, Append(work, e))
    <2> DEFINE k == Append(work, e)
               to == [i \in 1..M |-> IF i = M THEN N ELSE at[i]]
    <2>1. /\ DOMAIN k = 1..M /\ k[M] = e /\ \A i \in 1..Len(work) : k[i] = work[i]
      BY <1>1
    <2> HIDE DEF k
    <2>2. /\ to[M] = N /\ \A i \in 1..Len(work) : to[i] = at[i] /\ at[i] \in 1..Len(held)
      <3>1. /\ M \in 1..M /\ \A i \in 1..Len(work) : i \in 1..M /\ i # M
        BY <1>1
      <3>2. \A i \in 1..Len(work) : at[i] \in 1..Len(held)
        BY <1>1
      <3> HIDE DEF M, N
      <3> QED BY <3>1, <3>2
    <2>3. \A i \in 1..M : i = M \/ i \in 1..Len(work)
      BY <1>1
    <2>4. to \in [DOMAIN k -> DOMAIN h]
      BY <1>1, <1>2, <2>1
    <2> HIDE DEF to
    <2>5. \A i, j \in DOMAIN k : i < j => to[i] < to[j]
      BY <1>1, <2>1, <2>2, <2>3
    <2>6. \A i \in DOMAIN k : h[to[i]] = k[i]
      BY <1>1, <1>2, <2>1, <2>2, <2>3
    <2>7. \A n \in DOMAIN h : IsWork(h[n]) <=> \E i \in DOMAIN k : to[i] = n
      <3>1. ASSUME NEW n \in 1..Len(held)
            PROVE  IsWork(h[n]) <=> \E i \in DOMAIN k : to[i] = n
        <4>1. IsWork(h[n]) <=> \E i \in 1..Len(work) : at[i] = n
          BY <1>1, <1>2
        <4>2. n # N
          BY <1>1
        <4>3. 1..Len(work) \subseteq DOMAIN k
          BY <1>1, <2>1
        <4> QED BY <2>1, <2>2, <2>3, <4>1, <4>2, <4>3
      <3>2. IsWork(h[N]) /\ M \in DOMAIN k /\ to[M] = N
        BY <1>1, <1>2, <1>4, <2>1, <2>2
      <3>3. \A n \in DOMAIN h : n \in 1..Len(held) \/ n = N
        BY <1>1, <1>2
      <3> QED BY <3>1, <3>2, <3>3
    <2>8. WorkOf(h, k)
      BY <2>4, <2>5, <2>6, <2>7 DEF WorkOf
    <2> QED BY <2>8 DEF k
  <1> QED BY <1>3, <1>4 DEF h

LEMMA WorkOfTail ==
    ASSUME NEW held \in Seq(Events), NEW work \in Seq(WorkEvents), WorkOf(held, work),
           held # <<>>
    PROVE  /\ IsWork(Head(held)) => work # <<>> /\ WorkOf(Tail(held), Tail(work))
           /\ ~IsWork(Head(held)) => WorkOf(Tail(held), work)
  <1> PICK at \in [DOMAIN work -> DOMAIN held] :
        /\ \A i, k \in DOMAIN work : i < k => at[i] < at[k]
        /\ \A i \in DOMAIN work : held[at[i]] = work[i]
        /\ \A n \in DOMAIN held : IsWork(held[n]) <=> \E i \in DOMAIN work : at[i] = n
    BY DEF WorkOf
  <1> DEFINE h == Tail(held)  N == Len(held)  M == Len(work)
  <1>1. /\ DOMAIN held = 1..N /\ DOMAIN work = 1..M
        /\ N \in Nat \ {0} /\ M \in Nat /\ Head(held) = held[1]
    OBVIOUS
  <1>2. /\ DOMAIN h = 1..(N - 1)
        /\ \A n \in 1..(N - 1) : h[n] = held[n + 1] /\ n + 1 \in 1..N
    BY <1>1
  <1> HIDE DEF h
  <1>3. ASSUME ~IsWork(Head(held)) PROVE WorkOf(h, work)
    <2> DEFINE to == [i \in 1..M |-> at[i] - 1]
    <2>1. \A i \in 1..M : at[i] # 1 /\ at[i] \in 1..N
      BY <1>1, <1>3
    <2>2. \A i \in 1..M : to[i] = at[i] - 1 /\ at[i] - 1 \in 1..(N - 1)
      BY <1>1, <2>1
    <2>3. to \in [DOMAIN work -> DOMAIN h]
      BY <1>1, <1>2, <2>2
    <2> HIDE DEF to
    <2>4. \A i, j \in DOMAIN work : i < j => to[i] < to[j]
      BY <1>1, <2>1, <2>2
    <2>5. \A i \in DOMAIN work : h[to[i]] = work[i]
      BY <1>1, <1>2, <2>1, <2>2
    <2>6. \A n \in DOMAIN h : IsWork(h[n]) <=> \E i \in DOMAIN work : to[i] = n
      <3> TAKE n \in DOMAIN h
      <3>1. IsWork(h[n]) <=> \E i \in 1..M : at[i] = n + 1
        BY <1>1, <1>2
      <3>2. \A i \in 1..M : at[i] = n + 1 <=> to[i] = n
        BY <1>1, <1>2, <2>1, <2>2
      <3> QED BY <1>1, <3>1, <3>2
    <2> QED BY <2>3, <2>4, <2>5, <2>6 DEF WorkOf
  <1>4. ASSUME IsWork(Head(held)) PROVE work # <<>> /\ WorkOf(h, Tail(work))
    <2> DEFINE k == Tail(work)  to == [i \in 1..(M - 1) |-> at[i + 1] - 1]
    <2>1. PICK i \in 1..M : at[i] = 1
      BY <1>1, <1>4
    <2>2. 1 \in 1..M /\ M \in Nat \ {0} /\ work # <<>>
      BY <1>1, <2>1
    <2>3. at[1] = 1
      <3>1. CASE i = 1
        BY <2>1, <3>1
      <3>2. CASE 1 < i
        <4>1. at[1] < at[i] /\ at[1] \in 1..N
          BY <1>1, <2>2, <3>2
        <4> QED BY <1>1, <2>1, <4>1
      <3> QED BY <2>1, <3>1, <3>2
    <2>4. \A j \in 1..M : j # 1 => at[j] \in 1..N /\ 1 < at[j]
      <3> TAKE j \in 1..M
      <3> HAVE j # 1
      <3>1. 1 < j /\ j \in DOMAIN work /\ 1 \in DOMAIN work
        BY <1>1, <2>2
      <3>2. at[1] < at[j]
        BY <3>1
      <3> QED BY <1>1, <2>3, <3>1, <3>2
    <2>5. /\ DOMAIN k = 1..(M - 1)
          /\ \A j \in 1..(M - 1) : k[j] = work[j + 1] /\ j + 1 \in 1..M /\ j + 1 # 1
      BY <1>1, <2>2
    <2> HIDE DEF k
    <2>6. \A j \in 1..(M - 1) : /\ to[j] = at[j + 1] - 1 /\ at[j + 1] - 1 \in 1..(N - 1)
                                /\ at[j + 1] \in 1..N /\ to[j] + 1 = at[j + 1]
      <3> TAKE j \in 1..(M - 1)
      <3>1. j + 1 \in 1..M /\ at[j + 1] \in 1..N /\ 1 < at[j + 1]
        BY <2>4, <2>5
      <3> QED BY <1>1, <3>1
    <2>7. to \in [DOMAIN k -> DOMAIN h]
      BY <1>2, <2>5, <2>6
    <2> HIDE DEF to
    <2>8. \A a, b \in DOMAIN k : a < b => to[a] < to[b]
      <3> TAKE a, b \in DOMAIN k
      <3> HAVE a < b
      <3>1. /\ a + 1 \in DOMAIN work /\ b + 1 \in DOMAIN work /\ a + 1 < b + 1
        BY <1>1, <2>5
      <3>2. at[a + 1] < at[b + 1]
        BY <3>1
      <3>3. /\ to[a] = at[a + 1] - 1 /\ at[a + 1] \in 1..N
            /\ to[b] = at[b + 1] - 1 /\ at[b + 1] \in 1..N
        BY <2>5, <2>6
      <3> HIDE DEF N
      <3>4. at[a + 1] \in Nat /\ at[b + 1] \in Nat
        BY <1>1, <3>3
      <3> QED BY <3>2, <3>3, <3>4
    <2>9. \A j \in DOMAIN k : h[to[j]] = k[j]
      <3> TAKE j \in DOMAIN k
      <3>1. to[j] \in 1..(N - 1) /\ h[to[j]] = held[at[j + 1]]
        BY <1>2, <2>5, <2>6
      <3>2. held[at[j + 1]] = work[j + 1]
        BY <1>1, <2>5
      <3> QED BY <2>5, <3>1, <3>2
    <2>10. \A n \in DOMAIN h : IsWork(h[n]) <=> \E j \in DOMAIN k : to[j] = n
      <3> TAKE n \in DOMAIN h
      <3>1. IsWork(h[n]) <=> \E j \in 1..M : at[j] = n + 1
        BY <1>1, <1>2
      <3>2. \A j \in 1..M : at[j] = n + 1 => j # 1 /\ j - 1 \in 1..(M - 1) /\ j - 1 + 1 = j
        BY <1>1, <1>2, <2>2, <2>3
      <3>3. \A j \in 1..(M - 1) : to[j] = n <=> at[j + 1] = n + 1
        BY <1>2, <2>6
      <3>4. (\E j \in 1..M : at[j] = n + 1) <=> \E j \in 1..(M - 1) : at[j + 1] = n + 1
        BY <2>5, <3>2
      <3> QED BY <2>5, <3>1, <3>3, <3>4
    <2>11. WorkOf(h, k)
      BY <2>7, <2>8, <2>9, <2>10 DEF WorkOf
    <2> QED BY <2>2, <2>11 DEF k
  <1> QED BY <1>3, <1>4 DEF h
-----------------------------------------------------------------------------
(* What sequences of events hold. *)

LEMMA HeldBy ==
    ASSUME NEW s \in Seq(Events)
    PROVE  /\ Held(<<>>) = {} /\ Held(s) \subseteq Events
           /\ \A e \in Events : Held(Append(s, e)) = Held(s) \union {e}
           /\ s # <<>> => /\ Head(s) \in Held(s) /\ Held(Tail(s)) \subseteq Held(s)
                          /\ Tail(s) \in Seq(Events)
  <1>1. Held(<<>>) = {}
    BY DEF Held
  <1>2. Held(s) \subseteq Events
    BY DEF Held
  <1>3. ASSUME NEW e \in Events PROVE Held(Append(s, e)) = Held(s) \union {e}
    <2>1. /\ DOMAIN Append(s, e) = 1..(Len(s) + 1) /\ DOMAIN s = 1..Len(s)
          /\ Append(s, e)[Len(s) + 1] = e /\ Len(s) \in Nat
          /\ \A i \in 1..Len(s) : Append(s, e)[i] = s[i]
      OBVIOUS
    <2>2. \A i \in 1..(Len(s) + 1) : i \in 1..Len(s) \/ i = Len(s) + 1
      BY <2>1
    <2>3. 1..Len(s) \subseteq 1..(Len(s) + 1) /\ Len(s) + 1 \in 1..(Len(s) + 1)
      BY <2>1
    <2> QED BY <2>1, <2>2, <2>3 DEF Held
  <1>4. ASSUME s # <<>>
        PROVE  /\ Head(s) \in Held(s) /\ Held(Tail(s)) \subseteq Held(s)
               /\ Tail(s) \in Seq(Events)
    <2>1. /\ Head(s) = s[1] /\ 1 \in DOMAIN s /\ Tail(s) \in Seq(Events)
      BY <1>4
    <2>2. \A i \in DOMAIN Tail(s) : i + 1 \in DOMAIN s /\ Tail(s)[i] = s[i + 1]
      BY <1>4
    <2> QED BY <2>1, <2>2 DEF Held
  <1> QED BY <1>1, <1>2, <1>3, <1>4

(* The kinds of events are told apart by their names. *)
LEMMA KindsOfEvents ==
    /\ \A v : ~IsWork(Status(v)) /\ (Status(v) \in EndEvents => v = "cancelled")
    /\ ~IsWork(Done) /\ ~IsWork(Failed) /\ ~IsWork(Closed)
    /\ Closed \notin EndEvents
    /\ \A e \in EndEvents : ~IsWork(e) /\ e.value \in Terminal
    /\ Done \in Events /\ Failed \in Events /\ Closed \in Events
    /\ \A t \in Terminal : Status(t) \in Events
    /\ \A e \in WorkEvents : e \notin EndEvents /\ e # Closed /\ e \in Events
  <1>1. /\ \A v : Status(v).event = "status" /\ Status(v).value = v
        /\ Done.event = "run_completed" /\ Done.value = "completed"
        /\ Failed.event = "error" /\ Failed.value = "failed"
        /\ Closed.event = "closed"
    BY DEF Status, Done, Failed, Closed
  <1>2. \A e \in WorkEvents : e.event = "work"
    BY DEF WorkEvents, Work
  <1>3. "cancelled" \in Terminal /\ "completed" \in Terminal /\ "failed" \in Terminal
    BY DEF Terminal
  <1>4. /\ \A v : ~IsWork(Status(v))
        /\ ~IsWork(Done) /\ ~IsWork(Failed) /\ ~IsWork(Closed)
    BY <1>1, <1>2 DEF IsWork
  <1>5. \A v : Status(v) \in EndEvents => v = "cancelled"
    BY <1>1 DEF EndEvents
  <1>6. Closed \notin EndEvents
    BY <1>1 DEF EndEvents
  <1>7. \A e \in EndEvents : ~IsWork(e) /\ e.value \in Terminal
    BY <1>1, <1>3, <1>4 DEF EndEvents
  <1>8. \A e \in WorkEvents : e \notin EndEvents /\ e # Closed /\ e \in Events
    BY <1>4 DEF IsWork, EndEvents, Events
  <1>9. /\ Done \in Events /\ Failed \in Events /\ Closed \in Events
        /\ \A t \in Terminal : Status(t) \in Events
    BY DEF Events, EndEvents
  <1> QED BY <1>4, <1>5, <1>6, <1>7, <1>8, <1>9

(* What _finalize_run publishes names the status it has committed. *)
LEMMA TerminalEventsAre ==
    ASSUME NEW t \in Terminal
    PROVE  /\ TerminalEvents(t) \in Seq(Events) /\ Workless(TerminalEvents(t))
           /\ \A e \in Held(TerminalEvents(t)) : e \in EndEvents => e.value = t
  <1> DEFINE S == {e \in Events : ~IsWork(e) /\ (e \in EndEvents => e.value = t)}
             ends == CASE t = "completed" -> <<Done>> [] t = "failed" -> <<Failed>>
                       [] OTHER -> <<>>
             closed == IF backend = "local" THEN <<Closed>> ELSE <<>>
  <1>1. Status(t) \in S
    BY KindsOfEvents DEF Status
  <1>2. t = "completed" => Done \in S
    BY KindsOfEvents DEF Done
  <1>3. t = "failed" => Failed \in S
    BY KindsOfEvents DEF Failed
  <1>4. Closed \in S
    BY KindsOfEvents
  <1> HIDE DEF S
  <1>5. ends \in Seq(S)
    <2>1. CASE t = "completed"
      BY <1>2, <2>1
    <2>2. CASE t = "failed"
      BY <1>3, <2>2
    <2>3. CASE t = "cancelled"
      BY <2>3
    <2> QED BY <2>1, <2>2, <2>3 DEF Terminal
  <1>6. closed \in Seq(S)
    BY <1>4
  <1> HIDE DEF ends, closed
  <1>7. <<Status(t)>> \o ends \o closed \in Seq(S)
    BY <1>1, <1>5, <1>6
  <1>8. TerminalEvents(t) \in Seq(S)
    BY <1>7 DEF TerminalEvents, ends, closed
  <1>9. /\ S \subseteq Events
        /\ \A e \in S : ~IsWork(e) /\ (e \in EndEvents => e.value = t)
    BY DEF S
  <1>10. Held(TerminalEvents(t)) \subseteq S
    BY <1>8 DEF Held
  <1>11. TerminalEvents(t) \in Seq(Events)
    BY <1>8, <1>9
  <1> QED BY <1>9, <1>10, <1>11 DEF Workless

LEMMA ChunksAre ==
    /\ [i \in DOMAIN Chunks |-> Work(Chunks[i])] \in Seq(Events)
    /\ Held([i \in DOMAIN Chunks |-> Work(Chunks[i])]) \subseteq WorkEvents
  <1>1. /\ DOMAIN Chunks = 1..Len(Chunks) /\ Len(Chunks) \in Nat
    BY ChunksAssumption
  <1>2. \A i \in DOMAIN Chunks : Work(Chunks[i]) \in WorkEvents
    BY DEF WorkEvents
  <1>3. [i \in DOMAIN Chunks |-> Work(Chunks[i])] \in Seq(WorkEvents)
    BY <1>1, <1>2
  <1>4. WorkEvents \subseteq Events
    BY DEF Events
  <1> QED BY <1>2, <1>3, <1>4 DEF Held
-----------------------------------------------------------------------------
(* What the publishers do. *)

Labels == {"idle", "retrieve", "answer", "guarded", "unguarded"}
Stages == Streaming \union {"create", "subscribe", "enqueue", "leave", "closed"}

LEMMA FinalizeEffect ==
    ASSUME TypeOK, NEW p \in Processes, NEW t \in Terminal,
           NEW ends \in {"guarded", "unguarded"}, Finalize(p, t, ends)
    PROVE  /\ status' = t /\ reached' = reached \union {t} /\ reached' \subseteq Terminal
           /\ out' \in [Processes -> Seq(Events)] /\ job' \in [Processes -> Labels]
           /\ out'[p] = TerminalEvents(t) /\ job'[p] = ends
           /\ \A q \in Processes : q # p => out'[q] = out[q] /\ job'[q] = job[q]
  BY TerminalEventsAre DEF Finalize, TypeOK, Labels

LEMMA ReasonIsTerminal == \A reason : CancelStatus(reason) \in Terminal
  BY DEF CancelStatus, Terminal

LEMMA AdvanceEffect ==
    ASSUME TypeOK, NEW p \in Processes, out[p] # <<>>, Advance(p)
    PROVE  /\ out' \in [Processes -> Seq(Events)] /\ job' \in [Processes -> Labels]
           /\ out'[p] = Tail(out[p]) /\ job'[p] \in {job[p], "idle"}
           /\ \A q \in Processes : q # p => out'[q] = out[q] /\ job'[q] = job[q]
  <1>1. out \in [Processes -> Seq(Events)] /\ job \in [Processes -> Labels]
    BY DEF TypeOK, Labels
  <1>2. Tail(out[p]) \in Seq(Events) /\ out' = [out EXCEPT ![p] = Tail(out[p])]
    BY <1>1 DEF Advance
  <1>3. job' = [job EXCEPT ![p] = "idle"] \/ job' = job
    BY DEF Advance
  <1>4. "idle" \in Labels
    BY DEF Labels
  <1> QED BY <1>1, <1>2, <1>3, <1>4

(* request_run_cancel: nothing, an end, or a wish. *)
LEMMA CancelEffect ==
    ASSUME TypeOK, NEW p \in Processes, NEW reason \in {"user", "aborted"},
           RequestRunCancel(p, reason)
    PROVE  /\ cancel' \in {"no", "user", "aborted"}
           /\ \/ UNCHANGED <<status, reached, out, job>>
              \/ \E t \in Terminal : Finalize(p, t, "unguarded")
  BY ReasonIsTerminal DEF RequestRunCancel, TypeOK

LEMMA ClosesStream ==
    ASSUME NEW t, CloseStream(t)
    PROVE  stream' = "closed" /\ told' = t /\ inbox' = <<>> /\ owed' = <<>>
  BY DEF CloseStream

LEMMA FaultTyped == ASSUME TypeOK, Fault PROVE faults' \in 0..MaxFaults
  BY FaultsAssumption DEF Fault, TypeOK
-----------------------------------------------------------------------------
(* Types. *)

LEMMA StreamTyped ==
    ASSUME TypeOK,
           \/ StreamStep \/ MarkQueuedFails \/ ConnectionBreaks \/ ClientLeaves
           \/ ResponseCancelled
    PROVE  TypeOK'
  <1> USE DEF rowVars, workVars, channelVars, clientVars, faultVars
  <1>0. /\ <<>> \in Seq(Events) /\ <<>> \in Seq(WorkEvents)
        /\ inbox \in Seq(Events) /\ owed \in Seq(WorkEvents)
    BY DEF TypeOK
  <1>1. ASSUME Create \/ Subscribe \/ MarkQueued \/ Check \/ Timeout \/ ClientLeaves
        PROVE  TypeOK'
    <2>1. CASE Create
      BY <1>0, <2>1 DEF TypeOK, Create
    <2>2. CASE Subscribe
      BY <1>0, <2>2 DEF TypeOK, Subscribe
    <2>3. CASE MarkQueued
      <3>1. /\ queue' \in Nat /\ stream' = "check" /\ status' \in {status, "queued"}
            /\ UNCHANGED <<backend, cancel, reached, workVars, channelVars, told, gone, faultVars>>
        BY <2>3 DEF TypeOK, MarkQueued
      <3> QED BY <1>0, <3>1 DEF TypeOK, Streaming
    <2>4. CASE Check
      BY <1>0, <2>4 DEF TypeOK, Check, Streaming
    <2>5. CASE Timeout
      BY <1>0, <2>5 DEF TypeOK, Timeout, Streaming
    <2>6. CASE ClientLeaves
      BY <1>0, <2>6 DEF TypeOK, ClientLeaves
    <2> QED BY <1>1, <2>1, <2>2, <2>3, <2>4, <2>5, <2>6
  <1>2. ASSUME CheckGone PROVE TypeOK'
    <2>1. "stream" \in Processes /\ RequestRunCancel("stream", "aborted")
      BY <1>2 DEF Processes, CheckGone
    <2>2. /\ cancel' \in {"no", "user", "aborted"}
          /\ \/ UNCHANGED <<status, reached, out, job>>
             \/ \E t \in Terminal : Finalize("stream", t, "unguarded")
      BY <2>1, CancelEffect
    <2>3. /\ status' \in Terminal \union {"none", "accepted", "queued", "active"}
          /\ reached' \subseteq Terminal /\ out' \in [Processes -> Seq(Events)]
          /\ job' \in [Processes -> Labels]
      <3>1. CASE UNCHANGED <<status, reached, out, job>>
        BY <3>1 DEF TypeOK, Labels
      <3>2. ASSUME NEW t \in Terminal, Finalize("stream", t, "unguarded")
            PROVE  /\ status' \in Terminal \union {"none", "accepted", "queued", "active"}
                   /\ reached' \subseteq Terminal /\ out' \in [Processes -> Seq(Events)]
                   /\ job' \in [Processes -> Labels]
        BY <2>1, <3>2, FinalizeEffect
      <3> QED BY <2>2, <3>1, <3>2
    <2> QED BY <1>2, <2>2, <2>3 DEF CheckGone, TypeOK, Labels
  <1>3. ASSUME NEW t \in Terminal \union {"none", "broken"}, CloseStream(t),
               status' \in Terminal \union {"none", "accepted", "queued", "active"},
               lossy' \in BOOLEAN, faults' \in 0..MaxFaults, gone' \in BOOLEAN,
               UNCHANGED <<backend, cancel, reached, queue, workVars>>
        PROVE  TypeOK'
    <2>1. stream' = "closed" /\ told' = t /\ inbox' = <<>> /\ owed' = <<>>
      BY <1>3 DEF CloseStream
    <2>2. inbox' \in Seq(Events) /\ owed' \in Seq(WorkEvents)
      BY <1>0, <2>1
    <2> QED BY <1>3, <2>1, <2>2 DEF TypeOK
  <1>4. /\ told \in Terminal \union {"none", "broken"} /\ lossy \in BOOLEAN
        /\ faults \in 0..MaxFaults /\ gone \in BOOLEAN
        /\ status \in Terminal \union {"none", "accepted", "queued", "active"}
    BY DEF TypeOK
  <1>5. ASSUME LeaveLoop \/ Stopped \/ ResponseCancelled PROVE TypeOK'
    <2>1. CloseStream(told) \/ (status \in Terminal /\ CloseStream(status))
      BY <1>5 DEF LeaveLoop, Stopped, ResponseCancelled
    <2>2. /\ UNCHANGED <<rowVars, workVars, gone, faultVars>>
      BY <1>5 DEF LeaveLoop, Stopped, ResponseCancelled
    <2> QED BY <1>3, <1>4, <2>1, <2>2
  <1>6. ASSUME Poll PROVE TypeOK'
    <2>1. CASE status \in Terminal /\ CloseStream(status)
      BY <1>3, <1>4, <1>6, <2>1 DEF Poll
    <2>2. CASE stream' = "check" /\ UNCHANGED <<told, channelVars>>
      BY <1>6, <2>2 DEF Poll, TypeOK, Streaming
    <2> QED BY <1>6, <2>1, <2>2 DEF Poll
  <1>7. ASSUME MarkQueuedFails PROVE TypeOK'
    <2>1. /\ CloseStream("broken") /\ faults' \in 0..MaxFaults
          /\ status' \in {status, "queued"}
          /\ UNCHANGED <<backend, cancel, reached, queue, workVars, gone, lossy>>
      BY <1>7, FaultTyped DEF MarkQueuedFails
    <2> QED BY <1>3, <1>4, <2>1
  <1>8. ASSUME ConnectionBreaks PROVE TypeOK'
    <2>1. faults' \in 0..MaxFaults /\ lossy' = TRUE /\ UNCHANGED <<rowVars, workVars, gone>>
      BY <1>8, FaultTyped DEF ConnectionBreaks
    <2>2. CASE CloseStream("broken")
      BY <1>3, <1>4, <2>1, <2>2
    <2>3. CASE inbox' = <<>> /\ owed' = <<>> /\ UNCHANGED <<stream, told>>
      BY <1>0, <2>1, <2>3 DEF TypeOK
    <2> QED BY <1>8, <2>2, <2>3 DEF ConnectionBreaks
  <1>9. ASSUME NextEvent PROVE TypeOK'
    <2>1. /\ inbox # <<>> /\ Head(inbox) \in Events /\ Tail(inbox) \in Seq(Events)
          /\ UNCHANGED <<rowVars, workVars, gone, faultVars>>
      BY <1>0, <1>9 DEF NextEvent
    <2>2. CASE Head(inbox) \in EndEvents /\ CloseStream(Head(inbox).value)
      BY <1>3, <1>4, <2>1, <2>2, KindsOfEvents
    <2>3. CASE stream' = "stopped" /\ inbox' = Tail(inbox) /\ UNCHANGED <<owed, told>>
      BY <2>1, <2>3 DEF TypeOK, Streaming
    <2>4. CASE /\ stream' = "check" /\ inbox' = Tail(inbox) /\ told' = told
               /\ owed' = IF IsWork(Head(inbox)) /\ owed # <<>> THEN Tail(owed) ELSE owed
      <3>1. owed' \in Seq(WorkEvents)
        BY <1>0, <2>4
      <3> QED BY <2>1, <2>4, <3>1 DEF TypeOK, Streaming
    <2> QED BY <1>9, <2>2, <2>3, <2>4 DEF NextEvent
  <1> QED BY <1>1, <1>2, <1>5, <1>6, <1>7, <1>8, <1>9 DEF StreamStep

LEMMA RunTyped ==
    ASSUME TypeOK,
           \/ ApiCancel
           \/ \E w \in Workers : \/ Claim(w) \/ Answer(w) \/ Complete(w) \/ Abort(w)
                                 \/ Crash(w) \/ Recover(w)
    PROVE  TypeOK'
  <1> USE DEF rowVars, workVars, channelVars, clientVars, faultVars
  <1>0. Workers \subseteq Processes /\ "api" \in Processes
    BY DEF Processes
  <1>1. ASSUME /\ UNCHANGED <<backend, channelVars, clientVars, lossy>>
               /\ status' \in Terminal \union {"none", "accepted", "queued", "active"}
               /\ cancel' \in {"no", "user", "aborted"} /\ reached' \subseteq Terminal
               /\ queue' \in Nat /\ job' \in [Processes -> Labels]
               /\ out' \in [Processes -> Seq(Events)] /\ faults' \in 0..MaxFaults
        PROVE  TypeOK'
    BY <1>1 DEF TypeOK, Labels
  <1>2. /\ status \in Terminal \union {"none", "accepted", "queued", "active"}
        /\ cancel \in {"no", "user", "aborted"} /\ reached \subseteq Terminal
        /\ queue \in Nat /\ job \in [Processes -> Labels]
        /\ out \in [Processes -> Seq(Events)] /\ faults \in 0..MaxFaults
    BY DEF TypeOK, Labels
  <1>3. CASE ApiCancel
    <2>1. /\ RequestRunCancel("api", "user")
          /\ UNCHANGED <<backend, queue, channelVars, clientVars, faultVars>>
      BY <1>3 DEF ApiCancel
    <2>2. /\ cancel' \in {"no", "user", "aborted"}
          /\ \/ UNCHANGED <<status, reached, out, job>>
             \/ \E t \in Terminal : Finalize("api", t, "unguarded")
      BY <1>0, <2>1, CancelEffect
    <2>3. CASE UNCHANGED <<status, reached, out, job>>
      BY <1>1, <1>2, <2>1, <2>2, <2>3
    <2>4. ASSUME NEW t \in Terminal, Finalize("api", t, "unguarded") PROVE TypeOK'
      BY <1>0, <1>1, <1>2, <2>1, <2>2, <2>4, FinalizeEffect
    <2> QED BY <2>2, <2>3, <2>4
  <1>4. ASSUME NEW w \in Workers, NEW t \in Terminal, NEW ends \in {"guarded", "unguarded"},
               Finalize(w, t, ends), queue' \in Nat,
               UNCHANGED <<backend, cancel, channelVars, clientVars, faultVars>>
        PROVE  TypeOK'
    BY <1>0, <1>1, <1>2, <1>4, FinalizeEffect
  <1>5. ASSUME NEW w \in Workers, Claim(w) PROVE TypeOK'
    <2>1. /\ queue' \in Nat /\ UNCHANGED <<backend, cancel, channelVars, clientVars, faultVars>>
      BY <1>2, <1>5 DEF Claim
    <2>2. CASE UNCHANGED <<status, reached, job, out>>
      BY <1>1, <1>2, <2>1, <2>2
    <2>3. CASE Finalize(w, CancelStatus(cancel), "guarded")
      BY <1>4, <2>1, <2>3, ReasonIsTerminal
    <2>4. CASE /\ status' = "active" /\ job' = [job EXCEPT ![w] = "retrieve"]
               /\ UNCHANGED <<reached, out>>
      <3>1. job' \in [Processes -> Labels]
        BY <1>2, <2>4 DEF Labels
      <3> QED BY <1>1, <1>2, <2>1, <2>4, <3>1
    <2> QED BY <1>5, <2>2, <2>3, <2>4 DEF Claim
  <1>6. ASSUME NEW w \in Workers, Answer(w) PROVE TypeOK'
    <2>1. job' \in [Processes -> Labels] /\ out' \in [Processes -> Seq(Events)]
      BY <1>2, <1>6, ChunksAre DEF Answer, Labels
    <2> QED BY <1>1, <1>2, <1>6, <2>1 DEF Answer
  <1>7. ASSUME NEW w \in Workers, Complete(w) PROVE TypeOK'
    BY <1>2, <1>4, <1>7 DEF Complete, Terminal
  <1>8. ASSUME NEW w \in Workers, Abort(w) PROVE TypeOK'
    <2>1. \E t \in Terminal : Finalize(w, t, "unguarded")
      BY <1>8, ReasonIsTerminal DEF Abort, Terminal
    <2> QED BY <1>2, <1>4, <1>8, <2>1 DEF Abort
  <1>9. ASSUME NEW w \in Workers, Crash(w) PROVE TypeOK'
    <2>1. job' \in [Processes -> Labels]
      BY <1>2, <1>9 DEF Crash, Labels
    <2>2. out' \in [Processes -> Seq(Events)]
      <3>1. <<>> \in Seq(Events) /\ out' = [out EXCEPT ![w] = <<>>]
        BY <1>9 DEF Crash
      <3> QED BY <1>2, <3>1
    <2> QED BY <1>1, <1>2, <1>9, <2>1, <2>2, FaultTyped DEF Crash
  <1>10. ASSUME NEW w \in Workers, Recover(w) PROVE TypeOK'
    <2>1. faults' \in 0..MaxFaults /\ queue' \in Nat
      BY <1>2, <1>10, FaultTyped DEF Recover
    <2> QED BY <1>1, <1>2, <1>10, <2>1 DEF Recover
  <1> QED BY <1>3, <1>5, <1>6, <1>7, <1>8, <1>9, <1>10

LEMMA PublishTyped ==
    ASSUME TypeOK, NEW p \in Processes, Publish(p) \/ PublishTwice(p) \/ PublishFails(p)
    PROVE  TypeOK'
  <1> USE DEF rowVars, workVars, channelVars, clientVars, faultVars
  <1>1. /\ out \in [Processes -> Seq(Events)] /\ out[p] \in Seq(Events) /\ out[p] # <<>>
        /\ Head(out[p]) \in Events /\ inbox \in Seq(Events) /\ owed \in Seq(WorkEvents)
        /\ job \in [Processes -> Labels]
    BY DEF TypeOK, Labels, Publish, PublishTwice, PublishFails
  <1>2. Deliver(Head(out[p])) \in Seq(Events)
    BY <1>1 DEF Deliver
  <1>3. CASE Publish(p)
    <2>1. owed' \in Seq(WorkEvents)
      BY <1>1, <1>3 DEF Publish, IsWork
    <2> QED BY <1>1, <1>2, <1>3, <2>1, AdvanceEffect DEF Publish, TypeOK, Labels
  <1>4. CASE PublishTwice(p)
    <2>1. inbox' \in Seq(Events) /\ owed' \in Seq(WorkEvents) /\ faults' \in 0..MaxFaults
      <3>1. <<Head(out[p]), Head(out[p])>> \in Seq(Events)
        BY <1>1
      <3>2. inbox \o <<Head(out[p]), Head(out[p])>> \in Seq(Events)
        BY <1>1, <3>1
      <3> QED BY <1>1, <1>4, <3>2, FaultTyped DEF PublishTwice
    <2> QED BY <1>1, <1>4, <2>1, AdvanceEffect DEF PublishTwice, TypeOK, Labels
  <1>5. CASE PublishFails(p)
    <2>1. inbox' \in Seq(Events) /\ owed' \in Seq(WorkEvents) /\ faults' \in 0..MaxFaults
      BY <1>1, <1>2, <1>5, FaultTyped DEF PublishFails
    <2>2. /\ status' \in Terminal \union {"none", "accepted", "queued", "active"}
          /\ reached' \subseteq Terminal /\ out' \in [Processes -> Seq(Events)]
          /\ job' \in [Processes -> Labels]
      <3>1. CASE Finalize(p, "failed", "unguarded")
        BY <3>1, FinalizeEffect DEF Terminal
      <3>2. CASE /\ out' = [out EXCEPT ![p] = <<>>] /\ job' = [job EXCEPT ![p] = "idle"]
                 /\ UNCHANGED <<status, reached>>
        BY <1>1, <3>2 DEF TypeOK, Labels
      <3> QED BY <1>5, <3>1, <3>2 DEF PublishFails
    <2> QED BY <1>5, <2>1, <2>2 DEF PublishFails, TypeOK, Labels
  <1> QED BY <1>3, <1>4, <1>5

LEMMA TypedStep == TypeOK /\ [Next]_vars => TypeOK'
  <1> SUFFICES ASSUME TypeOK, [Next]_vars PROVE TypeOK'
    OBVIOUS
  <1>1. CASE UNCHANGED vars
    BY <1>1 DEF TypeOK, vars, rowVars, workVars, channelVars, clientVars, faultVars
  <1> QED BY <1>1, StreamTyped, RunTyped, PublishTyped DEF Next
-----------------------------------------------------------------------------
(* What is told, and what is going to be told, has been committed. *)

LEMMA EndsKept ==
    ASSUME TypeOK, EndsCommitted, EndHappened, reached \subseteq reached',
           status' \in Terminal => status' \in reached',
           \A e \in Held(inbox') : \/ e \in Held(inbox)
                                   \/ \E p \in Processes : e \in Held(out[p]),
           \A p \in Processes : \A e \in Held(out'[p]) :
                \/ e \in Held(out[p])
                \/ e \in EndEvents => e.value \in reached',
           told' \in Terminal => told' = told \/ told' \in reached'
    PROVE  EndsCommitted' /\ EndHappened'
  <1>1. Committed(inbox)'
    BY DEF EndsCommitted, Committed
  <1>2. \A p \in Processes : Committed(out[p])'
    BY DEF EndsCommitted, Committed
  <1>3. EndHappened'
    BY DEF EndHappened
  <1> QED BY <1>1, <1>2, <1>3 DEF EndsCommitted

LEMMA FinalizeEnds ==
    ASSUME TypeOK, EndsCommitted, EndHappened,
           NEW p \in Processes, NEW t \in Terminal, NEW ends \in {"guarded", "unguarded"},
           Finalize(p, t, ends), told' = told,
           \A e \in Held(inbox') : e \in Held(inbox) \union Held(out[p])
    PROVE  EndsCommitted' /\ EndHappened'
  <1>1. /\ status' = t /\ reached' = reached \union {t} /\ out'[p] = TerminalEvents(t)
        /\ \A q \in Processes : q # p => out'[q] = out[q]
    BY FinalizeEffect
  <1>2. \A e \in Held(TerminalEvents(t)) : e \in EndEvents => e.value = t
    BY TerminalEventsAre
  <1>3. \A q \in Processes : \A e \in Held(out'[q]) :
           e \in Held(out[q]) \/ (e \in EndEvents => e.value \in reached')
    BY <1>1, <1>2
  <1>4. /\ reached \subseteq reached' /\ status' \in reached'
        /\ \A e \in Held(inbox') : \/ e \in Held(inbox)
                                   \/ \E q \in Processes : e \in Held(out[q])
    BY <1>1
  <1> QED BY <1>3, <1>4, EndsKept

LEMMA StreamEndsKept ==
    ASSUME TypeOK, EndsCommitted, EndHappened,
           \/ StreamStep \/ MarkQueuedFails \/ ConnectionBreaks \/ ClientLeaves
           \/ ResponseCancelled
    PROVE  EndsCommitted' /\ EndHappened'
  <1> USE DEF rowVars, workVars, channelVars, clientVars, faultVars
  <1>1. ASSUME UNCHANGED <<reached, workVars>>, status' \in Terminal => status' = status,
               \A e \in Held(inbox') : e \in Held(inbox),
               told' \in Terminal => told' = told \/ told' \in reached
        PROVE  EndsCommitted' /\ EndHappened'
    <2>1. status' \in Terminal => status' \in reached'
      BY <1>1 DEF EndsCommitted
    <2> QED BY <1>1, <2>1, EndsKept
  <1>2. Held(<<>>) = {} /\ (status \in Terminal => status \in reached)
    BY DEF Held, EndsCommitted
  <1>3. \A s \in {"accepted", "queued"} : s \notin Terminal
    BY DEF Terminal
  <1>4. CASE Create
    BY <1>1, <1>3, <1>4 DEF Create
  <1>5. CASE Subscribe
    BY <1>1, <1>2, <1>5 DEF Subscribe
  <1>6. CASE MarkQueued
    BY <1>1, <1>3, <1>6 DEF MarkQueued
  <1>7. CASE Check \/ Timeout \/ ClientLeaves
    BY <1>1, <1>7 DEF Check, Timeout, ClientLeaves
  <1>8. CASE CheckGone
    <2>1. /\ RequestRunCancel("stream", "aborted") /\ told' = told /\ inbox' = inbox
          /\ "stream" \in Processes
      BY <1>8 DEF CheckGone, Processes
    <2>2. \/ UNCHANGED <<status, reached, out, job>>
          \/ \E t \in Terminal : Finalize("stream", t, "unguarded")
      BY <2>1, CancelEffect
    <2>3. CASE UNCHANGED <<status, reached, out, job>>
      BY <1>1, <2>1, <2>3
    <2>4. ASSUME NEW t \in Terminal, Finalize("stream", t, "unguarded")
          PROVE  EndsCommitted' /\ EndHappened'
      BY <2>1, <2>4, FinalizeEnds
    <2> QED BY <2>2, <2>3, <2>4
  <1>9. ASSUME NEW t, CloseStream(t), t \in Terminal => t = told \/ t \in reached,
               UNCHANGED <<reached, workVars>>, status' \in Terminal => status' = status
        PROVE  EndsCommitted' /\ EndHappened'
    BY <1>1, <1>2, <1>9, ClosesStream
  <1>10. CASE LeaveLoop \/ ResponseCancelled
    BY <1>9, <1>10 DEF LeaveLoop, ResponseCancelled
  <1>11. CASE Stopped
    BY <1>2, <1>9, <1>11 DEF Stopped
  <1>12. CASE Poll
    <2>1. CASE status \in Terminal /\ CloseStream(status)
      BY <1>2, <1>9, <1>12, <2>1 DEF Poll
    <2>2. CASE stream' = "check" /\ UNCHANGED <<told, channelVars>>
      BY <1>1, <1>12, <2>2 DEF Poll
    <2> QED BY <1>12, <2>1, <2>2 DEF Poll
  <1>13. CASE MarkQueuedFails
    <2>1. "broken" \notin Terminal
      BY DEF Terminal
    <2> QED BY <1>3, <1>9, <1>13, <2>1 DEF MarkQueuedFails
  <1>14. CASE ConnectionBreaks
    <2>1. CASE CloseStream("broken")
      <3>1. "broken" \notin Terminal
        BY DEF Terminal
      <3> QED BY <1>9, <1>14, <2>1, <3>1 DEF ConnectionBreaks
    <2>2. CASE inbox' = <<>> /\ UNCHANGED <<stream, told>>
      BY <1>1, <1>2, <1>14, <2>2 DEF ConnectionBreaks
    <2> QED BY <1>14, <2>1, <2>2 DEF ConnectionBreaks
  <1>15. CASE NextEvent
    <2>1. /\ inbox # <<>> /\ inbox \in Seq(Events)
          /\ UNCHANGED <<rowVars, workVars, gone, faultVars>>
      BY <1>15 DEF NextEvent, TypeOK
    <2>2. Head(inbox) \in Held(inbox) /\ Held(Tail(inbox)) \subseteq Held(inbox)
      BY <2>1, HeldBy
    <2>3. CASE Head(inbox) \in EndEvents /\ CloseStream(Head(inbox).value)
      <3>1. Head(inbox).value \in reached
        BY <2>2, <2>3 DEF EndsCommitted, Committed
      <3> QED BY <1>9, <2>1, <2>3, <3>1
    <2>4. CASE inbox' = Tail(inbox) /\ told' = told
      BY <1>1, <2>1, <2>2, <2>4
    <2> QED BY <1>15, <2>3, <2>4 DEF NextEvent
  <1> QED BY <1>4, <1>5, <1>6, <1>7, <1>8, <1>10, <1>11, <1>12, <1>13, <1>14, <1>15
          DEF StreamStep

LEMMA RunEndsKept ==
    ASSUME TypeOK, EndsCommitted, EndHappened,
           \/ ApiCancel
           \/ \E w \in Workers : \/ Claim(w) \/ Answer(w) \/ Complete(w) \/ Abort(w)
                                 \/ Crash(w) \/ Recover(w)
    PROVE  EndsCommitted' /\ EndHappened'
  <1> USE DEF rowVars, workVars, channelVars, clientVars, faultVars
  <1>0. Workers \subseteq Processes /\ "api" \in Processes
    BY DEF Processes
  <1>1. ASSUME UNCHANGED <<reached, channelVars, clientVars>>,
               status' \in Terminal => status' = status,
               \A p \in Processes : \A e \in Held(out'[p]) :
                    e \in Held(out[p]) \/ e \in WorkEvents
        PROVE  EndsCommitted' /\ EndHappened'
    <2>1. status' \in Terminal => status' \in reached'
      BY <1>1 DEF EndsCommitted
    <2>2. \A e \in WorkEvents : e \notin EndEvents
      BY KindsOfEvents
    <2> QED BY <1>1, <2>1, <2>2, EndsKept
  <1>2. ASSUME NEW p \in Processes, NEW t \in Terminal,
               NEW ends \in {"guarded", "unguarded"}, Finalize(p, t, ends),
               UNCHANGED <<channelVars, clientVars>>
        PROVE  EndsCommitted' /\ EndHappened'
    BY <1>2, FinalizeEnds
  <1>3. "active" \notin Terminal /\ "queued" \notin Terminal
    BY DEF Terminal
  <1>4. CASE ApiCancel
    <2>1. RequestRunCancel("api", "user") /\ UNCHANGED <<channelVars, clientVars>>
      BY <1>4 DEF ApiCancel
    <2>2. \/ UNCHANGED <<status, reached, out, job>>
          \/ \E t \in Terminal : Finalize("api", t, "unguarded")
      BY <1>0, <2>1, CancelEffect
    <2>3. CASE UNCHANGED <<status, reached, out, job>>
      BY <1>1, <2>1, <2>3
    <2> QED BY <1>0, <1>2, <2>1, <2>2, <2>3
  <1>5. ASSUME NEW w \in Workers, Claim(w) PROVE EndsCommitted' /\ EndHappened'
    <2>1. UNCHANGED <<channelVars, clientVars>>
      BY <1>5 DEF Claim
    <2>2. CASE Finalize(w, CancelStatus(cancel), "guarded")
      BY <1>0, <1>2, <2>1, <2>2, ReasonIsTerminal
    <2>3. CASE UNCHANGED <<reached, out>> /\ (status' = status \/ status' = "active")
      BY <1>1, <1>3, <2>1, <2>3
    <2> QED BY <1>5, <2>2, <2>3 DEF Claim
  <1>6. ASSUME NEW w \in Workers, Answer(w) PROVE EndsCommitted' /\ EndHappened'
    <2>1. \A p \in Processes : \A e \in Held(out'[p]) :
             e \in Held(out[p]) \/ e \in WorkEvents
      BY <1>0, <1>6, ChunksAre DEF Answer, TypeOK
    <2> QED BY <1>1, <1>3, <1>6, <2>1 DEF Answer
  <1>7. ASSUME NEW w \in Workers, Complete(w) PROVE EndsCommitted' /\ EndHappened'
    <2>1. Finalize(w, "completed", "guarded") /\ "completed" \in Terminal
      BY <1>7 DEF Complete, Terminal
    <2> QED BY <1>0, <1>2, <1>7, <2>1 DEF Complete
  <1>8. ASSUME NEW w \in Workers, Abort(w) PROVE EndsCommitted' /\ EndHappened'
    <2>1. \E t \in Terminal : Finalize(w, t, "unguarded")
      BY <1>8, ReasonIsTerminal DEF Abort, Terminal
    <2> QED BY <1>0, <1>2, <1>8, <2>1 DEF Abort
  <1>9. ASSUME NEW w \in Workers, Crash(w) PROVE EndsCommitted' /\ EndHappened'
    <2>1. /\ out' = [out EXCEPT ![w] = <<>>]
          /\ UNCHANGED <<rowVars, channelVars, clientVars>>
      BY <1>9 DEF Crash
    <2>2. \A p \in Processes : out'[p] = out[p] \/ out'[p] = <<>>
      BY <2>1 DEF TypeOK
    <2>3. Held(<<>>) = {}
      BY DEF Held
    <2> QED BY <1>1, <2>1, <2>2, <2>3
  <1>10. ASSUME NEW w \in Workers, Recover(w) PROVE EndsCommitted' /\ EndHappened'
    BY <1>1, <1>3, <1>10 DEF Recover
  <1> QED BY <1>4, <1>5, <1>6, <1>7, <1>8, <1>9, <1>10

LEMMA PublishEndsKept ==
    ASSUME TypeOK, EndsCommitted, EndHappened, NEW p \in Processes,
           Publish(p) \/ PublishTwice(p) \/ PublishFails(p)
    PROVE  EndsCommitted' /\ EndHappened'
  <1> USE DEF rowVars, workVars, channelVars, clientVars, faultVars
  <1> DEFINE e == Head(out[p])
  <1>1. /\ out \in [Processes -> Seq(Events)] /\ out[p] \in Seq(Events) /\ out[p] # <<>>
        /\ inbox \in Seq(Events)
    BY DEF TypeOK, Publish, PublishTwice, PublishFails
  <1>2. e \in Held(out[p]) /\ e \in Events /\ Held(Tail(out[p])) \subseteq Held(out[p])
    BY <1>1, HeldBy
  <1> HIDE DEF e
  <1>3. Held(Append(inbox, e)) = Held(inbox) \union {e} /\ Append(inbox, e) \in Seq(Events)
    BY <1>1, <1>2, HeldBy
  <1>4. Held(inbox \o <<e, e>>) = Held(inbox) \union {e}
    <2>0. \A s \in Seq(Events) : Held(Append(s, e)) = Held(s) \union {e}
      BY <1>2, HeldBy
    <2>1. Held(Append(Append(inbox, e), e)) = Held(Append(inbox, e)) \union {e}
      BY <1>3, <2>0
    <2>2. inbox \o <<e, e>> = Append(Append(inbox, e), e)
      BY <1>1, <1>2
    <2> QED BY <1>3, <2>1, <2>2
  <1>5. inbox' \in {inbox, Append(inbox, e), inbox \o <<e, e>>} /\ told' = told
    BY DEF Publish, PublishTwice, PublishFails, Deliver, e
  <1>6. \A x \in Held(inbox') : x \in Held(inbox) \union Held(out[p])
    BY <1>2, <1>3, <1>4, <1>5
  <1>7. ASSUME UNCHANGED <<status, reached>>,
               \A q \in Processes : out'[q] \in {out[q], <<>>} \/ (q = p /\ out'[q] = Tail(out[p]))
        PROVE  EndsCommitted' /\ EndHappened'
    <2>1. Held(<<>>) = {} /\ (status' \in Terminal => status' \in reached')
      BY <1>7 DEF Held, EndsCommitted
    <2>2. \A q \in Processes : \A x \in Held(out'[q]) : x \in Held(out[q])
      BY <1>2, <1>7, <2>1
    <2> QED BY <1>5, <1>6, <1>7, <2>1, <2>2, EndsKept
  <1>8. CASE Publish(p) \/ PublishTwice(p)
    <2>1. Advance(p) /\ UNCHANGED <<status, reached>>
      BY <1>8 DEF Publish, PublishTwice
    <2> QED BY <1>1, <1>7, <2>1, AdvanceEffect
  <1>9. CASE PublishFails(p)
    <2>1. CASE Finalize(p, "failed", "unguarded")
      BY <1>5, <1>6, <2>1, FinalizeEnds DEF Terminal
    <2>2. CASE out' = [out EXCEPT ![p] = <<>>] /\ UNCHANGED <<status, reached>>
      BY <1>1, <1>7, <2>2
    <2> QED BY <1>9, <2>1, <2>2 DEF PublishFails
  <1> QED BY <1>8, <1>9

LEMMA EndsStep ==
    TypeOK /\ EndsCommitted /\ EndHappened /\ [Next]_vars => EndsCommitted' /\ EndHappened'
  <1> SUFFICES ASSUME TypeOK, EndsCommitted, EndHappened, [Next]_vars
               PROVE  EndsCommitted' /\ EndHappened'
    OBVIOUS
  <1>1. CASE UNCHANGED vars
    BY <1>1, EndsKept
       DEF vars, rowVars, workVars, channelVars, clientVars, faultVars, EndsCommitted
  <1> QED BY <1>1, StreamEndsKept, RunEndsKept, PublishEndsKept DEF Next
-----------------------------------------------------------------------------
(* Before the push no worker publishes, and the routes publish no work. *)

LEMMA WorklessParts ==
    ASSUME NEW s \in Seq(Events), Workless(s)
    PROVE  /\ s # <<>> => Head(s) \in Events /\ ~IsWork(Head(s)) /\ Workless(Tail(s))
           /\ \A e \in Events : ~IsWork(e) => /\ Workless(Append(s, e))
                                              /\ Append(s, e) \in Seq(Events)
  <1>1. s # <<>> => /\ Head(s) \in Held(s) /\ Held(Tail(s)) \subseteq Held(s)
                    /\ Head(s) \in Events
    BY HeldBy
  <1>2. \A e \in Events : /\ Held(Append(s, e)) = Held(s) \union {e}
                          /\ Append(s, e) \in Seq(Events)
    BY HeldBy
  <1> QED BY <1>1, <1>2 DEF Workless

LEMMA RoutesQuiet ==
    ASSUME TypeOK, Quiet, NEW p \in {"api", "stream"},
           \/ UNCHANGED <<job, out>>
           \/ \E t \in Terminal : Finalize(p, t, "unguarded")
    PROVE  \A q \in {"api", "stream"} : job'[q] \in {"idle", "unguarded"} /\ Workless(out'[q])
  <1>0. {"api", "stream"} \subseteq Processes
    BY DEF Processes
  <1>1. CASE UNCHANGED <<job, out>>
    BY <1>1 DEF Quiet
  <1>2. ASSUME NEW t \in Terminal, Finalize(p, t, "unguarded")
        PROVE  \A q \in {"api", "stream"} : job'[q] \in {"idle", "unguarded"} /\ Workless(out'[q])
    <2>1. /\ out'[p] = TerminalEvents(t) /\ job'[p] = "unguarded"
          /\ \A q \in Processes : q # p => out'[q] = out[q] /\ job'[q] = job[q]
      BY <1>0, <1>2, FinalizeEffect
    <2>2. Workless(TerminalEvents(t))
      BY TerminalEventsAre
    <2>3. \A q \in {"api", "stream"} : job[q] \in {"idle", "unguarded"} /\ Workless(out[q])
      BY DEF Quiet
    <2> QED BY <1>0, <2>1, <2>2, <2>3
  <1> QED BY <1>1, <1>2

LEMMA StreamQuiet ==
    ASSUME TypeOK, Quiet,
           \/ StreamStep \/ MarkQueuedFails \/ ConnectionBreaks \/ ClientLeaves
           \/ ResponseCancelled
    PROVE  Quiet'
  <1> USE DEF rowVars, workVars, channelVars, clientVars, faultVars
  <1>0. Workless(<<>>)
    BY DEF Workless, Held
  <1>1. \A p \in {"api", "stream"} : job[p] \in {"idle", "unguarded"} /\ Workless(out[p])
    BY DEF Quiet
  <1>2. ASSUME stream' \notin Early, UNCHANGED <<job, out>> PROVE Quiet'
    BY <1>1, <1>2 DEF Quiet
  <1>3. ASSUME CheckGone PROVE Quiet'
    <2>1. RequestRunCancel("stream", "aborted") /\ stream' \notin Early
      BY <1>3 DEF CheckGone, Early
    <2>2. \/ UNCHANGED <<status, reached, out, job>>
          \/ \E t \in Terminal : Finalize("stream", t, "unguarded")
      <3>1. "stream" \in Processes
        BY DEF Processes
      <3> QED BY <2>1, <3>1, CancelEffect
    <2>3. \A q \in {"api", "stream"} : job'[q] \in {"idle", "unguarded"} /\ Workless(out'[q])
      BY <2>2, RoutesQuiet
    <2> QED BY <2>1, <2>3 DEF Quiet
  <1>4. ASSUME Create \/ Subscribe \/ ClientLeaves PROVE Quiet'
    <2>1. /\ stream' \in Early => stream \in Early
          /\ UNCHANGED <<queue, job, out, owed>> /\ inbox' \in {inbox, <<>>}
          /\ status' \in {status, "accepted"}
      BY <1>4 DEF Create, Subscribe, ClientLeaves, Early
    <2> QED BY <1>0, <1>1, <2>1 DEF Quiet
  <1>5. ASSUME ConnectionBreaks PROVE Quiet'
    <2>1. /\ stream' \in Early => stream' = stream
          /\ UNCHANGED <<status, queue, job, out>> /\ inbox' = <<>> /\ owed' = <<>>
      BY <1>5 DEF ConnectionBreaks, CloseStream, Early
    <2> QED BY <1>0, <1>1, <2>1 DEF Quiet
  <1>6. ASSUME \/ MarkQueued \/ Check \/ Timeout \/ MarkQueuedFails \/ LeaveLoop
               \/ ResponseCancelled \/ Stopped \/ Poll \/ NextEvent
        PROVE  Quiet'
    <2>1. stream' \in {"check", "wait", "poll", "closed", "stopped"} /\ UNCHANGED <<job, out>>
      BY <1>6 DEF MarkQueued, Check, Timeout, MarkQueuedFails, LeaveLoop,
                  ResponseCancelled, Stopped, Poll, NextEvent, CloseStream
    <2> QED BY <1>2, <2>1 DEF Early
  <1> QED BY <1>3, <1>4, <1>5, <1>6 DEF StreamStep

LEMMA RunQuiet ==
    ASSUME TypeOK, Quiet,
           \/ ApiCancel
           \/ \E w \in Workers : \/ Claim(w) \/ Answer(w) \/ Complete(w) \/ Abort(w)
                                 \/ Crash(w) \/ Recover(w)
    PROVE  Quiet'
  <1> USE DEF rowVars, workVars, channelVars, clientVars, faultVars
  <1>0. /\ Workers \subseteq Processes /\ {"api", "stream"} \subseteq Processes
        /\ \A w \in Workers : w \notin {"api", "stream"}
    BY WorkersAssumption DEF Processes
  <1>1. \A p \in {"api", "stream"} : job[p] \in {"idle", "unguarded"} /\ Workless(out[p])
    BY DEF Quiet
  <1>2. ASSUME stream \notin Early, stream' = stream, NEW w \in Workers,
               \A p \in Processes : p # w => job'[p] = job[p] /\ out'[p] = out[p]
        PROVE  Quiet'
    <2>1. \A p \in {"api", "stream"} : job'[p] = job[p] /\ out'[p] = out[p]
      BY <1>0, <1>2
    <2> QED BY <1>1, <1>2, <2>1 DEF Quiet
  <1>3. /\ job \in [Processes -> Labels] /\ out \in [Processes -> Seq(Events)]
        /\ queue \in Nat
    BY DEF TypeOK, Labels
  <1>4. ASSUME ApiCancel PROVE Quiet'
    <2>1. /\ RequestRunCancel("api", "user") /\ status # "none"
          /\ UNCHANGED <<queue, channelVars, clientVars>>
      BY <1>4 DEF ApiCancel
    <2>2. \/ UNCHANGED <<status, reached, out, job>>
          \/ \E t \in Terminal : Finalize("api", t, "unguarded")
      BY <1>0, <2>1, CancelEffect
    <2>3. \A q \in {"api", "stream"} : job'[q] \in {"idle", "unguarded"} /\ Workless(out'[q])
      BY <2>2, RoutesQuiet
    <2>4. CASE UNCHANGED <<status, reached, out, job>>
      BY <2>1, <2>3, <2>4 DEF Quiet
    <2>5. ASSUME NEW t \in Terminal, Finalize("api", t, "unguarded") PROVE Quiet'
      <3>1. /\ status' = t
            /\ \A q \in Processes : q # "api" => out'[q] = out[q] /\ job'[q] = job[q]
        BY <1>0, <2>5, FinalizeEffect
      <3>2. \A w \in Workers : out'[w] = out[w] /\ job'[w] = job[w]
        BY <1>0, <3>1
      <3> QED BY <2>1, <2>3, <3>1, <3>2 DEF Quiet
    <2> QED BY <2>2, <2>4, <2>5
  <1>5. ASSUME NEW w \in Workers,
               Claim(w) \/ Answer(w) \/ Complete(w) \/ Abort(w) \/ Crash(w)
        PROVE  Quiet'
    <2>1. stream \notin Early
      <3>1. queue > 0 \/ job[w] # "idle"
        BY <1>5 DEF Claim, Answer, Complete, Abort, Crash
      <3> QED BY <1>3, <3>1 DEF Quiet
    <2>2. stream' = stream
      BY <1>5 DEF Claim, Answer, Complete, Abort, Crash
    <2>3. \/ UNCHANGED <<job, out>>
          \/ \E j, o : job' = [job EXCEPT ![w] = j] /\ out' = [out EXCEPT ![w] = o]
          \/ \E j : job' = [job EXCEPT ![w] = j] /\ out' = out
      BY <1>5 DEF Claim, Answer, Complete, Abort, Crash, Finalize
    <2>4. \A p \in Processes : p # w => job'[p] = job[p] /\ out'[p] = out[p]
      BY <1>3, <2>3
    <2> QED BY <1>2, <2>1, <2>2, <2>4
  <1>6. ASSUME NEW w \in Workers, Recover(w) PROVE Quiet'
    <2>1. stream \notin Early
      BY <1>6 DEF Recover, Quiet, Terminal
    <2> QED BY <1>2, <1>6, <2>1 DEF Recover
  <1> QED BY <1>4, <1>5, <1>6

LEMMA PublishQuiet ==
    ASSUME TypeOK, Quiet, NEW p \in Processes,
           Publish(p) \/ PublishTwice(p) \/ PublishFails(p)
    PROVE  Quiet'
  <1> USE DEF rowVars, workVars, channelVars, clientVars, faultVars
  <1> DEFINE e == Head(out[p])
  <1>0. /\ {"api", "stream"} \subseteq Processes
        /\ Processes = Workers \union {"api", "stream"}
        /\ \A w \in Workers : w \notin {"api", "stream"}
    BY WorkersAssumption DEF Processes
  <1>1. /\ job \in [Processes -> Labels] /\ out \in [Processes -> Seq(Events)]
        /\ out[p] \in Seq(Events) /\ out[p] # <<>> /\ inbox \in Seq(Events)
        /\ stream' = stream
    BY DEF TypeOK, Labels, Publish, PublishTwice, PublishFails
  <1>2. \A q \in {"api", "stream"} : job[q] \in {"idle", "unguarded"} /\ Workless(out[q])
    BY DEF Quiet
  <1>3. /\ \A q \in Processes : q # p => job'[q] = job[q] /\ out'[q] = out[q]
        /\ p \in {"api", "stream"} => /\ job'[p] \in {"idle", "unguarded"}
                                      /\ out'[p] \in {Tail(out[p]), <<>>}
                                      /\ status' = status
    <2>1. CASE Publish(p) \/ PublishTwice(p)
      <3>1. Advance(p) /\ status' = status
        BY <2>1 DEF Publish, PublishTwice
      <3> QED BY <1>1, <1>2, <3>1, AdvanceEffect
    <2>2. CASE PublishFails(p)
      <3>1. CASE job[p] \in {"retrieve", "answer", "guarded"} /\ Finalize(p, "failed", "unguarded")
        <4>1. p \notin {"api", "stream"}
          BY <1>2, <3>1
        <4> QED BY <1>1, <3>1, <4>1 DEF Finalize
      <3>2. CASE /\ out' = [out EXCEPT ![p] = <<>>] /\ job' = [job EXCEPT ![p] = "idle"]
                 /\ UNCHANGED <<status, reached>>
        BY <1>1, <3>2
      <3> QED BY <2>2, <3>1, <3>2 DEF PublishFails
    <2> QED BY <2>1, <2>2
  <1>4. Workless(<<>>)
    BY DEF Workless, Held
  <1>5. p \in {"api", "stream"} => e \in Events /\ ~IsWork(e) /\ Workless(Tail(out[p]))
    BY <1>1, <1>2, WorklessParts
  <1>6. \A q \in {"api", "stream"} : job'[q] \in {"idle", "unguarded"} /\ Workless(out'[q])
    BY <1>0, <1>2, <1>3, <1>4, <1>5
  <1>7. CASE stream \notin Early
    BY <1>1, <1>6, <1>7 DEF Quiet
  <1>8. CASE stream \in Early
    <2>1. /\ queue = 0 /\ status \in Terminal \union {"none", "accepted"}
          /\ \A w \in Workers : job[w] = "idle" /\ out[w] = <<>>
          /\ owed = <<>> /\ Workless(inbox)
      BY <1>8 DEF Quiet
    <2>2. p \in {"api", "stream"}
      BY <1>0, <1>1, <2>1
    <2>3. e \in Events /\ ~IsWork(e)
      BY <1>5, <2>2
    <2>4. Workless(Append(inbox, e)) /\ Append(inbox, e) \in Seq(Events)
      BY <1>1, <2>1, <2>3, WorklessParts
    <2> HIDE DEF e
    <2>5. Workless(inbox \o <<e, e>>)
      <3>1. inbox \o <<e, e>> = Append(Append(inbox, e), e)
        BY <1>1, <2>3
      <3>2. \A s \in Seq(Events) : Workless(s) => Workless(Append(s, e))
        BY <2>3, WorklessParts
      <3> QED BY <2>4, <3>1, <3>2
    <2>6. inbox' \in {inbox, Append(inbox, e), inbox \o <<e, e>>}
      BY DEF Publish, PublishTwice, PublishFails, Deliver, e
    <2>7. owed' = <<>> /\ queue' = queue
      BY <2>1, <2>3 DEF Publish, PublishTwice, PublishFails, e
    <2>8. \A w \in Workers : job'[w] = "idle" /\ out'[w] = <<>>
      BY <1>0, <1>3, <2>1, <2>2
    <2>9. Workless(inbox')
      BY <2>1, <2>4, <2>5, <2>6
    <2>10. status' \in Terminal \union {"none", "accepted"}
      BY <1>3, <2>1, <2>2
    <2> QED BY <1>6, <2>1, <2>7, <2>8, <2>9, <2>10 DEF Quiet
  <1> QED BY <1>7, <1>8

LEMMA QuietStep == TypeOK /\ Quiet /\ [Next]_vars => Quiet'
  <1> SUFFICES ASSUME TypeOK, Quiet, [Next]_vars PROVE Quiet'
    OBVIOUS
  <1>1. CASE UNCHANGED vars
    BY <1>1 DEF vars, rowVars, workVars, channelVars, clientVars, faultVars, Quiet
  <1> QED BY <1>1, StreamQuiet, RunQuiet, PublishQuiet DEF Next
-----------------------------------------------------------------------------
(* What has been published and not yielded waits in the subscription. *)

LEMMA WaitsStep == TypeOK /\ Quiet /\ Waits /\ [Next]_vars => Waits'
  <1> SUFFICES ASSUME TypeOK, Quiet, Waits, [Next]_vars PROVE Waits'
    OBVIOUS
  <1> USE DEF rowVars, workVars, channelVars, clientVars, faultVars
  <1>1. inbox \in Seq(Events) /\ owed \in Seq(WorkEvents) /\ lossy \in BOOLEAN
    BY DEF TypeOK
  <1>2. ASSUME ~lossy' => ~lossy, Subscribed' => Subscribed, UNCHANGED channelVars
        PROVE  Waits'
    BY <1>2 DEF Waits
  <1>3. ASSUME stream' \in {"subscribe", "closed"} \/ lossy' = TRUE PROVE Waits'
    BY <1>3 DEF Waits, Subscribed, Streaming
  <1>4. CASE UNCHANGED vars
    BY <1>2, <1>4 DEF vars, Subscribed
  <1>5. ASSUME Create PROVE Waits'
    BY <1>3, <1>5 DEF Create
  <1>6. ASSUME Subscribe PROVE Waits'
    <2>1. inbox' = <<>> /\ owed' = <<>>
      BY <1>6 DEF Subscribe, Quiet, Early
    <2>2. Workless(<<>>) /\ <<>> \in Seq(Events)
      BY DEF Workless, Held
    <2>3. WorkOf(<<>>, <<>>)
      BY <2>2, NoWork
    <2> QED BY <2>1, <2>3 DEF Waits
  <1>7. ASSUME MarkQueued \/ Check \/ CheckGone \/ Timeout \/ ClientLeaves PROVE Waits'
    <2>1. UNCHANGED channelVars /\ lossy' = lossy
      BY <1>7 DEF MarkQueued, Check, CheckGone, Timeout, ClientLeaves
    <2>2. Subscribed' => Subscribed
      BY <1>7 DEF MarkQueued, Check, CheckGone, Timeout, ClientLeaves, Subscribed, Streaming
    <2> QED BY <1>2, <2>1, <2>2
  <1>8. ASSUME MarkQueuedFails \/ LeaveLoop \/ Stopped \/ ResponseCancelled PROVE Waits'
    BY <1>3, <1>8 DEF MarkQueuedFails, LeaveLoop, Stopped, ResponseCancelled, CloseStream
  <1>9. ASSUME Poll PROVE Waits'
    <2>1. CASE CloseStream(status)
      BY <1>3, <2>1 DEF CloseStream
    <2>2. CASE stream' = "check" /\ UNCHANGED <<told, channelVars>>
      BY <1>2, <1>9, <2>2 DEF Poll, Subscribed, Streaming
    <2> QED BY <1>9, <2>1, <2>2 DEF Poll
  <1>10. ASSUME ConnectionBreaks PROVE Waits'
    BY <1>3, <1>10 DEF ConnectionBreaks
  <1>11. ASSUME NextEvent PROVE Waits'
    <2>1. /\ inbox # <<>> /\ Subscribed /\ lossy' = lossy
      BY <1>11 DEF NextEvent, Subscribed, Streaming
    <2>2. CASE CloseStream(Head(inbox).value)
      BY <1>3, <2>2 DEF CloseStream
    <2>3. CASE Head(inbox) = Closed /\ inbox' = Tail(inbox) /\ UNCHANGED <<owed, told>>
      <3>1. ~IsWork(Head(inbox))
        BY <2>3, KindsOfEvents
      <3>2. ~lossy => WorkOf(Tail(inbox), owed)
        BY <1>1, <2>1, <3>1, WorkOfTail DEF Waits
      <3> QED BY <2>1, <2>3, <3>2 DEF Waits
    <2>4. CASE /\ inbox' = Tail(inbox)
               /\ owed' = IF IsWork(Head(inbox)) /\ owed # <<>> THEN Tail(owed) ELSE owed
      <3>1. ASSUME ~lossy PROVE WorkOf(Tail(inbox), owed')
        <4>1. WorkOf(inbox, owed)
          BY <2>1, <3>1 DEF Waits
        <4>2. CASE IsWork(Head(inbox))
          BY <1>1, <2>1, <2>4, <4>1, <4>2, WorkOfTail
        <4>3. CASE ~IsWork(Head(inbox))
          BY <1>1, <2>1, <2>4, <4>1, <4>3, WorkOfTail
        <4> QED BY <4>2, <4>3
      <3> QED BY <2>1, <2>4, <3>1 DEF Waits
    <2> QED BY <1>11, <2>2, <2>3, <2>4 DEF NextEvent
  <1>12. ASSUME ApiCancel PROVE Waits'
    BY <1>2, <1>12 DEF ApiCancel, Subscribed
  <1>13. ASSUME NEW w \in Workers,
                Claim(w) \/ Answer(w) \/ Complete(w) \/ Abort(w) \/ Crash(w) \/ Recover(w)
         PROVE  Waits'
    <2>1. UNCHANGED <<channelVars, clientVars, lossy>>
      BY <1>13 DEF Claim, Answer, Complete, Abort, Crash, Recover
    <2> QED BY <1>2, <2>1 DEF Subscribed
  <1>14. ASSUME NEW p \in Processes, PublishTwice(p) \/ PublishFails(p) PROVE Waits'
    BY <1>3, <1>14 DEF PublishTwice, PublishFails
  <1>15. ASSUME NEW p \in Processes, Publish(p) PROVE Waits'
    <2>1. /\ out[p] \in Seq(Events) /\ out[p] # <<>> /\ Head(out[p]) \in Events
          /\ UNCHANGED <<stream, lossy>>
      BY <1>15 DEF Publish, TypeOK
    <2>2. ASSUME ~lossy, Subscribed PROVE WorkOf(inbox', owed')
      <3>1. /\ inbox' = Append(inbox, Head(out[p]))
            /\ owed' = IF IsWork(Head(out[p])) THEN Append(owed, Head(out[p])) ELSE owed
        BY <1>15, <2>2 DEF Publish, Deliver
      <3>2. WorkOf(inbox, owed)
        BY <2>2 DEF Waits
      <3>3. CASE IsWork(Head(out[p]))
        BY <1>1, <2>1, <3>1, <3>2, <3>3, WorkOfAppend
      <3>4. CASE ~IsWork(Head(out[p]))
        BY <1>1, <2>1, <3>1, <3>2, <3>4, WorkOfAppend
      <3> QED BY <3>3, <3>4
    <2>3. Subscribed' = Subscribed
      BY <2>1 DEF Subscribed
    <2> QED BY <2>1, <2>2, <2>3 DEF Waits
  <1> QED BY <1>4, <1>5, <1>6, <1>7, <1>8, <1>9, <1>10, <1>11, <1>12, <1>13, <1>14, <1>15
          DEF Next, StreamStep
-----------------------------------------------------------------------------
LEMMA Initially == Init => IInv
  <1> SUFFICES ASSUME Init PROVE IInv
    OBVIOUS
  <1>0. <<>> \in Seq(Events) /\ <<>> \in Seq(WorkEvents) /\ Held(<<>>) = {}
    BY DEF Held
  <1>1. TypeOK
    <2>1. /\ job \in [Processes -> {"idle", "retrieve", "answer", "guarded", "unguarded"}]
          /\ out \in [Processes -> Seq(Events)]
      BY <1>0 DEF Init
    <2>2. faults \in 0..MaxFaults
      BY FaultsAssumption DEF Init
    <2> QED BY <1>0, <2>1, <2>2 DEF Init, TypeOK
  <1>2. "none" \notin Terminal
    BY DEF Terminal
  <1>3. EndsCommitted /\ EndHappened
    BY <1>0, <1>2 DEF Init, EndsCommitted, EndHappened, Committed
  <1>4. Quiet
    <2>1. Workers \subseteq Processes /\ {"api", "stream"} \subseteq Processes
      BY DEF Processes
    <2> QED BY <1>0, <2>1 DEF Init, Quiet, Workless
  <1>5. Waits
    BY DEF Init, Waits, Subscribed, Streaming
  <1> QED BY <1>1, <1>3, <1>4, <1>5 DEF IInv

LEMMA InvariantStep == IInv /\ [Next]_vars => IInv'
  BY TypedStep, EndsStep, QuietStep, WaitsStep DEF IInv

(* The inductive invariant holds of every reachable state. *)
THEOREM Invariance == Spec => []IInv
  BY Initially, InvariantStep, PTL DEF Spec

(* The row, the publishers' pending events, the subscription and the stream *)
(* always have their types.                                                 *)
THEOREM StreamTypes == Spec => []TypeOK
  <1>1. IInv => TypeOK
    BY DEF IInv
  <1> QED BY <1>1, Invariance, PTL

(* Whatever end the client is told of has been committed before, by whoever *)
(* published it, polled it or found the bus closed (stream_skill_run_events,*)
(* _finalize_run, request_run_cancel).                                      *)
THEOREM EndsHappened == Spec => []EndHappened
  <1>1. IInv => EndHappened
    BY DEF IInv
  <1> QED BY <1>1, Invariance, PTL

(* As long as the channel loses nothing, what was published and not yielded *)
(* waits in the subscription in its order (open_chat_event_subscription     *)
(* before _mark_run_queued; next_event's timeout takes nothing away).       *)
THEOREM WorkNotMissed == Spec => []NothingMissed
  <1>1. IInv => NothingMissed
    BY DEF IInv, Waits, NothingMissed, Subscribed
  <1> QED BY <1>1, Invariance, PTL

==============================================================================
