-------------------------- MODULE ComplianceRunsProofs --------------------------
(***************************************************************************)
(* The safety of ComplianceRuns for any runs, workers, expiries and faults. *)
(* Nothing but the status tells two executors of a run apart, so the       *)
(* invariant (IInv) says of every run that is not disturbed: one worker    *)
(* executes it, and until that worker ends it the row, and what the worker *)
(* has read of it, hold no result of anybody (Blank).                      *)
(***************************************************************************)
EXTENDS ComplianceRuns, TLAPS

Row == [status : Status, fresh : BOOLEAN, error : BOOLEAN, summary : Workers \union {Nobody},
        citations : Workers \union {Nobody}, evidence : Workers \union {Nobody}]

Waiting == Active \union {"queued"}
Working == Executing \ {"announce"}

(* A row that no execution has ended. *)
Blank(x) == /\ x.summary = Nobody /\ x.citations = Nobody /\ x.evidence = Nobody
            /\ ~x.error

Labels == {"scan", "rescan", "requeue", "push", "pop", "load", "claim"} \union Executing

Typed == TypeOK /\ pc \in [Workers -> Labels] /\ copy \in [Workers -> [Runs -> Row]]

(* What a worker has popped, has read of the runs it found stale, or of the *)
(* run it popped, and what its evidence came to.                            *)
Local(w) ==
    /\ pc[w] \in {"load", "claim"} \union Executing => task[w] \in Runs
    /\ pc[w] \in {"requeue", "push"} =>
          \A r \in Runs : copy[w][r].status \in Waiting \union {"none"}
    /\ pc[w] = "claim" => copy[w][task[w]].status \notin Terminal
    /\ pc[w] = "context" => found[w] \in {"nothing", "cited"}
    /\ pc[w] = "answer" => found[w] = "context"

(* A run that has not ended holds no result. *)
BlankRow(r) == row[r].status \notin Terminal => Blank(row[r])

(* It has one executor, ... *)
OneExecutor(r) == \A u, w \in Workers : Executes(u, r) /\ Executes(w, r) => u = w

(* ... which has read no result, and ends it itself. *)
BlankCopy(w, r) ==
    task[w] = r =>
        /\ pc[w] = "claim" => Blank(copy[w][r])
        /\ pc[w] \in Working =>
              row[r].status \in Waiting /\ copy[w][r].status \in Waiting /\ Blank(copy[w][r])

(* What a completed run holds is of one execution. *)
OfOneExecution(x) == x.status = "completed" =>
                        /\ x.summary # Nobody /\ ~x.error
                        /\ x.citations \in {x.summary, Nobody}
                        /\ x.evidence # Nobody => x.evidence = x.citations
OneResult(r) == OfOneExecution(row[r])

Orderly(r) == /\ BlankRow(r) /\ OneExecutor(r) /\ OneResult(r)
              /\ \A w \in Workers : BlankCopy(w, r)

IInv == /\ Typed
        /\ \A w \in Workers : Local(w)
        /\ \A r \in Runs \ disturbed : Orderly(r)

-----------------------------------------------------------------------------
(* Rows and what is written to them. *)

(* The row a run starts with, and the one it has before, are empty. *)
LEMMA NewRows ==
    /\ NewRow \in Row /\ NoRow \in Row /\ Blank(NewRow) /\ Blank(NoRow)
    /\ NewRow.status = "accepted" /\ NoRow.status = "none"
  BY DEF NewRow, NoRow, Row, Blank, Status, Active, Terminal

(* An UPDATE leaves a row, whose columns are the new ones where they differ *)
(* from what was read and the row's own elsewhere (Written, column by       *)
(* column).                                                                 *)
LEMMA WrittenColumns ==
    ASSUME NEW r, NEW old, NEW new \in Row, row[r] \in Row
    PROVE  /\ Written(r, old, new) \in Row
           /\ Written(r, old, new).fresh = new.fresh
           /\ \A c \in {"status", "error", "summary", "citations", "evidence"} :
                 Written(r, old, new)[c] = IF new[c] # old[c] THEN new[c] ELSE row[r][c]
  <1>1. DOMAIN new = {"status", "fresh", "error", "summary", "citations", "evidence"}
    BY DEF Row
  <1> QED BY <1>1 DEF Written, Row

(* Over a row that holds no result, an UPDATE by somebody who has read none *)
(* leaves just what it says.                                                *)
LEMMA WrittenBlank ==
    ASSUME NEW r, NEW old \in Row, NEW new \in Row, row[r] \in Row, Blank(old), Blank(row[r])
    PROVE  /\ Written(r, old, new) \in Row
           /\ Written(r, old, new).summary = new.summary
           /\ Written(r, old, new).citations = new.citations
           /\ Written(r, old, new).evidence = new.evidence
           /\ Written(r, old, new).error = new.error
  <1> DEFINE after == Written(r, old, new)
  <1>1. after \in Row
    BY WrittenColumns
  <1>2. \A c \in {"status", "error", "summary", "citations", "evidence"} :
           after[c] = IF new[c] # old[c] THEN new[c] ELSE row[r][c]
    BY WrittenColumns
  <1> HIDE DEF after
  <1>3. /\ after.summary = IF new.summary # old.summary THEN new.summary ELSE row[r].summary
        /\ after.citations = IF new.citations # old.citations THEN new.citations
                             ELSE row[r].citations
        /\ after.evidence = IF new.evidence # old.evidence THEN new.evidence
                            ELSE row[r].evidence
        /\ after.error = IF new.error # old.error THEN new.error ELSE row[r].error
    BY <1>2
  <1>4. old.error = row[r].error
    BY DEF Blank, Row
  <1>5. after.summary = new.summary /\ after.citations = new.citations
    BY <1>3 DEF Blank
  <1>6. after.evidence = new.evidence /\ after.error = new.error
    BY <1>3, <1>4 DEF Blank
  <1> QED BY <1>1, <1>5, <1>6 DEF after

(* The type invariant says of rows that they are rows. *)
LEMMA TypeRows ==
    TypeOK <=> /\ row \in [Runs -> Row] /\ queued \in [Runs -> Nat]
               /\ task \in [Workers -> Runs \union {NoRun}]
               /\ found \in [Workers -> {"unknown", "nothing", "cited", "context"}]
               /\ disturbed \subseteq Runs /\ expiries \in Nat /\ faults \in 0..MaxFaults
  BY DEF TypeOK, Row

LEMMA FaultTyped == ASSUME Typed, Fault PROVE faults' \in 0..MaxFaults
  BY BoundsAssumption DEF Typed, TypeOK, Fault

-----------------------------------------------------------------------------
(* Steps of one worker. *)

(* Nothing changes of the other workers. *)
Others(w) == \A u \in Workers \ {w} : /\ pc'[u] = pc[u] /\ task'[u] = task[u]
                                      /\ copy'[u] = copy[u] /\ found'[u] = found[u]

LEMMA LocalKept ==
    ASSUME IInv, NEW w \in Workers, Others(w), Local(w)'
    PROVE  \A u \in Workers : Local(u)'
  <1> SUFFICES ASSUME NEW u \in Workers PROVE Local(u)'
    OBVIOUS
  <1>1. CASE u = w
    BY <1>1
  <1>2. CASE u # w
    BY <1>2 DEF Others, Local, IInv
  <1> QED BY <1>1, <1>2

(* A step of w that leaves the rows alone, and does not make w an executor, *)
(* keeps every run orderly if what w reads is blank.                        *)
LEMMA ReadsKeepOrder ==
    ASSUME IInv, NEW w \in Workers, Others(w), row' = row, disturbed' = disturbed,
           \A r \in Runs : Executes(w, r)' => Executes(w, r),
           \A r \in Runs \ disturbed : BlankCopy(w, r)'
    PROVE  \A r \in Runs \ disturbed' : Orderly(r)'
  <1> SUFFICES ASSUME NEW r \in Runs \ disturbed PROVE Orderly(r)'
    OBVIOUS
  <1>1. Orderly(r)
    BY DEF IInv
  <1>2. BlankRow(r)' /\ OneResult(r)'
    BY <1>1 DEF Orderly, BlankRow, OneResult
  <1>3. \A u \in Workers : Executes(u, r)' => Executes(u, r)
    <2> SUFFICES ASSUME NEW u \in Workers, Executes(u, r)' PROVE Executes(u, r)
      OBVIOUS
    <2>1. CASE u = w
      BY <2>1
    <2>2. CASE u # w
      BY <2>2 DEF Others, Executes
    <2> QED BY <2>1, <2>2
  <1>4. OneExecutor(r)'
    BY <1>1, <1>3 DEF Orderly, OneExecutor
  <1>5. ASSUME NEW u \in Workers PROVE BlankCopy(u, r)'
    <2>1. CASE u = w
      BY <2>1
    <2>2. CASE u # w
      <3>1. BlankCopy(u, r)
        BY <1>1 DEF Orderly
      <3> QED BY <2>2, <3>1 DEF Others, BlankCopy
    <2> QED BY <2>1, <2>2
  <1> QED BY <1>2, <1>4, <1>5 DEF Orderly

(* A worker that has nothing to do holds nothing. *)
LEMMA RestKeeps ==
    ASSUME IInv, NEW w \in Workers, Rest(w), row' = row, disturbed' = disturbed,
           queued' = queued, expiries' = expiries, faults' \in 0..MaxFaults
    PROVE  IInv'
  <1>1. Others(w)
    BY DEF Rest, Goto, Others, IInv, Typed, TypeOK
  <1>2. pc'[w] = "scan" /\ task'[w] = NoRun
    BY DEF Rest, Goto, IInv, Typed, TypeOK
  <1>3. [r \in Runs |-> NoRow] \in [Runs -> Row]
    BY NewRows
  <1>4. Typed'
    <2>1. pc' \in [Workers -> Labels]
      BY DEF Rest, Goto, IInv, Typed, Labels
    <2>2. copy' \in [Workers -> [Runs -> Row]]
      BY <1>3 DEF Rest, IInv, Typed
    <2>3. TypeOK'
      BY TypeRows DEF Rest, IInv, Typed, TypeOK
    <2> QED BY <2>1, <2>2, <2>3 DEF Typed
  <1>5. Local(w)'
    BY <1>2 DEF Local, Executing
  <1>6. \A r \in Runs : ~Executes(w, r)' /\ BlankCopy(w, r)'
    BY <1>2, RunsAssumption DEF Executes, BlankCopy
  <1> QED BY <1>1, <1>4, <1>5, <1>6, LocalKept, ReadsKeepOrder DEF IInv
(* A step of w alone that goes to label l. *)
LEMMA ReadStep ==
    ASSUME IInv, NEW w \in Workers, Others(w), Typed', Local(w)',
           row' = row, disturbed' = disturbed,
           \A r \in Runs : Executes(w, r)' => Executes(w, r),
           \A r \in Runs \ disturbed : BlankCopy(w, r)'
    PROVE  IInv'
  BY LocalKept, ReadsKeepOrder DEF IInv

LEMMA ScanInv ==
    ASSUME IInv, NEW w \in Workers, Scan(w)
    PROVE  IInv'
  <1> DEFINE stale == {r \in Runs : Stale(r)}
             read  == [r \in Runs |-> IF r \in stale THEN row[r] ELSE NoRow]
  <1>1. /\ row' = row /\ queued' = queued /\ disturbed' = disturbed
        /\ task' = task /\ found' = found /\ expiries' = expiries /\ faults' = faults
        /\ pc[w] \in {"scan", "rescan"}
    BY DEF Scan, rowVars, boundVars
  <1>2. read \in [Runs -> Row] /\ \A r \in Runs : read[r].status \in Waiting \union {"none"}
    BY NewRows, TypeRows DEF IInv, Typed, Stale, Waiting
  <1>3. \/ pc' = [pc EXCEPT ![w] = "pop"] /\ copy' = copy
        \/ pc' = [pc EXCEPT ![w] = "load"] /\ copy' = copy /\ task[w] \in Runs
        \/ pc' = [pc EXCEPT ![w] = "requeue"] /\ copy' = [copy EXCEPT ![w] = read]
    BY DEF Scan, Goto, IInv, Typed, TypeOK
  <1> HIDE DEF read
  <1>4. Others(w)
    BY <1>1, <1>3 DEF Others, IInv, Typed, TypeOK
  <1>5. Typed'
    <2>1. TypeOK'
      BY <1>1 DEF IInv, Typed, TypeOK
    <2>2. pc' \in [Workers -> Labels] /\ copy' \in [Workers -> [Runs -> Row]]
      BY <1>2, <1>3 DEF IInv, Typed, Labels
    <2> QED BY <2>1, <2>2 DEF Typed
  <1>6. pc'[w] \in {"pop", "load", "requeue"} /\ (pc'[w] = "load" => task[w] \in Runs)
        /\ (pc'[w] = "requeue" => copy'[w] = read)
    BY <1>3 DEF IInv, Typed
  <1>7. Local(w)'
    BY <1>1, <1>2, <1>6 DEF Local, Executing
  <1>8. \A r \in Runs : ~Executes(w, r)' /\ BlankCopy(w, r)'
    BY <1>6 DEF Executes, Executing, Working, BlankCopy
  <1> QED BY <1>1, <1>4, <1>5, <1>7, <1>8, ReadStep

LEMMA PushInv ==
    ASSUME IInv, NEW w \in Workers, Push(w)
    PROVE  IInv'
  <1>1. /\ row' = row /\ disturbed' = disturbed /\ task' = task /\ found' = found
        /\ expiries' = expiries /\ faults' = faults
    BY DEF Push, boundVars
  <1>2. /\ pc' = [pc EXCEPT ![w] = IF task[w] = NoRun THEN "pop" ELSE "load"]
        /\ copy' = [copy EXCEPT ![w] = [r \in Runs |-> NoRow]]
    BY DEF Push, Goto
  <1>3. Others(w)
    BY <1>1, <1>2 DEF Others, IInv, Typed, TypeOK
  <1>4. pc'[w] \in {"pop", "load"} /\ (pc'[w] = "load" => task[w] \in Runs)
    BY <1>2 DEF IInv, Typed, TypeOK
  <1>5. Typed'
    <2>1. queued' \in [Runs -> Nat]
      BY DEF Push, IInv, Typed, TypeOK
    <2>2. TypeOK'
      BY <1>1, <2>1 DEF IInv, Typed, TypeOK
    <2>3. [r \in Runs |-> NoRow] \in [Runs -> Row]
      BY NewRows
    <2>4. pc' \in [Workers -> Labels] /\ copy' \in [Workers -> [Runs -> Row]]
      BY <1>2, <2>3 DEF IInv, Typed, Labels
    <2> QED BY <2>2, <2>4 DEF Typed
  <1>6. Local(w)'
    BY <1>1, <1>4 DEF Local, Executing
  <1>7. \A r \in Runs : ~Executes(w, r)' /\ BlankCopy(w, r)'
    BY <1>4 DEF Executes, Executing, Working, BlankCopy
  <1> QED BY <1>1, <1>3, <1>5, <1>6, <1>7, ReadStep

LEMMA PopInv ==
    ASSUME IInv, NEW w \in Workers, Pop(w)
    PROVE  IInv'
  <1>1. /\ row' = row /\ copy' = copy /\ found' = found /\ disturbed' = disturbed
        /\ expiries' = expiries /\ faults' = faults
    BY DEF Pop, boundVars
  <1>2. /\ queued' \in [Runs -> Nat] /\ task' \in [Workers -> Runs \union {NoRun}]
        /\ pc' = [pc EXCEPT ![w] = "rescan"] \/ pc' = [pc EXCEPT ![w] = "scan"]
        /\ \A u \in Workers \ {w} : task'[u] = task[u]
    <2>1. CASE \E r \in Runs : /\ queued[r] > 0
                               /\ queued' = [queued EXCEPT ![r] = @ - 1]
                               /\ task' = [task EXCEPT ![w] = r]
                               /\ Goto(w, "rescan")
      BY <2>1 DEF Goto, IInv, Typed, TypeOK
    <2>2. CASE Goto(w, "scan") /\ UNCHANGED <<queued, task>>
      BY <2>2 DEF Goto, IInv, Typed, TypeOK
    <2> QED BY <2>1, <2>2 DEF Pop
  <1>3. Others(w) /\ pc'[w] \in {"rescan", "scan"}
    BY <1>1, <1>2 DEF Others, IInv, Typed
  <1>4. Typed'
    <2>1. TypeOK'
      BY <1>1, <1>2 DEF IInv, Typed, TypeOK
    <2>2. pc' \in [Workers -> Labels]
      BY <1>2 DEF IInv, Typed, Labels
    <2> QED BY <1>1, <2>1, <2>2 DEF Typed, IInv
  <1>5. Local(w)'
    BY <1>3 DEF Local, Executing
  <1>6. \A r \in Runs : ~Executes(w, r)' /\ BlankCopy(w, r)'
    BY <1>3 DEF Executes, Executing, Working, BlankCopy
  <1> QED BY <1>1, <1>3, <1>4, <1>5, <1>6, ReadStep

(* A copy of a row that has not ended is as blank as the row. *)
LEMMA LoadInv ==
    ASSUME IInv, NEW w \in Workers, Load(w)
    PROVE  IInv'
  <1>1. CASE row[task[w]].status \in Terminal
    <2>1. Rest(w) /\ UNCHANGED <<rowVars, disturbed, boundVars>>
      BY <1>1 DEF Load
    <2> QED BY <2>1, RestKeeps DEF rowVars, boundVars, IInv, Typed, TypeOK
  <1>2. CASE row[task[w]].status \notin Terminal
    <2> DEFINE q == task[w]
    <2>1. /\ pc[w] = "load" /\ pc' = [pc EXCEPT ![w] = "claim"]
          /\ copy' = [copy EXCEPT ![w][q] = row[q]]
          /\ row' = row /\ queued' = queued /\ disturbed' = disturbed
          /\ task' = task /\ found' = found /\ expiries' = expiries /\ faults' = faults
      BY <1>2 DEF Load, Goto, rowVars, boundVars
    <2>2. q \in Runs /\ row[q] \in Row
      BY <2>1, TypeRows DEF IInv, Typed, Local
    <2>3. Others(w)
      BY <2>1 DEF Others, IInv, Typed
    <2>4. Typed'
      <3>1. TypeOK'
        BY <2>1 DEF IInv, Typed, TypeOK
      <3>2. pc' \in [Workers -> Labels] /\ copy' \in [Workers -> [Runs -> Row]]
        BY <2>1, <2>2 DEF IInv, Typed, Labels
      <3> QED BY <3>1, <3>2 DEF Typed
    <2>5. pc'[w] = "claim" /\ task'[w] = q /\ copy'[w][q] = row[q]
      BY <2>1, <2>2 DEF IInv, Typed
    <2>6. Local(w)'
      BY <1>2, <2>2, <2>5 DEF Local, Executing
    <2>7. \A r \in Runs : ~Executes(w, r)'
      BY <2>5 DEF Executes, Executing
    <2>8. \A r \in Runs \ disturbed : BlankCopy(w, r)'
      BY <1>2, <2>5 DEF IInv, Orderly, BlankRow, BlankCopy, Working, Executing
    <2> QED BY <2>1, <2>3, <2>4, <2>6, <2>7, <2>8, ReadStep
  <1> QED BY <1>1, <1>2

LEMMA TargetInv ==
    ASSUME IInv, NEW w \in Workers, Target(w)
    PROVE  IInv'
  <1> DEFINE q == task[w]
  <1>1. /\ pc[w] = "target" /\ pc' = [pc EXCEPT ![w] = "retrieve"]
        /\ copy' = [copy EXCEPT ![w][q] = row[q]]
        /\ row' = row /\ queued' = queued /\ disturbed' = disturbed
        /\ task' = task /\ found' = found /\ expiries' = expiries /\ faults' = faults
    BY DEF Target, Goto, rowVars, boundVars
  <1>2. q \in Runs /\ row[q] \in Row
    BY <1>1, TypeRows DEF IInv, Typed, Local, Executing
  <1>3. Others(w)
    BY <1>1 DEF Others, IInv, Typed
  <1>4. Typed'
    <2>1. TypeOK'
      BY <1>1 DEF IInv, Typed, TypeOK
    <2>2. pc' \in [Workers -> Labels] /\ copy' \in [Workers -> [Runs -> Row]]
      BY <1>1, <1>2 DEF IInv, Typed, Labels, Executing
    <2> QED BY <2>1, <2>2 DEF Typed
  <1>5. pc'[w] = "retrieve" /\ task'[w] = q /\ copy'[w][q] = row[q]
    BY <1>1, <1>2 DEF IInv, Typed
  <1>6. Local(w)'
    BY <1>2, <1>5 DEF Local, Executing
  <1>7. \A r \in Runs : Executes(w, r)' => Executes(w, r)
    BY <1>1 DEF Executes, Executing
  <1>8. \A r \in Runs \ disturbed : BlankCopy(w, r)'
    BY <1>1, <1>5 DEF IInv, Orderly, BlankRow, BlankCopy, Working, Executing, Waiting,
                      Active, Terminal
  <1> QED BY <1>1, <1>3, <1>4, <1>6, <1>7, <1>8, ReadStep

LEMMA RetrieveInv ==
    ASSUME IInv, NEW w \in Workers, Retrieve(w)
    PROVE  IInv'
  <1>1. PICK f \in {"nothing", "cited"} : found' = [found EXCEPT ![w] = f]
    BY DEF Retrieve
  <1>2. /\ pc[w] = "retrieve" /\ pc' = [pc EXCEPT ![w] = "context"]
        /\ row' = row /\ queued' = queued /\ disturbed' = disturbed
        /\ task' = task /\ copy' = copy /\ expiries' = expiries /\ faults' = faults
    BY DEF Retrieve, Goto, rowVars, boundVars
  <1>3. Others(w) /\ pc'[w] = "context" /\ found'[w] = f
    BY <1>1, <1>2 DEF Others, IInv, Typed, TypeOK
  <1>4. Typed'
    <2>1. found' \in [Workers -> {"unknown", "nothing", "cited", "context"}]
      BY <1>1 DEF IInv, Typed, TypeOK
    <2>2. TypeOK'
      BY <1>2, <2>1 DEF IInv, Typed, TypeOK
    <2>3. pc' \in [Workers -> Labels]
      BY <1>2 DEF IInv, Typed, Labels, Executing
    <2> QED BY <1>2, <2>2, <2>3 DEF Typed, IInv
  <1>5. Local(w)'
    BY <1>2, <1>3 DEF IInv, Local, Executing
  <1>6. \A r \in Runs : Executes(w, r)' => Executes(w, r)
    BY <1>2 DEF Executes, Executing
  <1>7. \A r \in Runs \ disturbed : BlankCopy(w, r)'
    BY <1>2, <1>3 DEF IInv, Orderly, BlankCopy, Working, Executing
  <1> QED BY <1>2, <1>3, <1>4, <1>5, <1>6, <1>7, ReadStep
-----------------------------------------------------------------------------
(* Commits of the worker that has popped a run. *)

LEMMA CommitColumns ==
    ASSUME Typed, NEW w \in Workers, NEW q \in Runs, NEW new \in Row, Commit(w, q, new)
    PROVE  /\ row' \in [Runs -> Row] /\ copy' \in [Workers -> [Runs -> Row]]
           /\ row'[q] = Written(q, copy[w][q], new) /\ copy'[w][q] = row'[q]
           /\ \A r \in Runs : r # q => row'[r] = row[r]
           /\ \A u \in Workers : u # w => copy'[u] = copy[u]
  <1> DEFINE after == Written(q, copy[w][q], new)
  <1>1. row \in [Runs -> Row] /\ copy \in [Workers -> [Runs -> Row]]
    BY TypeRows DEF Typed
  <1>2. after \in Row
    BY <1>1, WrittenColumns
  <1>3. row' = [row EXCEPT ![q] = after] /\ copy' = [copy EXCEPT ![w][q] = after]
    BY DEF Commit
  <1> HIDE DEF after
  <1>4. row' \in [Runs -> Row] /\ copy' \in [Workers -> [Runs -> Row]]
    BY <1>1, <1>2, <1>3
  <1>5. row'[q] = after /\ copy'[w][q] = after
    BY <1>1, <1>3
  <1>6. \A r \in Runs : r # q => row'[r] = row[r]
    BY <1>1, <1>3
  <1>7. \A u \in Workers : u # w => copy'[u] = copy[u]
    BY <1>1, <1>3
  <1> QED BY <1>4, <1>5, <1>6, <1>7 DEF after

(* The runs that w has not popped do not notice its steps. *)
LEMMA OtherRunsKept ==
    ASSUME IInv, NEW w \in Workers, Others(w), task'[w] = task[w],
           disturbed \subseteq disturbed',
           NEW r \in Runs \ disturbed', r # task[w], row'[r] = row[r]
    PROVE  Orderly(r)'
  <1>1. Orderly(r)
    BY DEF IInv
  <1>2. BlankRow(r)' /\ OneResult(r)'
    BY <1>1 DEF Orderly, BlankRow, OneResult
  <1>3. \A u \in Workers : task'[u] = r => /\ u # w /\ task[u] = r /\ pc'[u] = pc[u]
                                           /\ copy'[u] = copy[u]
    BY DEF Others
  <1>4. OneExecutor(r)'
    BY <1>1, <1>3 DEF Orderly, OneExecutor, Executes
  <1>5. \A u \in Workers : BlankCopy(u, r)'
    BY <1>1, <1>3 DEF Orderly, BlankCopy
  <1> QED BY <1>2, <1>4, <1>5 DEF Orderly

(* What an execution makes of the row it has read is of that execution. *)
LEMMA ResultConsistent ==
    ASSUME Typed, NEW w \in Workers, NEW q \in Runs, NEW f, NEW cited \in BOOLEAN,
           f = "nothing" => ~cited, Blank(copy[w][q])
    PROVE  /\ Result(w, q, f, cited) \in Row /\ Result(w, q, f, cited).status = "completed"
           /\ OfOneExecution(Result(w, q, f, cited))
  <1>1. copy[w][q] \in Row /\ w # Nobody
    BY WorkersAssumption DEF Typed
  <1> QED BY <1>1 DEF Result, Row, OfOneExecution, Blank, Status, Terminal

(* A worker that is disturbed writes rows all the same. *)
LEMMA ResultIsRow ==
    ASSUME Typed, NEW w \in Workers, NEW q \in Runs, NEW f, NEW cited \in BOOLEAN
    PROVE  Result(w, q, f, cited) \in Row /\ Result(w, q, f, cited).status = "completed"
  <1>1. copy[w][q] \in Row
    BY DEF Typed
  <1> QED BY <1>1 DEF Result, Row, Status, Terminal

(* The end of an execution. *)
LEMMA FinalizeInv ==
    ASSUME IInv, NEW w \in Workers, pc[w] \in Working, NEW new \in Row,
           new.status \in Terminal, Blank(copy[w][task[w]]) => OfOneExecution(new),
           Finalize(w, new), found' = found, expiries' = expiries, faults' = faults
    PROVE  IInv'
  <1>2. task[w] \in Runs /\ Typed /\ row \in [Runs -> Row]
    BY TypeRows DEF IInv, Typed, Local, Working
  <1> PICK q \in Runs : q = task[w]
    BY <1>2
  <1>1. /\ Commit(w, q, new) /\ pc' = [pc EXCEPT ![w] = "announce"]
        /\ queued' = queued /\ task' = task /\ disturbed' = disturbed
    BY DEF Finalize, Goto
  <1>3. /\ row' \in [Runs -> Row] /\ copy' \in [Workers -> [Runs -> Row]]
        /\ row'[q] = Written(q, copy[w][q], new) /\ copy'[w][q] = row'[q]
        /\ \A r \in Runs : r # q => row'[r] = row[r]
        /\ \A u \in Workers : u # w => copy'[u] = copy[u]
    BY <1>1, <1>2, CommitColumns
  <1>4. Others(w) /\ pc'[w] = "announce" /\ task'[w] = q
    BY <1>1, <1>2, <1>3 DEF Others, Typed
  <1>5. Typed'
    <2>1. TypeOK'
      BY <1>1, <1>2, <1>3 DEF TypeOK, Typed, Row
    <2>2. pc' \in [Workers -> Labels]
      BY <1>1, <1>2 DEF Typed, Labels, Executing
    <2> QED BY <1>3, <2>1, <2>2 DEF Typed
  <1>6. \A u \in Workers : Local(u)'
    <2>1. Local(w)'
      BY <1>2, <1>4 DEF Local, Executing
    <2> QED BY <1>4, <2>1, LocalKept
  <1>7. ASSUME q \notin disturbed PROVE Orderly(q)'
    <2>1. Orderly(q) /\ copy[w][q] \in Row /\ row[q] \in Row
      BY <1>2, <1>7 DEF IInv, Typed
    <2>2. /\ copy[w][q].status \in Waiting /\ row[q].status \in Waiting
          /\ Blank(copy[w][q])
      BY <2>1 DEF Orderly, BlankCopy
    <2>3. Blank(row[q])
      BY <2>1, <2>2 DEF Orderly, BlankRow, Waiting, Active, Terminal
    <2>4. row'[q].status = new.status
      <3>1. \A c \in {"status", "error", "summary", "citations", "evidence"} :
               row'[q][c] = IF new[c] # copy[w][q][c] THEN new[c] ELSE row[q][c]
        BY <1>3, <2>1, WrittenColumns
      <3>2. new.status # copy[w][q].status
        BY <2>2 DEF Waiting, Active, Terminal
      <3> QED BY <3>1, <3>2
    <2>5. /\ row'[q].summary = new.summary /\ row'[q].citations = new.citations
          /\ row'[q].evidence = new.evidence /\ row'[q].error = new.error
      <3> DEFINE old == copy[w][q]
      <3>1. old \in Row /\ row[q] \in Row /\ Blank(old) /\ Blank(row[q])
        BY <2>1, <2>2, <2>3
      <3>2. row'[q] = Written(q, old, new)
        BY <1>3
      <3> HIDE DEF old
      <3> QED BY <3>1, <3>2, WrittenBlank
    <2>6. OneResult(q)'
      BY <2>2, <2>4, <2>5 DEF OneResult, OfOneExecution
    <2>7. BlankRow(q)'
      BY <2>4 DEF BlankRow
    <2>8. \A u \in Workers : Executes(u, q)' => Executes(u, q)
      BY <1>1, <1>2 DEF Executes, Executing, Typed, Working
    <2>9. OneExecutor(q)'
      BY <2>1, <2>8 DEF Orderly, OneExecutor
    <2>10. ASSUME NEW u \in Workers PROVE BlankCopy(u, q)'
      <3>1. CASE u = w
        BY <1>4, <3>1 DEF BlankCopy, Working
      <3>2. CASE u # w
        <4>1. task[u] = q => pc[u] \notin Working
          BY <2>1, <3>2 DEF Orderly, OneExecutor, Executes, Working
        <4> QED BY <1>4, <2>1, <3>2, <4>1 DEF Orderly, BlankCopy, Others
      <3> QED BY <3>1, <3>2
    <2> QED BY <2>6, <2>7, <2>9, <2>10 DEF Orderly
  <1>8. \A r \in Runs \ disturbed' : Orderly(r)'
    BY <1>1, <1>3, <1>4, <1>7, OtherRunsKept
  <1> QED BY <1>5, <1>6, <1>8 DEF IInv
(* An UPDATE that says nothing of a result, of a run that has none. *)
LEMMA BlankCommit ==
    ASSUME Typed, NEW w \in Workers, NEW q \in Runs, NEW new \in Row, Commit(w, q, new),
           Blank(copy[w][q]), Blank(row[q]), Blank(new), new.status \in Waiting,
           new.status # copy[w][q].status \/ row[q].status \in Waiting
    PROVE  /\ row'[q].status \in Waiting /\ Blank(row'[q]) /\ copy'[w][q] = row'[q]
  <1> DEFINE old == copy[w][q]
  <1>1. old \in Row /\ row[q] \in Row
    BY TypeRows DEF Typed
  <1>2. row'[q] = Written(q, old, new) /\ copy'[w][q] = row'[q]
    BY CommitColumns
  <1>3. Blank(old) /\ (new.status # old.status \/ row[q].status \in Waiting)
    OBVIOUS
  <1> HIDE DEF old
  <1>4. \A c \in {"status", "error", "summary", "citations", "evidence"} :
           row'[q][c] = IF new[c] # old[c] THEN new[c] ELSE row[q][c]
    BY <1>1, <1>2, WrittenColumns
  <1>5. row'[q].status = IF new.status # old.status THEN new.status ELSE row[q].status
    BY <1>4
  <1>6. row'[q].status \in Waiting
    BY <1>3, <1>5
  <1>7. /\ row'[q].summary = new.summary /\ row'[q].citations = new.citations
        /\ row'[q].evidence = new.evidence /\ row'[q].error = new.error
    BY <1>1, <1>2, <1>3, WrittenBlank
  <1> QED BY <1>2, <1>6, <1>7 DEF Blank

(* No excerpt, and the run completes without evidence; or it is answered.   *)
LEMMA ContextInv ==
    ASSUME IInv, NEW w \in Workers, Context(w)
    PROVE  IInv'
  <1>1. /\ pc[w] = "context" /\ pc[w] \in Working /\ task[w] \in Runs /\ Typed
        /\ found[w] \in {"nothing", "cited"} /\ expiries' = expiries /\ faults' = faults
    BY DEF Context, Finalize, IInv, Local, Working, Executing, boundVars
  <1> PICK q \in Runs : q = task[w]
    BY <1>1
  <1>2. CASE Finalize(w, Result(w, q, found[w], FALSE)) /\ UNCHANGED found
    <2>1. /\ Result(w, q, found[w], FALSE) \in Row
          /\ Result(w, q, found[w], FALSE).status \in Terminal
      BY <1>1, ResultIsRow DEF Terminal
    <2>2. Blank(copy[w][q]) => OfOneExecution(Result(w, q, found[w], FALSE))
      BY <1>1, ResultConsistent
    <2> QED BY <1>1, <1>2, <2>1, <2>2, FinalizeInv
  <1>3. CASE /\ Commit(w, q, [copy[w][q] EXCEPT !.status = "answering",
                                                !.fresh = row[q].fresh])
             /\ found' = [found EXCEPT ![w] = "context"] /\ Goto(w, "answer")
             /\ UNCHANGED <<queued, task, disturbed, boundVars>>
    <2> DEFINE new == [copy[w][q] EXCEPT !.status = "answering", !.fresh = row[q].fresh]
    <2>1. copy[w][q] \in Row /\ row[q] \in Row
      BY <1>1, TypeRows DEF Typed
    <2>2. new \in Row /\ new.status = "answering" /\ (Blank(copy[w][q]) => Blank(new))
      BY <2>1 DEF Row, Status, Active, Blank
    <2>3. Commit(w, q, new)
      BY <1>3
    <2> HIDE DEF new
    <2>4. /\ row' \in [Runs -> Row] /\ copy' \in [Workers -> [Runs -> Row]]
          /\ \A r \in Runs : r # q => row'[r] = row[r]
          /\ \A u \in Workers : u # w => copy'[u] = copy[u]
      BY <1>1, <2>2, <2>3, CommitColumns
    <2>5. Others(w) /\ pc'[w] = "answer" /\ task' = task /\ found'[w] = "context"
      BY <1>1, <1>3, <2>4 DEF Others, Typed, TypeOK, Goto
    <2>6. Typed'
      <3>1. found' \in [Workers -> {"unknown", "nothing", "cited", "context"}]
        BY <1>1, <1>3 DEF Typed, TypeOK
      <3>2. TypeOK'
        BY <1>1, <1>3, <2>4, <3>1 DEF Typed, TypeOK, Row, boundVars
      <3>3. pc' \in [Workers -> Labels]
        BY <1>1, <1>3 DEF Typed, Labels, Executing, Goto
      <3> QED BY <2>4, <3>2, <3>3 DEF Typed
    <2>7. \A u \in Workers : Local(u)'
      <3>1. Local(w)'
        BY <1>1, <2>5 DEF Local, Executing
      <3> QED BY <2>5, <3>1, LocalKept
    <2>8. ASSUME q \notin disturbed PROVE Orderly(q)'
      <3>1. Orderly(q)
        BY <2>8 DEF IInv
      <3>2. /\ row[q].status \in Waiting /\ Blank(copy[w][q]) /\ Blank(row[q])
        BY <1>1, <3>1 DEF Orderly, BlankCopy, BlankRow, Waiting, Active, Terminal
      <3>3. row'[q].status \in Waiting /\ Blank(row'[q]) /\ copy'[w][q] = row'[q]
        BY <1>1, <2>2, <2>3, <3>2, BlankCommit DEF Waiting, Active
      <3>4. BlankRow(q)' /\ OneResult(q)'
        BY <3>3 DEF BlankRow, OneResult, OfOneExecution, Waiting, Active
      <3>5. \A u \in Workers : Executes(u, q)' => Executes(u, q)
        BY <1>1, <2>5 DEF Executes, Executing, Others
      <3>6. OneExecutor(q)'
        BY <3>1, <3>5 DEF Orderly, OneExecutor
      <3>7. ASSUME NEW u \in Workers PROVE BlankCopy(u, q)'
        <4>1. CASE u = w
          BY <2>5, <3>3, <4>1 DEF BlankCopy
        <4>2. CASE u # w
          BY <2>5, <3>1, <3>3, <4>2 DEF Orderly, BlankCopy, Others
        <4> QED BY <4>1, <4>2
      <3> QED BY <3>4, <3>6, <3>7 DEF Orderly
    <2>9. \A r \in Runs \ disturbed' : Orderly(r)'
      BY <1>3, <2>4, <2>5, <2>8, OtherRunsKept
    <2> QED BY <2>6, <2>7, <2>9 DEF IInv
  <1> QED BY <1>1, <1>2, <1>3 DEF Context

LEMMA AnswerInv ==
    ASSUME IInv, NEW w \in Workers, Answer(w)
    PROVE  IInv'
  <1>1. /\ pc[w] = "answer" /\ pc[w] \in Working /\ task[w] \in Runs /\ Typed
        /\ found[w] = "context" /\ found' = found
        /\ expiries' = expiries /\ faults' = faults
    BY DEF Answer, Finalize, IInv, Local, Working, Executing, boundVars
  <1>2. PICK cited \in BOOLEAN : Finalize(w, Result(w, task[w], found[w], cited))
    BY DEF Answer
  <1>3. /\ Result(w, task[w], found[w], cited) \in Row
        /\ Result(w, task[w], found[w], cited).status \in Terminal
    BY <1>1, ResultIsRow DEF Terminal
  <1>4. Blank(copy[w][task[w]]) => OfOneExecution(Result(w, task[w], found[w], cited))
    BY <1>1, ResultConsistent
  <1> QED BY <1>1, <1>2, <1>3, <1>4, FinalizeInv

LEMMA FailInv ==
    ASSUME IInv, NEW w \in Workers, Fail(w)
    PROVE  IInv'
  <1>1. /\ pc[w] \in Working /\ task[w] \in Runs /\ Typed /\ found' = found
        /\ expiries' = expiries /\ faults' = faults
    BY DEF Fail, Finalize, IInv, Local, Working, Executing, boundVars
  <1> DEFINE new == [copy[w][task[w]] EXCEPT !.status = "failed", !.fresh = TRUE,
                                             !.error = TRUE]
  <1>2. copy[w][task[w]] \in Row
    BY <1>1 DEF Typed
  <1>3. new \in Row /\ new.status = "failed"
    BY <1>2 DEF Row, Status, Terminal
  <1>4. Finalize(w, new)
    BY DEF Fail
  <1> HIDE DEF new
  <1>5. new.status \in Terminal /\ OfOneExecution(new)
    BY <1>3 DEF Terminal, OfOneExecution
  <1> QED BY <1>1, <1>3, <1>4, <1>5, FinalizeInv

(* A failure that takes the columns of an answer along ends the run, too.   *)
LEMMA FailBehindAnswerInv ==
    ASSUME IInv, NEW w \in Workers, FailBehindAnswer(w)
    PROVE  IInv'
  <1>1. /\ pc[w] = "answer" /\ pc[w] \in Working /\ task[w] \in Runs /\ Typed
        /\ found[w] = "context" /\ found' = found
        /\ expiries' = expiries /\ faults' = faults
    BY DEF FailBehindAnswer, Finalize, IInv, Local, Working, Executing, boundVars
  <1> PICK cited \in BOOLEAN :
          Finalize(w, [Result(w, task[w], found[w], cited) EXCEPT !.status = "failed",
                                                                 !.error = TRUE])
    BY DEF FailBehindAnswer
  <1> DEFINE result == Result(w, task[w], found[w], cited)
             new == [result EXCEPT !.status = "failed", !.error = TRUE]
  <1>2. result \in Row
    BY <1>1, ResultIsRow
  <1>3. Finalize(w, new)
    OBVIOUS
  <1> HIDE DEF result
  <1>4. new \in Row /\ new.status = "failed"
    BY <1>2 DEF Row, Status, Terminal
  <1> HIDE DEF new
  <1>5. new.status \in Terminal /\ OfOneExecution(new)
    BY <1>4 DEF Terminal, OfOneExecution
  <1> QED BY <1>1, <1>3, <1>4, <1>5, FinalizeInv

(* Claiming a run that somebody executes, or whose status has changed since *)
(* it was read, disturbs it; any other run is as blank as its copy.         *)
LEMMA ClaimInv ==
    ASSUME IInv, NEW w \in Workers, Claim(w)
    PROVE  IInv'
  <1>1. /\ pc[w] = "claim" /\ task[w] \in Runs /\ Typed
    BY DEF Claim, IInv, Local
  <1> PICK q \in Runs : q = task[w]
    BY <1>1
  <1> DEFINE new == [copy[w][q] EXCEPT !.status = "retrieving", !.fresh = TRUE,
                                       !.error = FALSE]
  <1>2. /\ Commit(w, q, new) /\ pc' = [pc EXCEPT ![w] = "target"]
        /\ queued' = queued /\ task' = task /\ found' = found
        /\ expiries' = expiries /\ faults' = faults
        /\ disturbed' = IF row[q].status # copy[w][q].status
                              \/ \E u \in Workers : Executes(u, q)
                        THEN disturbed \union {q} ELSE disturbed
    BY DEF Claim, Goto, boundVars
  <1>3. copy[w][q] \in Row /\ row[q] \in Row
    BY <1>1, TypeRows DEF Typed
  <1>4. new \in Row /\ new.status = "retrieving" /\ (Blank(copy[w][q]) => Blank(new))
    BY <1>3 DEF Row, Status, Active, Blank
  <1> HIDE DEF new
  <1>5. /\ row' \in [Runs -> Row] /\ copy' \in [Workers -> [Runs -> Row]]
        /\ \A r \in Runs : r # q => row'[r] = row[r]
        /\ \A u \in Workers : u # w => copy'[u] = copy[u]
    BY <1>1, <1>2, <1>4, CommitColumns
  <1>6. Others(w) /\ pc'[w] = "target"
    BY <1>1, <1>2, <1>5 DEF Others, Typed
  <1>7. Typed'
    <2>1. TypeOK'
      BY <1>1, <1>2, <1>5 DEF Typed, TypeOK, Row
    <2>2. pc' \in [Workers -> Labels]
      BY <1>1, <1>2 DEF Typed, Labels, Executing
    <2> QED BY <1>5, <2>1, <2>2 DEF Typed
  <1>8. \A u \in Workers : Local(u)'
    <2>1. Local(w)'
      BY <1>1, <1>2, <1>6 DEF Local, Executing
    <2> QED BY <1>6, <2>1, LocalKept
  <1>9. ASSUME q \notin disturbed' PROVE Orderly(q)'
    <2>1. /\ q \notin disturbed /\ row[q].status = copy[w][q].status
          /\ \A u \in Workers : ~Executes(u, q)
      BY <1>2, <1>9
    <2>2. Orderly(q)
      BY <2>1 DEF IInv
    <2>3. Blank(copy[w][q]) /\ copy[w][q].status \notin Terminal
      BY <1>1, <2>2 DEF Orderly, BlankCopy, IInv, Local
    <2>4. Blank(row[q])
      BY <2>1, <2>2, <2>3 DEF Orderly, BlankRow
    <2>5. new.status # copy[w][q].status \/ row[q].status \in Waiting
      BY <1>4, <2>1 DEF Waiting, Active
    <2>6. row'[q].status \in Waiting /\ Blank(row'[q]) /\ copy'[w][q] = row'[q]
      BY <1>1, <1>2, <1>4, <2>3, <2>4, <2>5, BlankCommit DEF Waiting, Active
    <2>7. BlankRow(q)' /\ OneResult(q)'
      BY <2>6 DEF BlankRow, OneResult, OfOneExecution, Waiting, Active
    <2>8. \A u \in Workers : u # w => ~Executes(u, q)'
      BY <1>6, <2>1 DEF Executes, Others
    <2>9. OneExecutor(q)'
      BY <2>8 DEF OneExecutor
    <2>10. ASSUME NEW u \in Workers PROVE BlankCopy(u, q)'
      <3>1. CASE u = w
        BY <1>6, <2>6, <3>1 DEF BlankCopy
      <3>2. CASE u # w
        BY <1>6, <2>2, <2>6, <3>2 DEF Orderly, BlankCopy, Others
      <3> QED BY <3>1, <3>2
    <2> QED BY <2>7, <2>9, <2>10 DEF Orderly
  <1>10. \A r \in Runs \ disturbed' : Orderly(r)'
    BY <1>2, <1>5, <1>6, <1>9, OtherRunsKept
  <1> QED BY <1>7, <1>8, <1>10 DEF IInv

LEMMA AnnounceInv ==
    ASSUME IInv, NEW w \in Workers, Announce(w)
    PROVE  IInv'
  <1>1. /\ pc[w] = "announce" /\ task[w] \in Runs /\ Typed
        /\ queued' = queued /\ expiries' = expiries
    BY DEF Announce, IInv, Local, Executing
  <1> PICK q \in Runs : q = task[w]
    BY <1>1
  <1>2. CASE Rest(w) /\ UNCHANGED <<row, disturbed, faults>>
    BY <1>1, <1>2, RestKeeps DEF Typed, TypeOK
  <1>3. CASE /\ Fault
             /\ Commit(w, q, [copy[w][q] EXCEPT !.status = "failed", !.fresh = TRUE,
                                                !.error = TRUE])
             /\ disturbed' = disturbed \union {q}
             /\ UNCHANGED <<pc, task, found>>
    <2> DEFINE new == [copy[w][q] EXCEPT !.status = "failed", !.fresh = TRUE, !.error = TRUE]
    <2>1. copy[w][q] \in Row
      BY <1>1 DEF Typed
    <2>2. new \in Row /\ Commit(w, q, new)
      BY <1>3, <2>1 DEF Row, Status, Terminal
    <2> HIDE DEF new
    <2>3. /\ row' \in [Runs -> Row] /\ copy' \in [Workers -> [Runs -> Row]]
          /\ \A r \in Runs : r # q => row'[r] = row[r]
          /\ \A u \in Workers : u # w => copy'[u] = copy[u]
      BY <1>1, <2>2, CommitColumns
    <2>4. Others(w) /\ faults' \in 0..MaxFaults
      BY <1>1, <1>3, <2>3, FaultTyped DEF Others
    <2>5. Typed'
      <3>1. TypeOK'
        BY <1>1, <1>3, <2>3, <2>4 DEF Typed, TypeOK, Row
      <3> QED BY <1>1, <1>3, <2>3, <3>1 DEF Typed
    <2>6. \A u \in Workers : Local(u)'
      <3>1. Local(w)'
        BY <1>1, <1>3 DEF Local, Executing
      <3> QED BY <2>4, <3>1, LocalKept
    <2>7. \A r \in Runs \ disturbed' : Orderly(r)'
      BY <1>3, <2>3, <2>4, OtherRunsKept
    <2> QED BY <2>5, <2>6, <2>7 DEF IInv
  <1> QED BY <1>1, <1>2, <1>3 DEF Announce

LEMMA CrashInv ==
    ASSUME IInv, NEW w \in Workers, Crash(w)
    PROVE  IInv'
  <1>1. faults' \in 0..MaxFaults
    BY FaultTyped DEF Crash, IInv
  <1> QED BY <1>1, RestKeeps DEF Crash, rowVars

-----------------------------------------------------------------------------
(* Recovery and requests. *)

(* A run that is queued again keeps its columns. *)
LEMMA RequeueInv ==
    ASSUME IInv, NEW w \in Workers, Requeue(w)
    PROVE  IInv'
  <1> DEFINE stale    == {r \in Runs : copy[w][r].status # "none"}
             new(r)   == [copy[w][r] EXCEPT !.status = "queued", !.fresh = TRUE]
             after(r) == Written(r, copy[w][r], new(r))
  <1>1. /\ row' = [r \in Runs |-> IF r \in stale THEN after(r) ELSE row[r]]
        /\ disturbed' = disturbed \union {r \in stale : row[r].status # copy[w][r].status}
        /\ pc[w] = "requeue" /\ pc' = [pc EXCEPT ![w] = "push"]
        /\ queued' = queued /\ task' = task /\ copy' = copy /\ found' = found
        /\ expiries' = expiries /\ faults' = faults
    BY DEF Requeue, Goto, boundVars
  <1>2. /\ Typed /\ row \in [Runs -> Row]
        /\ \A r \in stale : copy[w][r] \in Row /\ copy[w][r].status \in Waiting
    BY <1>1, TypeRows DEF IInv, Typed, Local
  <1>3. ASSUME NEW r \in stale
        PROVE  /\ after(r) \in Row
               /\ row[r].status = copy[w][r].status =>
                     /\ after(r).status \in Waiting /\ row[r].status \in Waiting
                     /\ after(r).summary = row[r].summary
                     /\ after(r).citations = row[r].citations
                     /\ after(r).evidence = row[r].evidence
                     /\ after(r).error = row[r].error
    <2> DEFINE old == copy[w][r]
    <2>1. /\ row[r] \in Row /\ old \in Row /\ new(r) \in Row /\ old.status \in Waiting
          /\ new(r).status = "queued" /\ new(r).summary = old.summary
          /\ new(r).citations = old.citations /\ new(r).evidence = old.evidence
          /\ new(r).error = old.error
      BY <1>2 DEF Row, Status
    <2>2. after(r) = Written(r, old, new(r))
      OBVIOUS
    <2> HIDE DEF old, new, after
    <2>3. /\ after(r) \in Row
          /\ \A c \in {"status", "error", "summary", "citations", "evidence"} :
                after(r)[c] = IF new(r)[c] # old[c] THEN new(r)[c] ELSE row[r][c]
      BY <2>1, <2>2, WrittenColumns
    <2>4. /\ after(r).status = IF new(r).status # old.status THEN new(r).status
                               ELSE row[r].status
          /\ after(r).summary = row[r].summary /\ after(r).citations = row[r].citations
          /\ after(r).evidence = row[r].evidence /\ after(r).error = row[r].error
      BY <2>1, <2>3
    <2>5. row[r].status = old.status => after(r).status \in Waiting /\ row[r].status \in Waiting
      BY <2>1, <2>4 DEF Waiting
    <2> QED BY <2>3, <2>4, <2>5 DEF old
  <1> HIDE DEF new, after
  <1>4. Typed'
    <2>1. row' \in [Runs -> Row]
      BY <1>1, <1>2, <1>3
    <2>2. TypeOK'
      BY <1>1, <1>2, <2>1 DEF Typed, TypeOK, Row
    <2>3. pc' \in [Workers -> Labels]
      BY <1>1, <1>2 DEF Typed, Labels
    <2> QED BY <1>1, <1>2, <2>2, <2>3 DEF Typed
  <1>5. Others(w) /\ pc'[w] = "push"
    BY <1>1, <1>2 DEF Others, Typed
  <1>6. \A u \in Workers : Local(u)'
    <2>1. Local(w)'
      BY <1>1, <1>5 DEF IInv, Local, Executing
    <2> QED BY <1>5, <2>1, LocalKept
  <1>7. ASSUME NEW r \in Runs \ disturbed' PROVE Orderly(r)'
    <2>1. /\ Orderly(r) /\ r \notin disturbed
          /\ r \in stale => row[r].status = copy[w][r].status
      BY <1>1, <1>7 DEF IInv
    <2>2. \/ row'[r] = row[r]
          \/ /\ row'[r].status \in Waiting /\ row[r].status \in Waiting
             /\ row'[r].summary = row[r].summary /\ row'[r].citations = row[r].citations
             /\ row'[r].evidence = row[r].evidence /\ row'[r].error = row[r].error
      BY <1>1, <1>3, <2>1
    <2>3. BlankRow(r)' /\ OneResult(r)'
      BY <2>1, <2>2 DEF Orderly, BlankRow, Blank, OneResult, OfOneExecution, Waiting, Active,
                        Terminal
    <2>4. OneExecutor(r)'
      <3>1. \A u \in Workers : Executes(u, r)' => Executes(u, r)
        BY <1>1, <1>2 DEF Executes, Executing, Typed
      <3> QED BY <2>1, <3>1 DEF Orderly, OneExecutor
    <2>5. ASSUME NEW u \in Workers PROVE BlankCopy(u, r)'
      <3>1. CASE u = w
        BY <1>5, <3>1 DEF BlankCopy, Working, Executing
      <3>2. CASE u # w
        BY <1>5, <2>1, <2>2, <3>2 DEF Orderly, BlankCopy, Others
      <3> QED BY <3>1, <3>2
    <2> QED BY <2>3, <2>4, <2>5 DEF Orderly
  <1> QED BY <1>4, <1>6, <1>7 DEF IInv

(* A request writes one row and none of the workers' state. *)
LEMMA RequestInv ==
    ASSUME IInv, UNCHANGED workerVars, disturbed' = disturbed, Typed',
           NEW q \in Runs, \A r \in Runs : r # q => row'[r] = row[r],
           q \notin disturbed => /\ BlankRow(q)' /\ OneResult(q)'
                                 /\ row[q].status \in Waiting => row'[q].status \in Waiting
    PROVE  IInv'
  <1>1. \A u \in Workers : Local(u)'
    BY DEF IInv, Local, workerVars
  <1>2. ASSUME NEW r \in Runs \ disturbed PROVE Orderly(r)'
    <2>1. Orderly(r)
      BY DEF IInv
    <2>2. BlankRow(r)' /\ OneResult(r)'
      BY <2>1 DEF Orderly, BlankRow, OneResult
    <2>3. OneExecutor(r)'
      BY <2>1 DEF Orderly, OneExecutor, Executes, workerVars
    <2>4. row[r].status \in Waiting => row'[r].status \in Waiting
      OBVIOUS
    <2>5. \A u \in Workers : BlankCopy(u, r)'
      BY <2>1, <2>4 DEF Orderly, BlankCopy, workerVars
    <2> QED BY <2>2, <2>3, <2>5 DEF Orderly
  <1> QED BY <1>1, <1>2 DEF IInv

LEMMA CreateRunInv ==
    ASSUME IInv, NEW q \in Runs, CreateRun(q)
    PROVE  IInv'
  <1>1. /\ row[q].status = "none" /\ row' = [row EXCEPT ![q] = NewRow]
        /\ UNCHANGED <<queued, workerVars, disturbed, boundVars>>
    BY DEF CreateRun
  <1>2. row \in [Runs -> Row]
    BY TypeRows DEF IInv, Typed
  <1>3. row' \in [Runs -> Row] /\ row'[q] = NewRow /\ \A r \in Runs : r # q => row'[r] = row[r]
    BY <1>1, <1>2, NewRows
  <1>4. Typed'
    BY <1>1, <1>3 DEF IInv, Typed, TypeOK, Row, workerVars, boundVars
  <1>5. BlankRow(q)' /\ OneResult(q)'
    BY <1>3, NewRows DEF BlankRow, OneResult, OfOneExecution
  <1> QED BY <1>1, <1>3, <1>4, <1>5, RequestInv DEF Waiting, Active

LEMMA QueueRunInv ==
    ASSUME IInv, NEW q \in Runs, QueueRun(q)
    PROVE  IInv'
  <1>1. /\ row[q].status = "accepted"
        /\ row' = [row EXCEPT ![q] = [@ EXCEPT !.status = "queued", !.fresh = TRUE]]
        /\ UNCHANGED <<workerVars, disturbed, expiries>>
    BY DEF QueueRun
  <1>2. row \in [Runs -> Row]
    BY TypeRows DEF IInv, Typed
  <1>3. /\ row' \in [Runs -> Row] /\ \A r \in Runs : r # q => row'[r] = row[r]
        /\ row'[q].status = "queued" /\ (Blank(row[q]) => Blank(row'[q]))
    BY <1>1, <1>2 DEF Row, Status, Blank
  <1>4. queued' \in [Runs -> Nat] /\ faults' \in 0..MaxFaults
    <2>1. CASE queued' = [queued EXCEPT ![q] = @ + 1] /\ UNCHANGED faults
      BY <2>1 DEF IInv, Typed, TypeOK
    <2>2. CASE Fault /\ UNCHANGED queued
      BY <2>2, FaultTyped DEF IInv, Typed, TypeOK
    <2> QED BY <2>1, <2>2 DEF QueueRun
  <1>5. Typed'
    BY <1>1, <1>3, <1>4 DEF IInv, Typed, TypeOK, Row, workerVars
  <1>6. q \notin disturbed => BlankRow(q)' /\ OneResult(q)'
    BY <1>1, <1>3 DEF IInv, Orderly, BlankRow, OneResult, OfOneExecution, Terminal
  <1> QED BY <1>1, <1>3, <1>5, <1>6, RequestInv DEF Waiting, Active

LEMMA LeaseEndsInv ==
    ASSUME IInv, NEW q \in Runs, LeaseEnds(q)
    PROVE  IInv'
  <1>1. /\ row' = [row EXCEPT ![q].fresh = FALSE] /\ expiries' \in {expiries, expiries + 1}
        /\ UNCHANGED <<queued, workerVars, disturbed, faults>>
    BY DEF LeaseEnds
  <1>2. row \in [Runs -> Row] /\ expiries' \in Nat
    BY <1>1, TypeRows DEF IInv, Typed
  <1>3. /\ row' \in [Runs -> Row] /\ \A r \in Runs : r # q => row'[r] = row[r]
        /\ row'[q] = [row[q] EXCEPT !.fresh = FALSE]
    BY <1>1, <1>2 DEF Row
  <1>4. Typed'
    BY <1>1, <1>2, <1>3 DEF IInv, Typed, TypeOK, Row, workerVars
  <1>5. /\ row'[q].status = row[q].status /\ row'[q].summary = row[q].summary
        /\ row'[q].citations = row[q].citations /\ row'[q].evidence = row[q].evidence
        /\ row'[q].error = row[q].error
    BY <1>2, <1>3 DEF Row
  <1>6. q \notin disturbed => BlankRow(q)' /\ OneResult(q)'
    BY <1>5 DEF IInv, Orderly, BlankRow, Blank, OneResult, OfOneExecution
  <1> QED BY <1>1, <1>3, <1>4, <1>5, <1>6, RequestInv

-----------------------------------------------------------------------------
LEMMA InitInv == Init => IInv
  <1> SUFFICES ASSUME Init PROVE IInv
    OBVIOUS
  <1>1. \A r \in Runs : row[r] = NoRow
    BY DEF Init
  <1>2. [r \in Runs |-> NoRow] \in [Runs -> Row]
    BY NewRows
  <1>3. TypeOK
    BY <1>2, BoundsAssumption, TypeRows DEF Init
  <1>4. Typed
    BY <1>2, <1>3 DEF Typed, Init, Labels
  <1>5. \A w \in Workers : Local(w)
    BY DEF Init, Local, Executing
  <1>6. ASSUME NEW r \in Runs PROVE Orderly(r)
    BY <1>1, NewRows DEF Init, Orderly, BlankRow, OneExecutor, Executes, Executing, OneResult,
                         OfOneExecution, BlankCopy, Working
  <1> QED BY <1>4, <1>5, <1>6 DEF IInv

LEMMA StepInv == IInv /\ [Next]_vars => IInv'
  <1> SUFFICES ASSUME IInv, [Next]_vars PROVE IInv'
    OBVIOUS
  <1>1. ASSUME NEW r \in Runs, CreateRun(r) \/ QueueRun(r) \/ LeaseEnds(r) PROVE IInv'
    BY <1>1, CreateRunInv, QueueRunInv, LeaseEndsInv
  <1>2. ASSUME NEW w \in Workers, Step(w) PROVE IInv'
    BY <1>2, ScanInv, RequeueInv, PushInv, PopInv, LoadInv, ClaimInv, TargetInv, RetrieveInv,
       ContextInv, AnswerInv, FailInv, FailBehindAnswerInv, AnnounceInv DEF Step
  <1>3. ASSUME NEW w \in Workers, Crash(w) PROVE IInv'
    BY <1>3, CrashInv
  <1>4. ASSUME UNCHANGED vars PROVE IInv'
    BY <1>4 DEF vars, rowVars, workerVars, boundVars, IInv, Typed, TypeOK, Local, Orderly,
                BlankRow, OneExecutor, Executes, OneResult, BlankCopy
  <1> QED BY <1>1, <1>2, <1>3, <1>4 DEF Next

LEMMA Invariance == Spec => []IInv
  <1> QED BY InitInv, StepInv, PTL DEF Spec
-----------------------------------------------------------------------------
(* An execution does not write a run that has ended: of a run that is not   *)
(* disturbed it would be the only executor, and the run would be waiting.   *)
LEMMA ExecutionLeavesEnded ==
    ASSUME IInv, NEW w \in Workers, pc[w] \in Working, NEW new, Commit(w, task[w], new),
           disturbed \subseteq disturbed',
           NEW r \in Runs, row[r].status \in Terminal, r \notin disturbed'
    PROVE  row'[r] = row[r]
  <1>1. task[w] = r => row[r].status \in Waiting
    BY DEF IInv, Orderly, BlankCopy
  <1>2. task[w] # r
    BY <1>1 DEF Waiting, Active, Terminal
  <1> QED BY <1>2, TypeRows DEF Commit, IInv, Typed

LEMMA EndedIsLeft ==
    ASSUME IInv, Next, NEW r \in Runs, row[r].status \in Terminal, r \notin disturbed'
    PROVE  row'[r] = row[r]
  <1>1. row \in [Runs -> Row]
    BY TypeRows DEF IInv, Typed
  <1>2. ASSUME NEW q \in Runs, CreateRun(q) \/ QueueRun(q) PROVE row'[r] = row[r]
    <2>1. q # r
      BY <1>2 DEF CreateRun, QueueRun, Terminal
    <2> QED BY <1>1, <1>2, <2>1 DEF CreateRun, QueueRun
  <1>3. ASSUME NEW q \in Runs, LeaseEnds(q) PROVE row'[r] = row[r]
    <2>1. q # r
      BY <1>3 DEF LeaseEnds, Terminal, Active
    <2> QED BY <1>1, <1>3, <2>1 DEF LeaseEnds
  <1>4. ASSUME NEW w \in Workers, Requeue(w) PROVE row'[r] = row[r]
    <2>1. copy[w][r].status \in Waiting \union {"none"}
      BY <1>4 DEF IInv, Local, Requeue
    <2>2. copy[w][r].status = "none"
      BY <1>4, <2>1 DEF Requeue, Waiting, Active, Terminal
    <2> QED BY <1>1, <1>4, <2>2 DEF Requeue
  <1>5. ASSUME NEW w \in Workers, Claim(w) PROVE row'[r] = row[r]
    <2>1. copy[w][task[w]].status \notin Terminal
      BY <1>5 DEF IInv, Local, Claim
    <2>2. task[w] # r
      BY <1>5, <2>1 DEF Claim
    <2> QED BY <1>1, <1>5, <2>2 DEF Claim, Commit
  <1>6. ASSUME NEW w \in Workers, Context(w) PROVE row'[r] = row[r]
    BY <1>6, ExecutionLeavesEnded DEF Context, Finalize, Working, Executing
  <1>7. ASSUME NEW w \in Workers, Answer(w) \/ Fail(w) \/ FailBehindAnswer(w)
        PROVE  row'[r] = row[r]
    BY <1>7, ExecutionLeavesEnded DEF Answer, Fail, FailBehindAnswer, Finalize, Working, Executing
  <1>8. ASSUME NEW w \in Workers, Announce(w) PROVE row'[r] = row[r]
    BY <1>1, <1>8 DEF Announce, Commit
  <1>9. ASSUME NEW w \in Workers,
               Scan(w) \/ Push(w) \/ Pop(w) \/ Load(w) \/ Target(w) \/ Retrieve(w) \/ Crash(w)
        PROVE  row'[r] = row[r]
    BY <1>9 DEF Scan, Push, Pop, Load, Target, Retrieve, Crash, rowVars
  <1> QED BY <1>2, <1>3, <1>4, <1>5, <1>6, <1>7, <1>8, <1>9 DEF Next, Step

(* Rows are rows, and a worker's counters and bounds are what they should   *)
(* be, in every reachable state.                                            *)
THEOREM ComplianceTypes == Spec => []TypeOK
  <1>1. IInv => TypeOK
    BY DEF IInv, Typed
  <1> QED BY <1>1, Invariance, PTL

(* Verdict, citations and evidence of a completed run are of one execution, *)
(* for any number of workers, crashes and leases that end, unless two       *)
(* executors wrote the run (_finalize_compliance_run, run_compliance_run).  *)
THEOREM ResultsOfOneExecution == Spec => []ResultOfOneExecution
  <1>1. IInv => ResultOfOneExecution
    BY DEF IInv, ResultOfOneExecution, Orderly, OneResult, OfOneExecution
  <1> QED BY <1>1, Invariance, PTL

(* A run that has ended is not written again by entries left in the queue   *)
(* or by recovery, unless it was disturbed (run_compliance_run's return,    *)
(* mark_orphaned_compliance_runs_for_retry).                                *)
THEOREM EndedComplianceRunsStay == Spec => EndStays
  <1>1. IInv /\ [Next]_vars =>
            [\A r \in Runs : (row[r].status \in Terminal /\ r \notin disturbed')
                                => row'[r] = row[r]]_vars
    BY EndedIsLeft
  <1> QED BY <1>1, Invariance, PTL DEF Spec, EndStays

=============================================================================
