--------------------------- MODULE ObservationChecks ---------------------------
(***************************************************************************)
(* What Observations promises, over the logs of up to four events that two *)
(* processes record.                                                       *)
(***************************************************************************)
EXTENDS Observations

LOCAL INSTANCE SequencesExt

LOCAL Procs == {"worker", "api"}
LOCAL Steps == {"queued", "retrieve", NoStep}
LOCAL Delta(n) == [delta |-> [n |-> n, wraps |-> 0, cut |-> FALSE], response |-> [keys |-> {"a", "b"}]]

(* Each letter is one event: the process, its step, and if storing fails. *)
LOCAL Moves == [proc : Procs, step : Steps, fails : BOOLEAN]

LOCAL LogOf(ms) ==
    FoldLeft(LAMBDA log, m : Record(log, m.proc, m.step, Delta(2), m.fails), EmptyLog(Procs), ms)

LOCAL Scripts == UNION {[1..n -> Moves] : n \in 0..SnapshotLimit}

(* One recorder at a time numbers the rows of a run 1, 2, 3, ... whichever  *)
(* process it is in and whatever could not be stored in between.            *)
ASSUME RowsCountUp ==
    \A ms \in Scripts : LET s == LogOf(ms).stored IN \A i \in DOMAIN s : s[i].seq = i

(* What a client is sent has no such order: an event that could not be      *)
(* stored has the number of another one, and each process counts its own.   *)
ASSUME PublishedNumbersRepeat ==
    /\ \E ms \in Scripts : LET o == LogOf(ms).out
                           IN  \E i, j \in DOMAIN o : i < j /\ o[i].seq = o[j].seq /\ o[j].kept /\ ~o[i].kept
    /\ \E ms \in Scripts : LET o == LogOf(ms).out
                           IN  \E i, j \in DOMAIN o : i < j /\ o[i].seq = o[j].seq /\ ~o[j].kept /\ ~o[i].kept
    /\ \A ms \in Scripts :
         LET o == LogOf(ms).out
         IN  /\ Len(o) = Len(ms)
             /\ \A i \in DOMAIN o : ms[i].fails =>
                   o[i].seq = Cardinality({j \in 1..i : ms[j].fails /\ ms[j].proc = ms[i].proc})

(* Two recorders that overlap store one number twice, and the count goes on *)
(* from there: no row is lost and later ones are above both.                *)
ASSUME OverlapsShareANumber ==
    \A ms \in Scripts :
        LET log == LogOf(ms)
            two == Stored(Stored(log, log.stored, "queued", Delta(1)), log.stored, "retrieve", Delta(1))
            n   == Len(log.stored)
        IN  /\ two.stored[n + 1].seq = two.stored[n + 2].seq
            /\ NextSequence(two.stored) = n + 2
            /\ Shown(two) # <<>> => \A i, j \in DOMAIN Shown(two) : i < j => Shown(two)[i].seq <= Shown(two)[j].seq

(* A text that is stored can be read from its record, cut or not; one that  *)
(* could not be stored arrives as the print of a record, and of a response  *)
(* nothing is left but the name of the first summary.                       *)
ASSUME UnstoredPayloadsAreWrappedTwice ==
    \A n \in 0..6 :
        LET kept == Stored(EmptyLog(Procs), <<>>, NoStep, Delta(n)).out[1].payload
            lost == Ephemeral(EmptyLog(Procs), "api", NoStep, Delta(n)).out[1].payload
        IN  /\ kept["delta"].wraps = 1 /\ lost["delta"].wraps = 2
            /\ kept["delta"].n <= TextMax /\ lost["delta"].n <= TextMax
            /\ kept["delta"].cut <=> n > TextMax
            /\ n \in 2..TextMax => lost["delta"].cut
            /\ kept["response"].shown = {"a", "b"} /\ lost["response"].shown = {"keys"}

(* However long a payload is and whatever it is written in, what is stored  *)
(* stays within the limit that sends it to the preview.                     *)
ASSUME StoredPayloadsFit ==
    \A n \in {0, 1, 9999, 10000, 10001, 15000, 15001, 30000, 60000, 60001, 1000000}, w \in 1..4 :
        StoredBytes(n, w) <= MaxBytes

(* The step of a snapshot is that of the last event that has one, as long   *)
(* as all events are shown; from then on it stands still, but a parse job's *)
(* own step goes on.                                                        *)
ASSUME SnapshotsStandStill ==
    /\ \A ms \in Scripts :
         LET log == LogOf(ms)
         IN  /\ CurrentStep(Shown(log)) = CurrentStep(log.stored)
             /\ Len(Shown(log)) = Len(log.stored)
    /\ \A ms \in [1..SnapshotLimit -> [proc : {"api"}, step : {"queued", "retrieve"}, fails : {FALSE}]],
          step \in Steps, n \in 1..2 :
         LET log == LogOf(ms)
             one == Record(log, "worker", step, Delta(1), FALSE)
         IN  /\ Shown(one) = Shown(log)
             /\ SnapshotStep("chat", one, step) = ms[SnapshotLimit].step
             /\ SnapshotStep("parse_job", one, step) = step

(* Only a run of the principal's own workspace, of a kind that is known,    *)
(* and only with the capability.                                            *)
ASSUME SnapshotsStayInTheWorkspace ==
    \A t, w \in {"a", "b"}, may \in BOOLEAN, kind \in RunKinds \union {"other"} :
        MaySee([may |-> [can_view_runs |-> may], tenant |-> "a", space |-> "a"], kind,
               [tenant |-> t, space |-> w])
          <=> may /\ t = "a" /\ w = "a" /\ kind # "other"

(* Coverage adds up; a build is called completed when nothing is missing or *)
(* has failed, so that one of no assets, a job whose version is gone        *)
(* included, is completed too.                                              *)
ASSUME CoverageAddsUp ==
    \A items \in UNION {[1..n -> {"ready", "missing", "failed"}] : n \in 0..4} :
        LET c == Coverage(items)
        IN  /\ c.ready + c.missing + c.failed = c.total
            /\ BuildStatus(items) = "completed" <=> c.ready = c.total
            /\ BuildStatus(items) = "failed" <=> c.failed > 0
            /\ \A n \in 0..3 : LET s == Samples(items, "missing", n)
                               IN  /\ Cardinality(s) = IF SampleLimit(n) < c.missing THEN SampleLimit(n) ELSE c.missing
                                   /\ \A i \in s : \A j \in HavingState(items, "missing") : j < i => j \in s
ASSUME GoneIsCompleted ==
    /\ BuildStatus(JobItems([there |-> FALSE, status |-> "failed", path |-> FALSE])) = "completed"
    /\ \A st \in {"index_ready", "pending", "failed"}, path \in BOOLEAN :
         (BuildStatus(JobItems([there |-> TRUE, status |-> st, path |-> path])) = "completed")
            <=> (st = "index_ready" /\ path)

(* A reason is given whenever embeddings were not used; and also for some   *)
(* runs that used them, when the mode asked for was off or unknown.         *)
ASSUME ReasonsAreGiven ==
    \A mode \in EmbeddingModes \union {"none", "typo"}, enabled \in BOOLEAN :
        LET why == FallbackReason(mode, enabled, "none")
        IN  /\ ~enabled => why # "none"
            /\ (enabled /\ why # "none") <=> (enabled /\ ReportedMode(mode) = "off")
            /\ ReportedMode(mode) \in EmbeddingModes
            /\ FallbackReason(mode, enabled, "given") = "given"

=============================================================================
