----------------------------- MODULE Observations -----------------------------
(***************************************************************************)
(* What is recorded and shown of a run while it works                      *)
(* (runtime_observation_service.py) and the figures of the routing assets  *)
(* and embeddings that go with it (telemetry_service.py).                  *)
(*                                                                         *)
(* A log is what one run has had recorded: the rows of the table, the      *)
(* number that each process keeps for events it could not store, and what  *)
(* was published, in that order.  A text is its length and how often it    *)
(* has been wrapped in a record by _trim_text.                             *)
(***************************************************************************)
EXTENDS Naturals, Sequences, FiniteSets

LOCAL Least(a, b) == IF a <= b THEN a ELSE b

-----------------------------------------------------------------------------
(* Payloads.                                                                *)
TextMax == 4          \* bound: settings.observation_text_max_chars, scaled down
Wrapper == 3          \* what a record adds to a text that is printed

(* _trim_text: a record is printed before it is cut *)
Printed(x) == IF x.wraps = 0 THEN x.n ELSE x.n + Wrapper
TrimText(x) == [n |-> Least(Printed(x), TextMax), wraps |-> x.wraps + 1,
                cut |-> Printed(x) > TextMax]

TextKeys == {"prompt", "prompt_text", "response_text", "delta", "error", "messages"}

(* sanitize_observation_payload: texts are trimmed, those of a request as   *)
(* messages; of a response only the names of its fields remain.             *)
Sanitize(p) ==
    [k \in DOMAIN p |->
        IF k \in TextKeys THEN TrimText(p[k])
        ELSE IF k = "response" THEN [keys |-> {"keys"}, shown |-> p[k].keys] ELSE p[k]]

(* serialize_observation_payload_for_storage: n characters, the widest of   *)
(* them in w bytes; the preview quotes at most two bytes for one.           *)
MaxBytes == 60000
PreviewChars == 10000
Envelope == 250       \* bound: the names around a preview

StoredBytes(n, w) ==
    IF n * w <= MaxBytes THEN n * w
    ELSE Least(n, PreviewChars) * (IF w < 2 THEN 2 ELSE w) + Envelope

-----------------------------------------------------------------------------
(* The log of one run.                                                      *)
EmptyLog(procs) == [stored |-> <<>>, count |-> [p \in procs |-> 0], out |-> <<>>]

(* One more than the largest number in the rows that were read *)
NextSequence(rows) ==
    1 + (IF rows = <<>> THEN 0
         ELSE CHOOSE m \in {rows[i].seq : i \in DOMAIN rows} :
                 \A i \in DOMAIN rows : rows[i].seq <= m)

(* record_run_observation_event: `read` is the table as the recorder saw it *)
Stored(log, read, step, p) ==
    LET e == [seq |-> NextSequence(read), step |-> step, payload |-> Sanitize(p), kept |-> TRUE]
    IN  [log EXCEPT !.stored = Append(@, e), !.out = Append(@, e)]

(* _next_ephemeral_sequence, _build_ephemeral_run_observation_event: with   *)
(* no table, or when the transaction fails, the process numbers the event   *)
(* itself; its payload has been sanitized before and is again.              *)
Ephemeral(log, proc, step, p) ==
    LET e == [seq |-> log.count[proc] + 1, step |-> step, payload |-> Sanitize(Sanitize(p)),
              kept |-> FALSE]
    IN  [log EXCEPT !.count[proc] = @ + 1, !.out = Append(@, e)]

Record(log, proc, step, p, fails) ==
    IF fails THEN Ephemeral(log, proc, step, p) ELSE Stored(log, log.stored, step, p)

-----------------------------------------------------------------------------
(* get_runtime_observation_snapshot: the first rows in order of their       *)
(* number, so that a long run is shown as it was.                           *)
SnapshotLimit == 3    \* bound: 200 in the code, scaled down

RunKinds == {"chat", "compliance", "parse_job"}

MaySee(p, kind, run) ==
    /\ p.may["can_view_runs"] /\ kind \in RunKinds
    /\ run.tenant = p.tenant /\ run.space = p.space

(* The place of a row among those of its run: before it are the rows with a *)
(* smaller number and, of those with its own, the ones stored earlier.      *)
Place(rows, i) ==
    Cardinality({j \in DOMAIN rows : rows[j].seq < rows[i].seq \/ (rows[j].seq = rows[i].seq /\ j <= i)})

Shown(log) ==
    LET n == Least(SnapshotLimit, Len(log.stored))
    IN  [k \in 1..n |-> log.stored[CHOOSE i \in DOMAIN log.stored : Place(log.stored, i) = k]]

NoStep == "none"

(* _load_chat_run_snapshot, _load_compliance_run_snapshot: the step of the  *)
(* last event shown that has one; a parse job knows its own.                *)
CurrentStep(events) ==
    LET S == {i \in DOMAIN events : events[i].step # NoStep}
    IN  IF S = {} THEN NoStep ELSE events[CHOOSE i \in S : \A j \in S : j <= i].step

SnapshotStep(kind, log, jobStep) == IF kind = "parse_job" THEN jobStep ELSE CurrentStep(Shown(log))

-----------------------------------------------------------------------------
(* telemetry_service.py: the state of a routing asset and of many of them.  *)

(* routing_asset_item *)
AssetState(st, hasPath) ==
    IF st = "index_ready" /\ hasPath THEN "ready" ELSE IF st = "failed" THEN "failed" ELSE "missing"

HavingState(items, state) == {i \in DOMAIN items : items[i] = state}

(* routing_asset_coverage *)
Coverage(items) ==
    LET ready  == Cardinality(HavingState(items, "ready"))
        failed == Cardinality(HavingState(items, "failed"))
    IN  [total |-> Len(items), ready |-> ready, failed |-> failed,
         missing |-> IF Len(items) > ready + failed THEN Len(items) - ready - failed ELSE 0]

(* routing_asset_build_telemetry *)
BuildStatus(items) ==
    LET c == Coverage(items)
    IN  IF c.failed > 0 THEN "failed" ELSE IF c.missing > 0 THEN "missing" ELSE "completed"

(* _load_parse_job_snapshot: a job whose version is gone has no item *)
JobItems(version) == IF version.there THEN <<AssetState(version.status, version.path)>> ELSE <<>>

(* get_routing_asset_debug_snapshot *)
SampleMax == 100
SampleLimit(n) == IF n < 0 THEN 0 ELSE Least(n, SampleMax)
Samples(items, state, n) ==
    LET S == HavingState(items, state)
    IN  {i \in S : Cardinality({j \in S : j <= i}) <= SampleLimit(n)}

(* _normalize_embedding_mode, embedding_provider_telemetry: why no          *)
(* embeddings were used, for a mode as it was asked for.                    *)
EmbeddingModes == {"auto", "off", "provider", "system"}
ReportedMode(mode) == IF mode \in EmbeddingModes THEN mode ELSE "off"

FallbackReason(mode, enabled, given) ==
    IF given # "none" THEN given
    ELSE IF mode \notin EmbeddingModes \union {"none"} THEN "invalid_mode_disabled"
    ELSE IF ReportedMode(mode) = "off" THEN "disabled_by_flag"
    ELSE IF enabled THEN "none"
    ELSE CASE mode = "provider" -> "provider_embedding_unavailable"
           [] mode = "system"   -> "system_embedding_unavailable"
           [] OTHER             -> "no_embedding_provider_available"

=============================================================================
