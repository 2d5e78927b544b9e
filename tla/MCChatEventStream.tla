------------------------- MODULE MCChatEventStream -------------------------
(* Instances of ChatEventStream: two workers that may run the run in turn   *)
(* or at once, both backends, one chunk of work per execution.              *)
EXTENDS ChatEventStream, ObservationChecks, SessionChecks, WorkerChecks

OneChunk == <<"answer">>

=============================================================================
