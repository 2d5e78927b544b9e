---------------------------- MODULE ChatOptions ----------------------------
(***************************************************************************)
(* What a question may ask for (services/chat_service.py): the options of  *)
(* a run, checked before it is created, and the part of its session's      *)
(* history it is asked with.  Pure functions.                              *)
(***************************************************************************)
EXTENDS Integers, Sequences, FiniteSets, SequencesExt

CONSTANT Unset   \* an option that is not given, or given as an empty text

RetrievalModes == {"deep_research", "fast"}
SelectionModes == {"outline_llm", "lexical_fallback"}
RerankModes == {"auto", "off", "provider", "system"}
NodeTopK == [min |-> 1, max |-> 10, default |-> 3]
DefaultTopK == 5

(* An option that must be a positive integer. *)
Positive(value) == value # Unset => value > 0

(* The options that are refused with 400.  A limit that is not given is not  *)
(* checked; top_k and the history's limits are, when the key is there at all.*)
Accepted(option) ==
  /\ \A field \in {"top_k", "history_turn_limit", "history_token_budget",
                   "max_context_pages", "max_context_tokens"} : Positive(option[field])
  /\ option.retrieval_mode \in RetrievalModes \cup {Unset}
  /\ option.node_top_k # Unset => option.node_top_k \in NodeTopK.min..NodeTopK.max
  /\ option.selection_mode \in SelectionModes \cup {Unset}
  /\ option.rerank_mode \in RerankModes \cup {Unset}
  /\ option.temperature # Unset => option.temperature \in 0..200   \* hundredths

(* How many sections the answer may cite, and how many are asked of each     *)
(* manual before they are merged.                                            *)
TopK(option) == IF option.top_k = Unset THEN DefaultTopK ELSE option.top_k
CandidateTopK(topK) == Max({3 * topK, 12})

-----------------------------------------------------------------------------
(* A message of a session is [role, text, tokens].                           *)

(* The messages that count: those of user and assistant, or of the user      *)
(* alone, without the question itself when it is already the last of them.   *)
Turns(messages, question, withAssistant) ==
  LET roles == IF withAssistant THEN {"user", "assistant"} ELSE {"user"}
      kept == SelectSeq(messages, LAMBDA m : m.role \in roles)
      asked == /\ kept # <<>>
               /\ Last(kept).role = "user"
               /\ Last(kept).text = question
  IN IF asked THEN Front(kept) ELSE kept

(* From the last turnLimit questions on. *)
TurnWindow(turns, turnLimit) ==
  LET users == SetToSortSeq({i \in DOMAIN turns : turns[i].role = "user"}, LAMBDA i, j : i < j)
  IN IF users = <<>> THEN <<>>
     ELSE SubSeq(turns, users[Max({1, Len(users) - turnLimit + 1})], Len(turns))

(* The latest messages the budget allows, in their order.  The last one is   *)
(* taken whatever it costs.                                                  *)
History(messages, question, option) ==
  LET window == TurnWindow(Turns(messages, question, option.assistant), option.turns)
      cost[i \in 1..(Len(window) + 1)] ==
        IF i > Len(window) THEN 0 ELSE window[i].tokens + cost[i + 1]
      starts == {i \in DOMAIN window : \A j \in i..(Len(window) - 1) : cost[j] <= option.budget}
  IN IF ~option.history \/ window = <<>> THEN <<>>
     ELSE SubSeq(window, Min(starts), Len(window))
=============================================================================
