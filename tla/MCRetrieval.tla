---------------------------- MODULE MCRetrieval ----------------------------
(* Instances of Retrieval: three manuals, of which the question's words     *)
(* name the first, the rewritten question the second and a little the       *)
(* first, and nothing the third.  The first is parsed anew with its         *)
(* sections in another order and shape.                                     *)
EXTENDS RetrievalChecks

Text(words) == [tokens |-> words, holds |-> words]
TheLabel == << Text({"pump"}), Text({"valve", "seal"}), Text({"tank"}) >>
TheFile == << Text({"pump", "seal"}), Text({"valve"}), Text({"tank"}) >>

Part(id, title, words, above, first, last, tokens) ==
  [id |-> id, title |-> title, words |-> words, above |-> above,
   first |-> first, last |-> last, tokens |-> tokens]

TheParsed ==
  << << << Part(1, {"pump"}, {"pump"}, 0, 1, 4, 2), Part(2, {"seal"}, {"seal", "oring"}, 1, 2, 3, 3) >>,
        << Part(2, {"seal"}, {"seal"}, 0, 1, 2, 9) >> >>,
     << << Part(1, {"valve"}, {"valve"}, 0, 1, 2, 2), Part(2, {"seal"}, {"seal"}, 1, 2, 2, 2) >> >>,
     << << Part(1, {"tank"}, {"tank"}, 0, 1, 9, 3) >> >> >>

TheQuestion == [tokens |-> {"pump", "seal"}, long |-> {"pump"}, phrases |-> {"oring"}]
TheRewrite == [tokens |-> {"valve", "seal", "pump"}, long |-> {"valve", "pump"}, phrases |-> {}]

Deep == [mode |-> "deep_research", manuals |-> 3, rerank |-> FALSE, topK |-> 2, gate |-> "live", live |-> TRUE,
         pages |-> NoLimit, tokens |-> 9, pdf |-> FALSE, history |-> TRUE, selection |-> "outline_llm"]
TheOptions ==
  { [Deep EXCEPT !.history = FALSE, !.selection = "lexical_fallback"],
    [Deep EXCEPT !.manuals = 2, !.gate = "shadow", !.topK = 3, !.pdf = TRUE, !.tokens = 4, !.history = FALSE],
    [Deep EXCEPT !.manuals = 2, !.rerank = TRUE, !.pages = 2, !.history = FALSE, !.selection = "lexical_fallback"],
    [Deep EXCEPT !.mode = "fast", !.manuals = 2, !.tokens = NoLimit, !.topK = 2, !.history = TRUE] }

(* For the outlines a worker keeps, one manual is enough. *)
OneManual == { [Deep EXCEPT !.manuals = 1, !.history = FALSE] }

TheReplies == { Named(<<2, 9, 2>>), Named(<<>>), NotJson, CallFailed }
TheRankings == { <<2, 1, 2>>, <<7>> }
TheDense == { NoScores, [k \in {<<2, 1>>} |-> 90] }

=============================================================================
