----------------------------- MODULE MCChatRuns -----------------------------
(* Instances of ChatRuns for TLC: which runs share a session. *)
EXTENDS ChatRuns, TLC

CONSTANTS s1

OneSession == [r \in Runs |-> s1]
NoSessions == [r \in Runs |-> NoSession]

WorkerSymmetry == Permutations(Workers)
=============================================================================
