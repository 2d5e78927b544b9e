---------------------------- MODULE MCDocuments ----------------------------
(* Instances of Documents: two versions, two jobs and two workers, so that  *)
(* jobs of one version and of different versions overlap.                   *)
EXTENDS Documents, OutlineChecks

CONSTANTS j1, j2, r1, r2, w1, w2, MaxEvents

(* Two jobs are alike until one is created, two restores until one reads,   *)
(* two idle workers until one pops: the first of them goes first.           *)
FirstGoesFirst ==
    /\ job[j1].status = "none" => job'[j2].status = "none" \/ ~Exists
    /\ restore[r1].at = "new" => restore'[r2].at = "new"
    /\ ~Busy(w1) => pc'[w2] # "queue" \/ Busy(w2)

Made     == {j \in Jobs : job[j].status # "none"}
Restored == {r \in Restores : restore[r].at # "new"}
Appended == {v \in Versions \ {First} : request[v].at # "new"}

(* Bound: how many jobs, restores, further versions and faults there are in *)
(* all, and a second job or a restore, not both.                            *)
FewEvents ==
    /\ Cardinality(Made') + Cardinality(Restored') + Cardinality(Appended') + faults' <= MaxEvents
    /\ Cardinality(Made') <= 1 \/ Restored' = {}
=============================================================================
