---------------------------- MODULE SessionTurns ----------------------------
(***************************************************************************)
(* What the chat pipeline promises about a session, with no worker, queue, *)
(* lease or slot in sight: its runs are served one at a time, each once,   *)
(* and none begins while an older one still waits.  A run that lease       *)
(* recovery or a client's cancel rewrites is taken out of the promise.     *)
(***************************************************************************)
EXTENDS Naturals

CONSTANTS Runs, Sessions, SessionOf, NoSession

VARIABLE phase    \* run -> its phase in the service

Phases == {"absent", "waiting", "serving", "served", "disturbed"}

Companions(r) ==
    {q \in Runs \ {r} : SessionOf[q] # NoSession /\ SessionOf[q] = SessionOf[r]}

Init == phase = [r \in Runs |-> "absent"]

Move(r, from, to) == phase[r] = from /\ phase' = [phase EXCEPT ![r] = to]

Submit(r) == Move(r, "absent", "waiting")

Begin(r) ==
    /\ Move(r, "waiting", "serving")
    /\ \A q \in Companions(r) :
          /\ phase[q] # "serving"
          /\ q < r => phase[q] # "waiting"

(* The run ends, in its turn or although its turn never came. *)
End(r) ==
    /\ phase[r] \in {"waiting", "serving"}
    /\ phase' = [phase EXCEPT ![r] = "served"]

(* Runs fall out of the promise, all those one recovery has found at once. *)
Disturb ==
    /\ phase' # phase
    /\ \A r \in Runs : \/ phase'[r] = phase[r]
                       \/ phase[r] # "absent" /\ phase'[r] = "disturbed"
    /\ DOMAIN phase' = Runs

Next ==
    \/ \E r \in Runs : Submit(r) \/ Begin(r) \/ End(r)
    \/ Disturb

Spec == Init /\ [][Next]_phase
=============================================================================
