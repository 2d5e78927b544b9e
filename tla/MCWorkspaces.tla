----------------------------- MODULE MCWorkspaces -----------------------------
(* Instances of Workspaces: the founder, an admin and a person still        *)
(* outside, two requests in flight, two invites.                            *)
EXTENDS Workspaces, AccountChecks, TLC

(* Requests and invites are interchangeable. *)
Perms == Permutations(Slots) \union Permutations(Invites)

=============================================================================
