------------------------------ MODULE MCHealX ------------------------------
(***************************************************************************)
(* Instances of HealX for TLC.  Jobs, handlers, clients, workers and       *)
(* workflows are only ever compared for equality; no run with a liveness   *)
(* property uses the symmetry.                                             *)
(***************************************************************************)
EXTENDS HealX, TLC

Symmetry ==
  Permutations(Jobs) \union Permutations(Handlers)
    \union Permutations(Clients) \union Permutations(Workers)
    \union Permutations(Workflows) \union Permutations(DevRuns)
=============================================================================
