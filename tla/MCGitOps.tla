------------------------------ MODULE MCGitOps ------------------------------
(***************************************************************************)
(* Instances of GitOps for TLC.                                            *)
(***************************************************************************)
EXTENDS GitOps, TLC

GitSymmetry ==
  Permutations(Ops) \union Permutations(Paths) \union Permutations(Patches)
=============================================================================
