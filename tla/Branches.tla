------------------------------ MODULE Branches ------------------------------
(***************************************************************************)
(* What the pipeline promises of the two branches of a job, whoever works  *)
(* on them: README.md:83-89 and the docstrings of app/pipeline/git_ops.py. *)
(* An attempt replaces the internal branch as a whole, and the clean       *)
(* branch gets, as a whole, what the internal branch held when it was      *)
(* fetched for it.  HealX implements it patch by patch, GitOps tree by     *)
(* tree.                                                                   *)
(***************************************************************************)

CONSTANTS Ops, Contents, None

VARIABLES
  internal, \* what the internal branch holds, None: no branch
  clean,    \* what the clean branch holds
  fetched   \* what each operation has fetched for the clean branch, or None

branchVars == <<internal, clean, fetched>>

BranchInit ==
  /\ internal = None
  /\ clean = None
  /\ fetched = [o \in Ops |-> None]

PushInternal ==
  /\ internal' \in Contents
  /\ UNCHANGED <<clean, fetched>>

Fetch(o) ==
  /\ internal # None
  /\ fetched[o] = None
  /\ fetched' = [fetched EXCEPT ![o] = internal]
  /\ UNCHANGED <<internal, clean>>

\* The clean branch is pushed, or the operation gives up.
PushFetched(o) ==
  /\ fetched[o] # None
  /\ fetched' = [fetched EXCEPT ![o] = None]
  /\ clean' \in {clean, fetched[o]}
  /\ UNCHANGED internal

BranchNext == PushInternal \/ \E o \in Ops : Fetch(o) \/ PushFetched(o)

BranchSpec == BranchInit /\ [][BranchNext]_branchVars
=============================================================================
