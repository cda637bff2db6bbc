------------------------------- MODULE GitOps -------------------------------
(***************************************************************************)
(* app/pipeline/git_ops.py, command by command: the two operations on the  *)
(* branches of one job, each in a clone of its own in a temporary          *)
(* directory.  Orchestrator sees an operation as its effect on GitHub;     *)
(* here its working tree, its index and the commands that fail matter.     *)
(*                                                                         *)
(* A tree gives every path the patch that wrote it last, Original for the  *)
(* content at the failing SHA, Absent for no file.                         *)
(***************************************************************************)
EXTENDS Integers, FiniteSets

CONSTANTS
  Ops,       \* operations that can run at once, one per worker
  Paths,     \* the files of the repository
  PatchFile, \* .healx.patch, in the root of the clone
  Patches,   \* what the agents propose
  Original, Absent, None,
  MaxOps     \* bound: operations started

ASSUME PatchFileAssumption == PatchFile \notin Paths
ASSUME MaxOpsAssumption == MaxOps \in Nat
ASSUME ContentAssumption ==
  Original \notin Patches /\ Absent \notin Patches /\ Original # Absent

VARIABLES
  op,       \* what each operation runs next, and its clone
  internal, \* healx/internal/run-{id} on GitHub: a commit or None
  clean,    \* healx/fix-{slug} on GitHub: a commit or None
  started   \* operations so far

gitVars == <<op, internal, clean, started>>

Trees == [Paths \union {PatchFile} -> Patches \union {Original, Absent}]

\* A commit: its tree, and how many commits it is away from the failing SHA.
Commits == [tree : Trees, depth : Nat]

ASSUME NoneAssumption ==
  None \notin Commits \union [Paths -> Patches \union {Original}]

BaseTree == [p \in Paths \union {PatchFile} |->
               IF p = PatchFile THEN Absent ELSE Original]

Base == [tree |-> BaseTree, depth |-> 0]

Idle == [pc |-> "idle", kind |-> None, patch |-> None, touched |-> {},
         head |-> Base, work |-> BaseTree, remote |-> None, tmpdir |-> FALSE]

OpStates ==
  [pc : {"idle", "patch", "apply", "3way", "tree", "add", "push", "finally"},
   kind : {"push", "clean", None}, patch : Patches \union {None},
   touched : SUBSET Paths, head : Commits, work : Trees,
   remote : Commits \union {None}, tmpdir : BOOLEAN]

GitTypeOK ==
  /\ op \in [Ops -> OpStates]
  /\ internal \in Commits \union {None}
  /\ clean \in Commits \union {None}
  /\ started \in 0 .. MaxOps

GitInit ==
  /\ op = [o \in Ops |-> Idle]
  /\ internal = None
  /\ clean = None
  /\ started = 0

Runs(o, pc) == op[o].pc = pc

\* Operation o goes on with `state`; nothing on GitHub changes.
Continues(o, state) ==
  /\ op' = [op EXCEPT ![o] = state]
  /\ UNCHANGED <<internal, clean, started>>

\* Variant with a bug: the next attempt starts from the last one.
StartFromTip(remote) == IF remote = None THEN Base ELSE remote

\* The commit the clone's new branch starts from: base_sha.
StartPoint(remote) == Base

\* mkdtemp, clone (and fetch of the internal branch), checkout of the failing
\* SHA, checkout -b: what it keeps of GitHub is the tip it has fetched.
Clone(o, kind, patch, touched) ==
  /\ Runs(o, "idle")
  /\ started < MaxOps
  /\ started' = started + 1
  /\ op' = [op EXCEPT ![o] =
       [pc |-> IF kind = "push" THEN "patch" ELSE "tree", kind |-> kind,
        patch |-> patch, touched |-> touched, head |-> StartPoint(internal),
        work |-> StartPoint(internal).tree, remote |-> internal,
        tmpdir |-> TRUE]]
  /\ UNCHANGED <<internal, clean>>

\* The calls of push_patch_to_internal_branch and of open_clean_fix_pr.
StartPush(o) ==
  \E patch \in Patches : \E touched \in SUBSET Paths :
    Clone(o, "push", patch, touched)

StartClean(o) == internal # None /\ Clone(o, "clean", None, {})

\* The patch is written into the clone.
WritePatch(o) ==
  /\ Runs(o, "patch")
  /\ Continues(o, [op[o] EXCEPT !.pc = "apply",
                                !.work[PatchFile] = op[o].patch])

\* Variants with a bug: the patch is applied outside the paths it names; it
\* leaves conflict markers, which are nobody's content.
PatchedElsewhere(s) ==
  [p \in DOMAIN s.work |-> IF p \in Paths THEN s.patch ELSE s.work[p]]
PatchedWithMarkers(s) ==
  [p \in DOMAIN s.work |-> IF p \in s.touched THEN None ELSE s.work[p]]

\* The working tree with the paths of the patch rewritten.
Patched(s) ==
  [p \in DOMAIN s.work |-> IF p \in s.touched THEN s.patch ELSE s.work[p]]

\* git apply changes every file or none.
ApplyPlain(o) ==
  /\ Runs(o, "apply")
  /\ \/ Continues(o, [op[o] EXCEPT !.pc = "add", !.work = Patched(op[o])])
     \/ Continues(o, [op[o] EXCEPT !.pc = "3way"])

\* git apply --3way; the patch is removed whether it applies or raises.
ApplyThreeWay(o) ==
  /\ Runs(o, "3way")
  /\ \/ Continues(o, [op[o] EXCEPT !.pc = "add",
                        !.work = [Patched(op[o]) EXCEPT ![PatchFile] = Absent]])
     \/ Continues(o, [op[o] EXCEPT !.pc = "finally",
                                   !.work[PatchFile] = Absent])

\* Variant with a bug: only the failing file is taken over.
ReadFile(o) ==
  /\ Runs(o, "tree")
  /\ \E p \in Paths :
       Continues(o, [op[o] EXCEPT !.pc = "add",
                                  !.work[p] = op[o].remote.tree[p]])

\* read-tree -u --reset of the tip that was fetched.
ReadTree(o) ==
  /\ Runs(o, "tree")
  /\ Continues(o, [op[o] EXCEPT !.pc = "add", !.work = op[o].remote.tree])

\* add -A and commit, which fails if there is nothing to commit.
CommitAll(o) ==
  LET s == op[o] IN
  /\ Runs(o, "add")
  /\ \/ /\ s.work # s.head.tree
        /\ Continues(o, [s EXCEPT !.pc = "push",
             !.head = [tree |-> s.work, depth |-> s.head.depth + 1]])
     \/ /\ s.work = s.head.tree
        /\ Continues(o, [s EXCEPT !.pc = "finally"])

\* push --force of the branch.
PushBranch(o) ==
  LET s == op[o] IN
  /\ Runs(o, "push")
  /\ \/ /\ s.kind = "push"
        /\ internal' = s.head
        /\ UNCHANGED clean
     \/ /\ s.kind = "clean"
        /\ clean' = s.head
        /\ UNCHANGED internal
  /\ op' = [op EXCEPT ![o].pc = "finally"]
  /\ UNCHANGED started

\* A git command exits with an error, or the worker's time is up.
CommandFails(o) ==
  /\ op[o].pc \notin {"idle", "finally"}
  /\ Continues(o, [op[o] EXCEPT !.pc = "finally"])

\* The temporary directory is removed, and the operation returns or raises.
Finally(o) == Runs(o, "finally") /\ Continues(o, Idle)

GitStep(o) ==
  \/ WritePatch(o)
  \/ ApplyPlain(o)
  \/ ApplyThreeWay(o)
  \/ ReadTree(o)
  \/ CommitAll(o)
  \/ PushBranch(o)
  \/ CommandFails(o)
  \/ Finally(o)

GitNext == \E o \in Ops : StartPush(o) \/ StartClean(o) \/ GitStep(o)

GitSpec == GitInit /\ [][GitNext]_gitVars

-----------------------------------------------------------------------------
(* Properties *)

\* The paths a tree has changed.
Changed(tree) == {p \in Paths : tree[p] # Original}

\* git_ops.py:130-131 and README.md:87, each attempt is one commit on the
\* failing SHA: whatever was pushed before, and however operations overlap,
\* the branch has a depth of one and holds the work of a single patch.
NoAccumulation ==
  \A c \in {internal, clean} \ {None} :
    /\ c.depth = 1
    /\ \A p, q \in Changed(c.tree) : c.tree[p] = c.tree[q]

\* git_ops.py:92-95, the internal branch moves in one step from a commit to
\* a complete one, and no failed operation moves it.
OnlyPushMoves ==
  [][internal' # internal =>
       \E o \in Ops : /\ op[o].kind = "push"
                      /\ internal'.tree = op[o].work
                      /\ Changed(internal'.tree) \subseteq op[o].touched]_gitVars

\* What a commit holds of the repository's files, and what the attempts can
\* make of them: a single patch on the content of the failing SHA.
Content(c) == IF c = None THEN None ELSE [p \in Paths |-> c.tree[p]]

SinglePatches ==
  {[p \in Paths |-> IF p \in touched THEN patch ELSE Original] :
     touched \in SUBSET Paths, patch \in Patches}

AsBranches == INSTANCE Branches WITH
  Contents <- SinglePatches,
  internal <- Content(internal),
  clean <- Content(clean),
  fetched <- [o \in Ops |->
    IF op[o].kind = "clean" /\ op[o].pc \in {"tree", "add", "push"}
    THEN Content(op[o].remote) ELSE None]

\* git_ops.py:79-237 and README.md:119, the commands come to what Branches says
\* of the two operations: the clean branch gets, as a whole, what the internal
\* branch held at the fetch, whichever commands fail and even if the internal
\* branch is pushed meanwhile.
CommandsImplementBranches == AsBranches!BranchSpec

\* git_ops.py:5-9, "the internal branch always contains exactly the current
\* attempt": nothing but the files of the repository.
OnlyTheAttempt == internal # None => internal.tree[PatchFile] = Absent
=============================================================================
