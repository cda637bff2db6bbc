---------------------------- MODULE GitOpsProofs ----------------------------
(***************************************************************************)
(* The branches of a job, command by command: the types, that nothing      *)
(* accumulates, that only a push moves a branch, and that GitOps implements *)
(* Branches, for any number of operations, files and patches.              *)
(***************************************************************************)
EXTENDS GitOps, TLAPS

USE DEF Runs

-----------------------------------------------------------------------------
(* The invariant *)

\* A tree with the work of a single patch on the content of the failing SHA.
Single(tree) == [p \in Paths |-> tree[p]] \in SinglePatches

\* A branch is missing, or one commit of a single patch away from that SHA.
Sound(c) == c # None => c.depth = 1 /\ Single(c.tree)

\* The files of the repository as they were, whatever the patch file is.
Untouched(s) == \A p \in Paths : s.work[p] = Original

\* The working tree of an operation that has not failed, ready to commit: of a
\* push, its patch on the failing SHA; of a clean one, the tip it has fetched.
Written(s) ==
  \/ /\ s.kind = "push"
     /\ s.patch \in Patches
     /\ \A p \in Paths :
          s.work[p] = (IF p \in s.touched THEN s.patch ELSE Original)
  \/ /\ s.kind = "clean"
     /\ s.remote # None
     /\ Single(s.remote.tree)
     /\ s.work = s.remote.tree

\* How far an operation is.
OpSound(s) ==
  /\ s.pc \in {"patch", "apply", "3way", "tree", "add"} => s.head = Base
  /\ s.pc \in {"patch", "apply", "3way"} =>
       s.kind = "push" /\ s.patch \in Patches /\ Untouched(s)
  /\ s.pc = "tree" =>
       s.kind = "clean" /\ s.remote # None /\ Single(s.remote.tree)
  /\ s.pc \in {"add", "push"} => Written(s)
  /\ s.pc = "push" => s.head.depth = 1 /\ s.head.tree = s.work

GitInv ==
  /\ GitTypeOK
  /\ \A o \in Ops : OpSound(op[o])
  /\ Sound(internal)
  /\ Sound(clean)

-----------------------------------------------------------------------------
(* Trees *)

LEMMA BaseIsCommit == Base \in Commits /\ BaseTree \in Trees
  BY DEF Base, BaseTree, Commits, Trees

\* The patch on the failing SHA makes a single patch.
LEMMA WrittenIsSingle ==
  ASSUME NEW s \in OpStates, Written(s)
  PROVE  Single(s.work)
  <1>1. CASE s.kind = "clean"
    BY <1>1 DEF Written
  <1>2. CASE s.kind # "clean"
    <2>1. [p \in Paths |-> s.work[p]] =
            [p \in Paths |-> IF p \in s.touched THEN s.patch ELSE Original]
      BY <1>2 DEF Written
    <2>2. s.touched \in SUBSET Paths /\ s.patch \in Patches
      BY <1>2 DEF Written, OpStates
    <2> QED BY <2>1, <2>2 DEF Single, SinglePatches
  <1> QED BY <1>1, <1>2

\* A commit has a content, and one of a single patch is none but what Branches
\* calls a content.
LEMMA ContentOfCommit ==
  ASSUME NEW c, c # None, Single(c.tree)
  PROVE  Content(c) \in SinglePatches /\ Content(c) # None
  <1>1. Content(c) = [p \in Paths |-> c.tree[p]]
    BY DEF Content
  <1>2. SinglePatches \subseteq [Paths -> Patches \union {Original}]
    BY DEF SinglePatches
  <1> QED BY <1>1, <1>2, NoneAssumption DEF Single

\* All paths that a single patch has changed hold it.
LEMMA SingleHoldsOnePatch ==
  ASSUME NEW tree, Single(tree), NEW p \in Changed(tree), NEW q \in Changed(tree)
  PROVE  tree[p] = tree[q]
  <1>1. PICK touched \in SUBSET Paths, patch \in Patches :
          [r \in Paths |-> tree[r]] =
            [r \in Paths |-> IF r \in touched THEN patch ELSE Original]
    BY DEF Single, SinglePatches
  <1>2. \A r \in Paths :
          tree[r] = (IF r \in touched THEN patch ELSE Original)
    <2> TAKE r \in Paths
    <2> QED BY <1>1, Zenon
  <1> QED BY <1>2 DEF Changed

\* A patched tree is a tree, and holds the patch where it touches.
LEMMA PatchedTree ==
  ASSUME NEW s \in OpStates, s.patch \in Patches, Untouched(s)
  PROVE  /\ Patched(s) \in Trees
         /\ \A p \in Paths : Patched(s)[p] =
              (IF p \in s.touched THEN s.patch ELSE Original)
  BY DEF OpStates, Trees, Patched, Untouched

-----------------------------------------------------------------------------
(* Each step keeps the invariant *)

\* An operation that goes on soundly, with GitHub as it was.
LEMMA ContinuesSoundly ==
  ASSUME GitInv, NEW o \in Ops, NEW state \in OpStates, OpSound(state),
         Continues(o, state)
  PROVE  GitInv'
  <1>1. GitTypeOK'
    BY DEF GitInv, GitTypeOK, Continues
  <1>2. \A p \in Ops : OpSound(op'[p])
    BY DEF GitInv, GitTypeOK, Continues
  <1> QED BY <1>1, <1>2 DEF GitInv, Continues

\* An operation starts from the failing SHA, whatever GitHub has.
LEMMA CloneSound ==
  ASSUME GitInv, NEW o \in Ops, NEW kind \in {"push", "clean"},
         NEW patch \in Patches \union {None}, NEW touched \in SUBSET Paths,
         kind = "push" => patch \in Patches,
         kind = "clean" => internal # None,
         Clone(o, kind, patch, touched)
  PROVE  GitInv'
  <1> DEFINE state ==
        [pc |-> IF kind = "push" THEN "patch" ELSE "tree", kind |-> kind,
         patch |-> patch, touched |-> touched, head |-> Base,
         work |-> BaseTree, remote |-> internal, tmpdir |-> TRUE]
  <1>1. op' = [op EXCEPT ![o] = state]
    BY DEF Clone, StartPoint, Base
  <1>2. state \in OpStates
    BY BaseIsCommit DEF OpStates, GitInv, GitTypeOK
  <1>3. OpSound(state)
    BY PatchFileAssumption
       DEF OpSound, Untouched, BaseTree, GitInv, Sound
  <1> HIDE DEF state
  <1>4. GitTypeOK'
    <2>1. started' \in 0 .. MaxOps
      BY MaxOpsAssumption DEF GitInv, GitTypeOK, Clone
    <2> QED BY <1>1, <1>2, <2>1 DEF GitInv, GitTypeOK, Clone
  <1>5. \A p \in Ops : OpSound(op'[p])
    BY <1>1, <1>3 DEF GitInv, GitTypeOK
  <1> QED BY <1>4, <1>5 DEF GitInv, Clone

LEMMA WritePatchSound ==
  ASSUME GitInv, NEW o \in Ops, WritePatch(o)
  PROVE  GitInv'
  <1> DEFINE state == [op[o] EXCEPT !.pc = "apply",
                                    !.work[PatchFile] = op[o].patch]
  <1>1. op[o] \in OpStates /\ OpSound(op[o]) /\ op[o].pc = "patch"
    BY DEF GitInv, GitTypeOK, WritePatch
  <1>2. state \in OpStates
    BY <1>1 DEF OpStates, Trees, OpSound
  <1>3. Untouched(state)
    BY <1>1, PatchFileAssumption DEF OpStates, Trees, OpSound, Untouched
  <1>4. OpSound(state)
    BY <1>1, <1>3 DEF OpStates, OpSound
  <1> QED BY <1>2, <1>4, ContinuesSoundly DEF WritePatch

LEMMA ApplyPlainSound ==
  ASSUME GitInv, NEW o \in Ops, ApplyPlain(o)
  PROVE  GitInv'
  <1> DEFINE applied == [op[o] EXCEPT !.pc = "add", !.work = Patched(op[o])]
             refused == [op[o] EXCEPT !.pc = "3way"]
  <1>1. op[o] \in OpStates /\ OpSound(op[o]) /\ op[o].pc = "apply"
    BY DEF GitInv, GitTypeOK, ApplyPlain
  <1>2. applied \in OpStates /\ OpSound(applied)
    BY <1>1, PatchedTree DEF OpStates, OpSound, Written
  <1>3. refused \in OpStates /\ OpSound(refused)
    BY <1>1 DEF OpStates, OpSound, Untouched
  <1> QED BY <1>2, <1>3, ContinuesSoundly DEF ApplyPlain

LEMMA ApplyThreeWaySound ==
  ASSUME GitInv, NEW o \in Ops, ApplyThreeWay(o)
  PROVE  GitInv'
  <1> DEFINE work == [Patched(op[o]) EXCEPT ![PatchFile] = Absent]
             applied == [op[o] EXCEPT !.pc = "add", !.work = work]
             refused == [op[o] EXCEPT !.pc = "finally",
                                      !.work[PatchFile] = Absent]
  <1>1. op[o] \in OpStates /\ OpSound(op[o]) /\ op[o].pc = "3way"
    BY DEF GitInv, GitTypeOK, ApplyThreeWay
  <1>2. /\ Patched(op[o]) \in Trees
        /\ \A p \in Paths : Patched(op[o])[p] =
             (IF p \in op[o].touched THEN op[o].patch ELSE Original)
    BY <1>1, PatchedTree DEF OpSound
  <1>3. /\ work \in Trees
        /\ \A p \in Paths : work[p] =
             (IF p \in op[o].touched THEN op[o].patch ELSE Original)
    BY <1>2, PatchFileAssumption DEF Trees
  <1>4. applied \in OpStates /\ OpSound(applied)
    <2> HIDE DEF work
    <2> QED BY <1>1, <1>3 DEF OpStates, OpSound, Written
  <1>5. refused \in OpStates /\ OpSound(refused)
    BY <1>1 DEF OpStates, Trees, OpSound
  <1> QED BY <1>4, <1>5, ContinuesSoundly DEF ApplyThreeWay

LEMMA ReadTreeSound ==
  ASSUME GitInv, NEW o \in Ops, ReadTree(o)
  PROVE  GitInv'
  <1> DEFINE state == [op[o] EXCEPT !.pc = "add", !.work = op[o].remote.tree]
  <1>1. op[o] \in OpStates /\ OpSound(op[o]) /\ op[o].pc = "tree"
    BY DEF GitInv, GitTypeOK, ReadTree
  <1>2. op[o].remote.tree \in Trees
    BY <1>1 DEF OpStates, OpSound, Commits
  <1>3. state \in OpStates /\ OpSound(state)
    BY <1>1, <1>2 DEF OpStates, OpSound, Written
  <1> QED BY <1>3, ContinuesSoundly DEF ReadTree

LEMMA CommitAllSound ==
  ASSUME GitInv, NEW o \in Ops, CommitAll(o)
  PROVE  GitInv'
  <1> DEFINE s == op[o]
             commit == [tree |-> s.work, depth |-> s.head.depth + 1]
             committed == [s EXCEPT !.pc = "push", !.head = commit]
             nothing == [s EXCEPT !.pc = "finally"]
  <1>1. s \in OpStates /\ OpSound(s) /\ s.pc = "add"
    BY DEF GitInv, GitTypeOK, CommitAll
  <1>2. commit \in Commits /\ commit.depth = 1 /\ commit.tree = s.work
    BY <1>1 DEF OpStates, OpSound, Commits, Base
  <1>3. committed \in OpStates /\ OpSound(committed)
    <2> HIDE DEF commit
    <2> QED BY <1>1, <1>2 DEF OpStates, OpSound, Written
  <1>4. nothing \in OpStates /\ OpSound(nothing)
    BY <1>1 DEF OpStates, OpSound
  <1> QED BY <1>3, <1>4, ContinuesSoundly DEF CommitAll

\* What an operation pushes is one commit of a single patch.
LEMMA PushedIsSound ==
  ASSUME GitInv, NEW o \in Ops, op[o].pc = "push"
  PROVE  /\ op[o].head \in Commits
         /\ op[o].head.depth = 1
         /\ op[o].head.tree = op[o].work
         /\ Single(op[o].work)
  BY WrittenIsSingle DEF GitInv, GitTypeOK, OpStates, OpSound

LEMMA PushBranchSound ==
  ASSUME GitInv, NEW o \in Ops, PushBranch(o)
  PROVE  GitInv'
  <1> DEFINE state == [op[o] EXCEPT !.pc = "finally"]
  <1>1. op[o] \in OpStates /\ op[o].pc = "push"
    BY DEF GitInv, GitTypeOK, PushBranch
  <1>2. state \in OpStates /\ OpSound(state)
    BY <1>1 DEF OpStates, OpSound
  <1>3. op' = [op EXCEPT ![o] = state]
    BY DEF PushBranch
  <1>4. GitTypeOK'
    BY <1>1, <1>2, <1>3, PushedIsSound DEF GitInv, GitTypeOK, PushBranch
  <1>5. \A p \in Ops : OpSound(op'[p])
    <2> HIDE DEF state
    <2> QED BY <1>2, <1>3 DEF GitInv, GitTypeOK
  <1>6. Sound(internal') /\ Sound(clean')
    BY <1>1, PushedIsSound DEF GitInv, PushBranch, Sound
  <1> QED BY <1>4, <1>5, <1>6 DEF GitInv

LEMMA EndsSound ==
  ASSUME GitInv, NEW o \in Ops, CommandFails(o) \/ Finally(o)
  PROVE  GitInv'
  <1> DEFINE failed == [op[o] EXCEPT !.pc = "finally"]
  <1>1. op[o] \in OpStates
    BY DEF GitInv, GitTypeOK
  <1>2. failed \in OpStates /\ OpSound(failed)
    BY <1>1 DEF OpStates, OpSound
  <1>3. Idle \in OpStates /\ OpSound(Idle)
    BY BaseIsCommit DEF Idle, OpStates, OpSound
  <1> QED BY <1>2, <1>3, ContinuesSoundly DEF CommandFails, Finally

LEMMA GitInvInit == GitInit => GitInv
  <1>1. Idle \in OpStates /\ OpSound(Idle)
    BY BaseIsCommit DEF Idle, OpStates, OpSound
  <1> QED BY <1>1, MaxOpsAssumption DEF GitInit, GitInv, GitTypeOK, Sound

LEMMA GitInvStep == GitInv /\ [GitNext]_gitVars => GitInv'
  <1> SUFFICES ASSUME GitInv, [GitNext]_gitVars
               PROVE  GitInv'
    OBVIOUS
  <1>1. CASE UNCHANGED gitVars
    BY <1>1 DEF gitVars, GitInv, GitTypeOK
  <1>2. CASE \E o \in Ops : StartPush(o)
    BY <1>2, CloneSound DEF StartPush
  <1>3. CASE \E o \in Ops : StartClean(o)
    BY <1>3, CloneSound DEF StartClean
  <1>4. CASE \E o \in Ops : GitStep(o)
    BY <1>4, WritePatchSound, ApplyPlainSound, ApplyThreeWaySound,
       ReadTreeSound, CommitAllSound, PushBranchSound, EndsSound DEF GitStep
  <1> QED BY <1>1, <1>2, <1>3, <1>4 DEF GitNext

THEOREM GitInvHolds == GitSpec => []GitInv
  BY GitInvInit, GitInvStep, PTL DEF GitSpec

\* git_ops.py:79-237, every clone, index and branch keeps its type, for any
\* number of operations at once.
THEOREM GitTypesHold == GitSpec => []GitTypeOK
  BY GitInvHolds, PTL DEF GitInv

\* git_ops.py:130-131, whatever was pushed before, overlaps or fails, a branch
\* is one commit on the failing SHA with the work of a single patch.
THEOREM NothingAccumulates == GitSpec => []NoAccumulation
  <1>1. GitInv => NoAccumulation
    BY SingleHoldsOnePatch DEF GitInv, Sound, NoAccumulation
  <1> QED BY <1>1, GitInvHolds, PTL
-----------------------------------------------------------------------------
(* Only a push moves a branch *)

LEMMA BranchesMoveByPush ==
  ASSUME GitInv, [GitNext]_gitVars, internal' # internal
  PROVE  \E o \in Ops : PushBranch(o) /\ op[o].kind = "push"
                        /\ internal' = op[o].head
  BY DEF GitNext, StartPush, StartClean, Clone, GitStep, Continues, WritePatch,
         ApplyPlain, ApplyThreeWay, ReadTree, CommitAll, PushBranch,
         CommandFails, Finally, gitVars

\* git_ops.py:92-95, no operation that fails, nor one for the clean branch,
\* moves the internal branch; a push replaces it by its own complete commit.
THEOREM PushesMoveInternal == GitSpec => OnlyPushMoves
  <1>1. ASSUME GitInv, [GitNext]_gitVars, internal' # internal
        PROVE  \E o \in Ops :
                 /\ op[o].kind = "push"
                 /\ internal'.tree = op[o].work
                 /\ Changed(internal'.tree) \subseteq op[o].touched
    <2>1. PICK o \in Ops : PushBranch(o) /\ op[o].kind = "push"
                           /\ internal' = op[o].head
      BY <1>1, BranchesMoveByPush
    <2>2. op[o].pc = "push" /\ Written(op[o]) /\ op[o].head.tree = op[o].work
      BY <1>1, <2>1 DEF PushBranch, GitInv, OpSound
    <2>3. \A p \in Paths :
            op[o].work[p] = (IF p \in op[o].touched THEN op[o].patch
                                                    ELSE Original)
      BY <2>1, <2>2 DEF Written
    <2> QED BY <2>1, <2>2, <2>3 DEF Changed
  <1>2. GitInv /\ [GitNext]_gitVars =>
          (internal' # internal =>
             \E o \in Ops : /\ op[o].kind = "push"
                            /\ internal'.tree = op[o].work
                            /\ Changed(internal'.tree) \subseteq op[o].touched)
    BY <1>1
  <1> QED BY <1>2, GitInvHolds, PTL DEF GitSpec, OnlyPushMoves

-----------------------------------------------------------------------------
(* The commands implement Branches *)

\* What operation o has fetched, in the terms of Branches.
FetchedBy(s) ==
  IF s.kind = "clean" /\ s.pc \in {"tree", "add", "push"}
  THEN Content(s.remote) ELSE None

Fetches == [o \in Ops |-> FetchedBy(op[o])]

USE DEF AsBranches!branchVars, AsBranches!BranchNext

\* A step of operation o alone changes what o has fetched, and nothing else.
LEMMA FetchesChange ==
  ASSUME GitInv, NEW o \in Ops, NEW state, op' = [op EXCEPT ![o] = state]
  PROVE  Fetches' = [Fetches EXCEPT ![o] = FetchedBy(state)]
  BY DEF GitInv, GitTypeOK, Fetches, FetchedBy

\* An operation that goes on with what it has fetched does nothing in the
\* terms of Branches; one that lets go of it has given up.
LEMMA ContinuesAsBranches ==
  ASSUME GitInv, NEW o \in Ops, NEW state, Continues(o, state),
         FetchedBy(state) \in {FetchedBy(op[o]), None}
  PROVE  [AsBranches!BranchNext]_(AsBranches!branchVars)
  <1>1. Fetches' = [Fetches EXCEPT ![o] = FetchedBy(state)]
    BY FetchesChange DEF Continues
  <1>2. Content(internal)' = Content(internal) /\ Content(clean)' = Content(clean)
    BY DEF Continues, Content
  <1>3. CASE FetchedBy(state) = FetchedBy(op[o])
    <2>1. Fetches' = Fetches
      BY <1>1, <1>3 DEF Fetches
    <2> QED BY <1>2, <2>1 DEF Fetches, FetchedBy
  <1>4. CASE FetchedBy(state) = None /\ FetchedBy(op[o]) # None
    <2>1. AsBranches!PushFetched(o)
      BY <1>1, <1>2, <1>4 DEF AsBranches!PushFetched, Fetches, FetchedBy
    <2> QED BY <2>1
  <1> QED BY <1>3, <1>4
LEMMA PushAsBranches ==
  ASSUME GitInv, NEW o \in Ops, PushBranch(o)
  PROVE  [AsBranches!BranchNext]_(AsBranches!branchVars)
  <1> DEFINE state == [op[o] EXCEPT !.pc = "finally"]
  <1>1. /\ op[o] \in OpStates /\ OpSound(op[o]) /\ op[o].pc = "push"
        /\ op' = [op EXCEPT ![o] = state]
    BY DEF GitInv, GitTypeOK, PushBranch
  <1>2. state.pc = "finally"
    BY <1>1 DEF OpStates
  <1> HIDE DEF state
  <1>3. Fetches' = [Fetches EXCEPT ![o] = None]
    BY <1>1, <1>2, FetchesChange DEF FetchedBy
  <1>4. CASE op[o].kind = "push"
    <2>1. Fetches' = Fetches
      BY <1>3, <1>4 DEF Fetches, FetchedBy
    <2>2. internal' = op[o].head /\ clean' = clean
      BY <1>4 DEF PushBranch
    <2>3. Content(internal') \in SinglePatches
      <3>1. op[o].head # None
        BY <1>1, PushedIsSound, NoneAssumption
      <3> QED BY <1>1, <2>2, <3>1, PushedIsSound, ContentOfCommit
    <2>4. AsBranches!PushInternal
      BY <2>1, <2>2, <2>3
         DEF AsBranches!PushInternal, Content, Fetches, FetchedBy
    <2> QED BY <2>4
  <1>5. CASE op[o].kind = "clean"
    <2>1. internal' = internal /\ clean' = op[o].head
      BY <1>5 DEF PushBranch
    <2>2. /\ op[o].remote # None /\ Single(op[o].remote.tree)
          /\ op[o].head.tree = op[o].remote.tree
      BY <1>1, <1>5 DEF OpSound, Written
    <2>3. op[o].head # None
      BY <1>1, PushedIsSound, NoneAssumption
    <2>4. Content(clean') = Content(op[o].remote)
      BY <2>1, <2>2, <2>3 DEF Content
    <2>5. Fetches[o] = Content(op[o].remote) /\ Fetches[o] # None
      BY <1>1, <1>5, <2>2, ContentOfCommit DEF Fetches, FetchedBy
    <2>6. AsBranches!PushFetched(o)
      BY <1>3, <2>1, <2>4, <2>5
         DEF AsBranches!PushFetched, Content, Fetches, FetchedBy
    <2> QED BY <2>6
  <1> QED BY <1>4, <1>5 DEF PushBranch

\* An operation starts with what GitHub has.
LEMMA CloneStarts ==
  ASSUME NEW o \in Ops, NEW kind, NEW patch, NEW touched,
         Clone(o, kind, patch, touched)
  PROVE  /\ op[o].pc = "idle" /\ UNCHANGED <<internal, clean>>
         /\ \E state : /\ op' = [op EXCEPT ![o] = state]
                       /\ state.kind = kind
                       /\ state.pc = (IF kind = "push" THEN "patch" ELSE "tree")
                       /\ state.remote = internal
  <1> DEFINE state ==
        [pc |-> IF kind = "push" THEN "patch" ELSE "tree", kind |-> kind,
         patch |-> patch, touched |-> touched,
         head |-> StartPoint(internal), work |-> StartPoint(internal).tree,
         remote |-> internal, tmpdir |-> TRUE]
  <1>1. /\ state.kind = kind
        /\ state.pc = (IF kind = "push" THEN "patch" ELSE "tree")
        /\ state.remote = internal
    OBVIOUS
  <1>2. op' = [op EXCEPT ![o] = state]
    BY DEF Clone
  <1> HIDE DEF state
  <1> QED BY <1>1, <1>2 DEF Clone

LEMMA StartPushAsBranches ==
  ASSUME GitInv, NEW o \in Ops, StartPush(o)
  PROVE  [AsBranches!BranchNext]_(AsBranches!branchVars)
  <1>1. PICK state : op' = [op EXCEPT ![o] = state] /\ state.kind = "push"
    BY CloneStarts DEF StartPush
  <1>2. op[o].pc = "idle" /\ UNCHANGED <<internal, clean>>
    BY CloneStarts DEF StartPush
  <1>3. FetchedBy(state) = None /\ FetchedBy(op[o]) = None
    BY <1>1, <1>2 DEF FetchedBy
  <1>4. Fetches' = [Fetches EXCEPT ![o] = None]
    BY <1>1, <1>3, FetchesChange
  <1>5. Fetches' = Fetches
    BY <1>3, <1>4 DEF Fetches
  <1> QED BY <1>2, <1>5 DEF Fetches, FetchedBy, Content

LEMMA StartCleanAsBranches ==
  ASSUME GitInv, NEW o \in Ops, StartClean(o)
  PROVE  [AsBranches!BranchNext]_(AsBranches!branchVars)
  <1>1. PICK state : /\ op' = [op EXCEPT ![o] = state]
                     /\ state.kind = "clean" /\ state.pc = "tree"
                     /\ state.remote = internal
    BY CloneStarts DEF StartClean
  <1>2. op[o].pc = "idle" /\ internal # None /\ UNCHANGED <<internal, clean>>
    BY CloneStarts DEF StartClean
  <1>3. FetchedBy(state) = Content(internal) /\ FetchedBy(op[o]) = None
    BY <1>1, <1>2 DEF FetchedBy
  <1>4. Fetches' = [Fetches EXCEPT ![o] = Content(internal)]
    BY <1>1, <1>3, FetchesChange
  <1>5. Fetches[o] = None
    BY <1>3 DEF Fetches
  <1>6. Content(internal) # None
    BY <1>2, ContentOfCommit DEF GitInv, Sound
  <1>7. AsBranches!Fetch(o)
    BY <1>2, <1>4, <1>5, <1>6
       DEF AsBranches!Fetch, Fetches, FetchedBy, Content
  <1> QED BY <1>7

\* Every other step goes on with what was fetched or drops it.
LEMMA GitStepAsBranches ==
  ASSUME GitInv, NEW o \in Ops, GitStep(o)
  PROVE  [AsBranches!BranchNext]_(AsBranches!branchVars)
  <1> DEFINE Keeps(state) == FetchedBy(state) \in {FetchedBy(op[o]), None}
  <1>1. op[o] \in OpStates /\ OpSound(op[o])
    BY DEF GitInv, GitTypeOK
  <1>2. CASE PushBranch(o)
    BY <1>2, PushAsBranches
  <1>3. CASE WritePatch(o)
    <2>1. Keeps([op[o] EXCEPT !.pc = "apply",
                              !.work[PatchFile] = op[o].patch])
      BY <1>1, <1>3 DEF WritePatch, OpStates, OpSound, FetchedBy
    <2> QED BY <1>3, <2>1, ContinuesAsBranches DEF WritePatch
  <1>4. CASE ApplyPlain(o)
    <2>1. /\ Keeps([op[o] EXCEPT !.pc = "add", !.work = Patched(op[o])])
          /\ Keeps([op[o] EXCEPT !.pc = "3way"])
      BY <1>1, <1>4 DEF ApplyPlain, OpStates, OpSound, FetchedBy
    <2> QED BY <1>4, <2>1, ContinuesAsBranches DEF ApplyPlain
  <1>5. CASE ApplyThreeWay(o)
    <2>1. /\ Keeps([op[o] EXCEPT !.pc = "add",
               !.work = [Patched(op[o]) EXCEPT ![PatchFile] = Absent]])
          /\ Keeps([op[o] EXCEPT !.pc = "finally",
                                 !.work[PatchFile] = Absent])
      BY <1>1, <1>5 DEF ApplyThreeWay, OpStates, OpSound, FetchedBy
    <2> QED BY <1>5, <2>1, ContinuesAsBranches DEF ApplyThreeWay
  <1>6. CASE ReadTree(o)
    <2>1. Keeps([op[o] EXCEPT !.pc = "add", !.work = op[o].remote.tree])
      BY <1>1, <1>6 DEF ReadTree, OpStates, FetchedBy
    <2> QED BY <1>6, <2>1, ContinuesAsBranches DEF ReadTree
  <1>7. CASE CommitAll(o)
    <2>1. /\ Keeps([op[o] EXCEPT !.pc = "push",
               !.head = [tree |-> op[o].work, depth |-> op[o].head.depth + 1]])
          /\ Keeps([op[o] EXCEPT !.pc = "finally"])
      BY <1>1, <1>7 DEF CommitAll, OpStates, FetchedBy
    <2> QED BY <1>7, <2>1, ContinuesAsBranches DEF CommitAll
  <1>8. CASE CommandFails(o) \/ Finally(o)
    <2>1. Keeps([op[o] EXCEPT !.pc = "finally"]) /\ Keeps(Idle)
      BY <1>1 DEF OpStates, FetchedBy, Idle
    <2> QED BY <1>8, <2>1, ContinuesAsBranches DEF CommandFails, Finally
  <1> QED BY <1>2, <1>3, <1>4, <1>5, <1>6, <1>7, <1>8 DEF GitStep

\* git_ops.py:79-237, the commands of any number of operations, in any order
\* and failing anywhere, come to the steps of Branches: the clean branch only
\* gets, as a whole, what the internal branch held when it was fetched.
THEOREM CommandsRefineBranches == GitSpec => CommandsImplementBranches
  <1>1. GitInit => AsBranches!BranchInit
    BY DEF GitInit, AsBranches!BranchInit, Content, Idle
  <1>2. GitInv /\ [GitNext]_gitVars =>
          [AsBranches!BranchNext]_(AsBranches!branchVars)
    <2> SUFFICES ASSUME GitInv, [GitNext]_gitVars
                 PROVE  [AsBranches!BranchNext]_(AsBranches!branchVars)
      OBVIOUS
    <2>1. CASE UNCHANGED gitVars
      BY <2>1 DEF gitVars, Content
    <2>2. CASE GitNext
      BY <2>2, StartPushAsBranches, StartCleanAsBranches, GitStepAsBranches
         DEF GitNext
    <2> QED BY <2>1, <2>2
  <1> QED BY <1>1, <1>2, GitInvHolds, PTL
          DEF GitSpec, CommandsImplementBranches, AsBranches!BranchSpec
=============================================================================
