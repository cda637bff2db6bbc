------------------------------ MODULE PRProofs ------------------------------
(***************************************************************************)
(* Proof that a pull request has a green CI run behind it, for every set   *)
(* of faults and any number of overlapping repairs.  A green run stays     *)
(* green and the internal branch only moves on to later patches; a clean   *)
(* branch can be pushed over, but only by a worker with a green run of the *)
(* same job.                                                               *)
(*                                                                         *)
(* And proof that the pull request a job names is one that exists, and     *)
(* that the workers use the branches of every job as Branches has it: a    *)
(* repair, however it overlaps with others, replaces the internal branch,  *)
(* or moves what that branch holds to a clean branch.                      *)
(***************************************************************************)
EXTENDS HealXProofs

\* The inductive invariant, relative to Inv of HealXProofs.
PRInv == GreenIsCarried /\ PRBacked

-----------------------------------------------------------------------------
(* What is green stays green *)

LEMMA BackedStays ==
  ASSUME NEW j, NEW p, Backed(j, p), green \subseteq green'
  PROVE  Backed(j, p)'
  BY DEF Backed

LEMMA TruthfulStays ==
  ASSUME NEW t, Truthful(t), green \subseteq green'
  PROVE  Truthful(t)'
  BY DEF Truthful, GreenTask

\* A worker that does nothing keeps what backs it: no other step takes away
\* its verdict, and its own session fixes the branch it is about.
LEMMA BystanderBacked ==
  ASSUME NEW v \in Workers, WorkerIsBacked(v), worker'[v] = worker[v],
         green \subseteq green',
         worker[v].pc = "cleaned" =>
           Backed(JobOf(v), clean'[JobOf(v)][CleanType(v)])
  PROVE  WorkerIsBacked(v)'
  <1>1. worker[v].pc # "idle" => Truthful(worker[v].task)'
    BY TruthfulStays DEF WorkerIsBacked
  <1>2. worker[v].pc = "fetched" => Backed(worker[v].task.job, worker[v].patch)'
    BY DEF WorkerIsBacked, Backed, JobOf
  <1>3. CASE worker[v].pc = "cleaned"
    <2>1. worker[v].loaded # None
      BY <1>3 DEF WorkerIsBacked
    <2>2. /\ JobOf(v)' = JobOf(v)
          /\ CleanType(v)' = CleanType(v)
      BY <2>1 DEF JobOf, CleanType, JobRow
    <2>3. PICK r \in green : r.job = JobOf(v)
                             /\ r.patch <= clean'[JobOf(v)][CleanType(v)]
      BY <1>3 DEF Backed
    <2>4. r \in green'
      BY <2>3
    <2> QED BY <1>1, <1>3, <2>2, <2>3, <2>4 DEF WorkerIsBacked, Backed
  <1> QED BY <1>1, <1>2, <1>3 DEF WorkerIsBacked, Backed, JobOf

\* A worker moves, and GitHub and the queue stay.
LEMMA WorkerStepsPR ==
  ASSUME Inv, PRInv, NEW w \in Workers,
         worker' = [worker EXCEPT ![w] = worker'[w]],
         WorkerIsBacked(w)',
         UNCHANGED <<queue, patches, tip, clean, prs, running, green>>
  PROVE  PRInv'
  <1>1. RunsAreOnBranch'
    BY DEF PRInv, GreenIsCarried, RunsAreOnBranch
  <1>2. TasksAreTrue'
    BY DEF PRInv, GreenIsCarried, TasksAreTrue, Truthful
  <1>3. ASSUME NEW v \in Workers PROVE WorkerIsBacked(v)'
    <2>1. CASE v = w
      BY <2>1
    <2>2. CASE v # w
      <3>1. worker'[v] = worker[v]
        BY <2>2 DEF Inv, TypeOK
      <3>2. WorkerIsBacked(v)
        BY DEF PRInv, GreenIsCarried
      <3> QED BY <3>1, <3>2, BystanderBacked DEF WorkerIsBacked
    <2> QED BY <2>1, <2>2
  <1>4. PRBacked'
    BY DEF PRInv, PRBacked, Backed
  <1> QED BY <1>1, <1>2, <1>3, <1>4 DEF PRInv, GreenIsCarried

\* A worker moves, but not on the way to a pull request.
LEMMA QuietStep ==
  ASSUME Inv, PRInv, NEW w \in Workers,
         worker' = [worker EXCEPT ![w] = worker'[w]],
         worker'[w].pc \notin {"green", "fetched", "cleaned"},
         \/ worker'[w].pc = "idle"
         \/ worker[w].pc # "idle" /\ worker'[w].task = worker[w].task,
         UNCHANGED <<queue, patches, tip, clean, prs, running, green>>
  PROVE  PRInv'
  <1>1. WorkerIsBacked(w)'
    BY DEF PRInv, GreenIsCarried, WorkerIsBacked, Truthful
  <1> QED BY <1>1, WorkerStepsPR

\* The workers stay; runs end or are pushed over, tasks are appended.
LEMMA WorkersStayPR ==
  ASSUME Inv, PRInv, UNCHANGED <<worker, patches, tip, clean, prs>>,
         green \subseteq green',
         running' \union green' \subseteq running \union green,
         TasksAreTrue'
  PROVE  PRInv'
  <1>1. RunsAreOnBranch'
    BY DEF PRInv, GreenIsCarried, RunsAreOnBranch
  <1>2. ASSUME NEW v \in Workers PROVE WorkerIsBacked(v)'
    <2>1. WorkerIsBacked(v)
      BY DEF PRInv, GreenIsCarried
    <2> QED BY <2>1, BystanderBacked DEF WorkerIsBacked
  <1>3. PRBacked'
    BY DEF PRInv, PRBacked, Backed
  <1> QED BY <1>1, <1>2, <1>3 DEF PRInv, GreenIsCarried

LEMMA QueueStaysTrue ==
  ASSUME PRInv, UNCHANGED queue, green \subseteq green'
  PROVE  TasksAreTrue'
  BY DEF PRInv, GreenIsCarried, TasksAreTrue, Truthful

LEMMA EnqueuedIsTrue ==
  ASSUME Inv, PRInv, NEW t \in Tasks, Truthful(t), queue' = Append(queue, t),
         UNCHANGED green
  PROVE  TasksAreTrue'
  <1>1. \A i \in DOMAIN queue' :
          queue'[i] = t \/ (i \in DOMAIN queue /\ queue'[i] = queue[i])
    BY DEF Inv, TypeOK
  <1>2. Truthful(t)' /\ \A i \in DOMAIN queue : Truthful(queue[i])
    BY DEF PRInv, GreenIsCarried, TasksAreTrue, Truthful
  <1> QED
    BY <1>1, <1>2 DEF TasksAreTrue, Truthful

-----------------------------------------------------------------------------
(* The steps that nothing depends on *)

\* The end of a task.
LEMMA DonePR ==
  ASSUME Inv, PRInv, NEW w \in Workers, Done(w),
         UNCHANGED <<queue, patches, tip, clean, prs, running, green>>
  PROVE  PRInv'
  BY DoneMoves, QuietStep DEF IdleWorker

\* A worker that turns to a run that is not green, to the agents or to the
\* escalation comment.
LEMMA QuietWorkersPR ==
  ASSUME Inv, PRInv, NEW w \in Workers,
         \/ StartInitial(w) \/ StartExhausted(w) \/ StartRed(w)
         \/ StampRed(w) \/ ReadRetries(w) \/ BumpRetry(w)
  PROVE  PRInv'
  <1>1. /\ worker[w].pc # "idle"
        /\ UNCHANGED <<queue, patches, tip, clean, prs, running, green>>
    BY DEF StartInitial, StartExhausted, StartRed, StampRed, ReadRetries, BumpRetry,
           Completes, At, dbVars, redisVars, repoVars, ciVars
  <1>2. worker \in [Workers -> WorkerStates]
    BY DEF Inv, TypeOK
  <1>3. PICK pc \in {"graph", "escalate", "red", "bump", "count"} :
          /\ worker' = [worker EXCEPT ![w] = worker'[w]]
          /\ worker'[w].pc = pc
          /\ worker'[w].task = worker[w].task
    <2>1. CASE StartInitial(w) \/ StartExhausted(w) \/ StartRed(w)
      BY <1>2, <2>1
      DEF StartInitial, StartExhausted, StartRed, Goto, WorkerStates
    <2>2. CASE StampRed(w)
      BY <1>2, <2>2 DEF StampRed, Goto, WorkerStates
    <2>3. CASE ReadRetries(w) \/ BumpRetry(w)
      BY <2>3, ReadRetriesShape, BumpRetryShape
    <2> QED BY <2>1, <2>2, <2>3
  <1> QED BY <1>1, <1>3, QuietStep

\* A worker that drops out, records an attempt, gives up or dies.
LEMMA EndingWorkersPR ==
  ASSUME Inv, PRInv, NEW w \in Workers, NEW ft \in FailureTypes,
         \/ DropOut(w, ft) \/ RecordAttempt(w) \/ CommitPR(w) \/ Escalate(w)
         \/ Raise(w) \/ WorkerCrashes(w)
  PROVE  PRInv'
  <1>1. /\ Done(w)
        /\ UNCHANGED <<queue, patches, tip, clean, prs, running, green>>
    BY DEF DropOut, RecordAttempt, CommitPR, Escalate, Raise, WorkerCrashes,
           dbVars, redisVars, repoVars, ciVars
  <1> QED BY <1>1, DonePR

\* A patch that git rejects uses up a number and moves no branch.
LEMMA RejectPatchPR ==
  ASSUME Inv, PRInv, NEW w \in Workers, NEW ft \in FailureTypes,
         RejectPatch(w, ft)
  PROVE  PRInv'
  <1>1. /\ Done(w)
        /\ UNCHANGED <<queue, tip, clean, prs, running, green>>
    BY DEF RejectPatch, redisVars, ciVars
  <1>2. RunsAreOnBranch'
    <2>1. /\ patches \in [Jobs -> Nat] /\ tip \in [Jobs -> Nat]
          /\ JobOf(w) \in Jobs
      BY WorkersJob DEF RejectPatch, At, Inv, TypeOK
    <2>2. patches' = [patches EXCEPT ![JobOf(w)] = patches[JobOf(w)] + 1]
      BY DEF RejectPatch
    <2>3. \A j \in Jobs : patches[j] <= patches'[j]
      BY <2>1, <2>2
    <2>4. \A j \in Jobs : tip[j] <= patches'[j]
      BY <2>1, <2>2 DEF PRInv, GreenIsCarried, RunsAreOnBranch
    <2> QED BY <1>1, <2>4 DEF PRInv, GreenIsCarried, RunsAreOnBranch
  <1>3. TasksAreTrue'
    BY <1>1, QueueStaysTrue
  <1>4. ASSUME NEW v \in Workers PROVE WorkerIsBacked(v)'
    <2>1. CASE v = w
      BY <1>1, <2>1, DoneMoves DEF WorkerIsBacked
    <2>2. CASE v # w
      <3>1. worker'[v] = worker[v] /\ WorkerIsBacked(v)
        BY <1>1, <2>2 DEF Done, Inv, TypeOK, PRInv, GreenIsCarried
      <3> QED BY <1>1, <3>1, BystanderBacked DEF WorkerIsBacked
    <2> QED BY <2>1, <2>2
  <1>5. PRBacked'
    BY <1>1 DEF PRInv, PRBacked, Backed
  <1> QED BY <1>2, <1>3, <1>4, <1>5 DEF PRInv, GreenIsCarried

-----------------------------------------------------------------------------
(* From the push to the pull request *)

\* The queue hands its verdict over.
LEMMA TakeTaskPR ==
  ASSUME Inv, PRInv, NEW w \in Workers, TakeTask(w)
  PROVE  PRInv'
  <1>1. /\ queue \in Seq(Tasks) /\ queue # <<>> /\ queue' = Tail(queue)
        /\ UNCHANGED <<patches, tip, clean, prs, running, green>>
    BY DEF TakeTask, repoVars, ciVars, Inv, TypeOK
  <1> PICK t : t = Head(queue)
    OBVIOUS
  <1>2. /\ t = queue[1] /\ 1 \in DOMAIN queue
        /\ \A i \in DOMAIN queue' : i + 1 \in DOMAIN queue
                                    /\ queue'[i] = queue[i + 1]
    BY <1>1
  <1>3. Truthful(t)' /\ TasksAreTrue'
    BY <1>1, <1>2 DEF PRInv, GreenIsCarried, TasksAreTrue, Truthful
  <1>4. worker'[w].pc = "start" /\ worker'[w].task = t
    BY DEF TakeTask, Inv, TypeOK, WorkerStates
  <1>5. RunsAreOnBranch'
    BY <1>1 DEF PRInv, GreenIsCarried, RunsAreOnBranch
  <1>6. ASSUME NEW v \in Workers PROVE WorkerIsBacked(v)'
    <2>1. CASE v = w
      BY <1>1, <1>3, <1>4, <2>1 DEF WorkerIsBacked, Truthful
    <2>2. CASE v # w
      <3>1. worker'[v] = worker[v] /\ WorkerIsBacked(v)
        BY <2>2 DEF TakeTask, Inv, TypeOK, PRInv, GreenIsCarried
      <3> QED BY <1>1, <3>1, BystanderBacked DEF WorkerIsBacked
    <2> QED BY <2>1, <2>2
  <1>7. PRBacked'
    BY <1>1 DEF PRInv, PRBacked, Backed
  <1> QED BY <1>3, <1>5, <1>6, <1>7 DEF PRInv, GreenIsCarried

\* Only a success verdict leads to _finalize_success, and the session it
\* opens has read the job.
LEMMA StartGreenPR ==
  ASSUME Inv, PRInv, NEW w \in Workers, StartGreen(w)
  PROVE  PRInv'
  <1>1. /\ worker[w].pc = "start"
        /\ GreenTask(worker[w].task)
        /\ UNCHANGED <<queue, patches, tip, clean, prs, running, green>>
    BY DEF StartGreen, Completes, At, GreenTask, redisVars, repoVars, ciVars
  <1>2. worker[w] \in WorkerStates /\ job[JobOf(w)] \in Row
    BY <1>1, WorkersJob DEF Inv
  <1>3. /\ worker' = [worker EXCEPT ![w] = worker'[w]]
        /\ worker'[w].pc = "green"
        /\ worker'[w].loaded # None
        /\ worker'[w].task = worker[w].task
    BY <1>2, NoneIsNoRow DEF StartGreen, WorkerStates, Inv, TypeOK
  <1>4. WorkerIsBacked(w)'
    BY <1>1, <1>3
    DEF PRInv, GreenIsCarried, WorkerIsBacked, Truthful, GreenTask
  <1> QED BY <1>1, <1>3, <1>4, WorkerStepsPR

\* The internal branch may have moved on since the green run, but only to
\* later patches.
LEMMA FetchInternalPR ==
  ASSUME Inv, PRInv, NEW w \in Workers, FetchInternal(w)
  PROVE  PRInv'
  <1>1. /\ worker[w].pc = "green"
        /\ UNCHANGED <<queue, patches, tip, clean, prs, running, green>>
    BY DEF FetchInternal, At, redisVars, repoVars, ciVars
  <1>2. worker[w] \in WorkerStates
    BY <1>1, WorkersJob DEF Inv
  <1>3. /\ worker' = [worker EXCEPT ![w] = worker'[w]]
        /\ worker'[w].pc = "fetched"
        /\ worker'[w].loaded = worker[w].loaded
        /\ worker'[w].patch = tip[JobOf(w)]
        /\ worker'[w].task = worker[w].task
    BY <1>2 DEF FetchInternal, WorkerStates, Inv, TypeOK
  <1>4. /\ Truthful(worker[w].task) /\ GreenTask(worker[w].task)
        /\ worker[w].loaded # None
    BY <1>1 DEF PRInv, GreenIsCarried, WorkerIsBacked
  <1>5. Backed(JobOf(w), tip[JobOf(w)])
    BY <1>4
    DEF Truthful, Backed, JobOf, PRInv, GreenIsCarried, RunsAreOnBranch
  <1>6. WorkerIsBacked(w)'
    BY <1>1, <1>3, <1>4, <1>5
    DEF WorkerIsBacked, Truthful, GreenTask, Backed, JobOf
  <1> QED BY <1>1, <1>3, <1>6, WorkerStepsPR

\* The clean branch may be that of a pull request, or of another worker
\* about to open one: it now holds a tree that is backed as well.
LEMMA PushCleanPR ==
  ASSUME Inv, PRInv, NEW w \in Workers, PushClean(w)
  PROVE  PRInv'
  <1> DEFINE j == JobOf(w)
             ft == CleanType(w)
             p == worker[w].patch
  <1>1. /\ worker[w].pc = "fetched"
        /\ UNCHANGED <<job, queue, patches, tip, prs, running, green>>
    BY DEF PushClean, At, dbVars, redisVars, ciVars
  <1>2. worker[w] \in WorkerStates /\ j \in Jobs /\ ft \in FailureTypes
    BY <1>1, WorkersJob, CleanTypeIsType DEF Inv
  <1>3. /\ worker' = [worker EXCEPT ![w] = worker'[w]]
        /\ worker'[w].pc = "cleaned"
        /\ worker'[w].loaded = worker[w].loaded
        /\ worker'[w].task = worker[w].task
    BY <1>2 DEF PushClean, Goto, WorkerStates, Inv, TypeOK
  <1>4. /\ Truthful(worker[w].task) /\ GreenTask(worker[w].task)
        /\ worker[w].loaded # None
        /\ Backed(j, p)
    BY <1>1 DEF PRInv, GreenIsCarried, WorkerIsBacked
  <1>5. \A k \in Jobs, f \in FailureTypes :
          IF k = j /\ f = ft THEN clean'[k][f] = p
                            ELSE clean'[k][f] = clean[k][f]
    BY <1>2 DEF PushClean, Inv, TypeOK
  <1>6. ASSUME NEW k \in Jobs, NEW f \in FailureTypes,
               Backed(k, clean[k][f])
        PROVE  Backed(k, clean'[k][f])
    BY <1>4, <1>5, <1>6
  <1>7. ASSUME NEW v \in Workers PROVE WorkerIsBacked(v)'
    <2>1. CASE v = w
      <3>1. JobOf(w)' = j /\ CleanType(w)' = ft
        BY <1>3, <1>4 DEF JobOf, CleanType, JobRow
      <3>2. clean'[j][ft] = p
        BY <1>2, <1>5
      <3> QED
        BY <1>1, <1>3, <1>4, <2>1, <3>1, <3>2
        DEF WorkerIsBacked, Truthful, GreenTask, Backed
    <2>2. CASE v # w
      <3>1. worker'[v] = worker[v] /\ WorkerIsBacked(v)
        BY <1>3, <2>2 DEF Inv, TypeOK, PRInv, GreenIsCarried
      <3>2. worker[v].pc = "cleaned" =>
              Backed(JobOf(v), clean'[JobOf(v)][CleanType(v)])
        BY <1>6, <3>1, WorkersJob, CleanTypeIsType DEF Inv, WorkerIsBacked
      <3> QED BY <1>1, <3>1, <3>2, BystanderBacked
    <2> QED BY <2>1, <2>2
  <1>8. PRBacked'
    <2>1. ASSUME NEW pr \in prs
          PROVE  Backed(pr[1], clean'[pr[1]][pr[2]])
      <3>1. pr[1] \in Jobs /\ pr[2] \in FailureTypes
        BY DEF Inv, TypeOK
      <3> QED BY <1>6, <3>1 DEF PRInv, PRBacked
    <2> QED BY <1>1, <2>1 DEF PRBacked, Backed
  <1>9. RunsAreOnBranch' /\ TasksAreTrue'
    BY <1>1, QueueStaysTrue DEF PRInv, GreenIsCarried, RunsAreOnBranch
  <1> QED BY <1>7, <1>8, <1>9 DEF PRInv, GreenIsCarried

\* The worker's clean branch is backed, whoever pushed it last.
LEMMA OpenPRPR ==
  ASSUME Inv, PRInv, NEW w \in Workers, OpenPR(w)
  PROVE  PRInv'
  <1>1. /\ worker[w].pc = "cleaned"
        /\ UNCHANGED <<queue, patches, tip, clean, running, green>>
    BY DEF OpenPR, At, redisVars, ciVars
  <1>2. /\ worker' = [worker EXCEPT ![w] = worker'[w]]
        /\ worker'[w].pc = "opened"
        /\ worker'[w].task = worker[w].task
    BY DEF OpenPR, Goto, Inv, TypeOK, WorkerStates
  <1>3. ASSUME NEW v \in Workers PROVE WorkerIsBacked(v)'
    <2>1. CASE v = w
      BY <1>1, <1>2, <2>1
      DEF PRInv, GreenIsCarried, WorkerIsBacked, Truthful
    <2>2. CASE v # w
      <3>1. worker'[v] = worker[v] /\ WorkerIsBacked(v)
        BY <1>2, <2>2 DEF Inv, TypeOK, PRInv, GreenIsCarried
      <3> QED BY <1>1, <3>1, BystanderBacked DEF WorkerIsBacked
    <2> QED BY <2>1, <2>2
  <1>4. PRBacked'
    <2>1. Backed(JobOf(w), clean[JobOf(w)][CleanType(w)])
      BY <1>1 DEF PRInv, GreenIsCarried, WorkerIsBacked
    <2>2. prs' = prs \union {<<JobOf(w), CleanType(w)>>}
      BY DEF OpenPR, HeadBranch
    <2>3. \A pr \in prs' : Backed(pr[1], clean[pr[1]][pr[2]])
      BY <2>1, <2>2 DEF PRInv, PRBacked
    <2> QED BY <1>1, <2>3 DEF PRBacked, Backed
  <1>5. RunsAreOnBranch' /\ TasksAreTrue'
    BY <1>1, QueueStaysTrue DEF PRInv, GreenIsCarried, RunsAreOnBranch
  <1> QED BY <1>3, <1>4, <1>5 DEF PRInv, GreenIsCarried

\* A push puts a patch on the internal branch that is later than every patch
\* CI has seen, and starts runs of that patch only.
LEMMA PushPatchPR ==
  ASSUME Inv, PRInv, NEW w \in Workers, NEW ft \in FailureTypes,
         PushPatch(w, ft)
  PROVE  PRInv'
  <1> DEFINE j == JobOf(w)
             p == patches[j] + 1
  <1>1. /\ worker[w].pc = "graph"
        /\ UNCHANGED <<queue, clean, prs, green>>
    BY DEF PushPatch, At, redisVars
  <1>2. worker[w] \in WorkerStates /\ j \in Jobs /\ patches[j] \in Nat
    BY <1>1, WorkersJob DEF Inv, TypeOK
  <1>3. /\ worker' = [worker EXCEPT ![w] = worker'[w]]
        /\ worker'[w].pc = "pushed"
        /\ worker'[w].task = worker[w].task
    BY <1>2 DEF PushPatch, WorkerStates, Inv, TypeOK
  <1>4. RunsAreOnBranch'
    <2>1. /\ patches \in [Jobs -> Nat] /\ tip \in [Jobs -> Nat]
          /\ patches' = [patches EXCEPT ![j] = p]
          /\ tip' = [tip EXCEPT ![j] = p]
      BY DEF PushPatch, Inv, TypeOK
    <2>2. \A k \in Jobs : tip[k] <= patches[k]
      BY DEF PRInv, GreenIsCarried, RunsAreOnBranch
    <2>3. \A k \in Jobs : tip[k] <= tip'[k] /\ tip'[k] <= patches'[k]
      BY <1>2, <2>1, <2>2
    <2>4. ASSUME NEW r \in running' \union green'
          PROVE  r.patch <= tip'[r.job]
      <3>1. CASE r \in running \union green
        <4>1. r.patch \in Nat /\ r.job \in Jobs /\ r.patch <= tip[r.job]
          BY <3>1 DEF RunIds, Inv, TypeOK, PRInv, GreenIsCarried,
                      RunsAreOnBranch
        <4>2. tip[r.job] \in Nat /\ tip'[r.job] \in Nat
          BY <1>2, <2>1, <4>1
        <4> QED BY <2>3, <4>1, <4>2
      <3>2. CASE r \in {[job |-> j, patch |-> p, wf |-> f] : f \in Workflows}
        BY <1>2, <2>1, <3>2
      <3> QED BY <1>1, <3>1, <3>2 DEF PushPatch
    <2> QED BY <2>3, <2>4 DEF RunsAreOnBranch
  <1>5. ASSUME NEW v \in Workers PROVE WorkerIsBacked(v)'
    <2>1. CASE v = w
      BY <1>1, <1>3, <2>1
      DEF PRInv, GreenIsCarried, WorkerIsBacked, Truthful
    <2>2. CASE v # w
      <3>1. worker'[v] = worker[v] /\ WorkerIsBacked(v)
        BY <1>3, <2>2 DEF Inv, TypeOK, PRInv, GreenIsCarried
      <3> QED BY <1>1, <3>1, BystanderBacked DEF WorkerIsBacked
    <2> QED BY <2>1, <2>2
  <1>6. TasksAreTrue' /\ PRBacked'
    BY <1>1, QueueStaysTrue DEF PRInv, PRBacked, Backed
  <1> QED BY <1>4, <1>5, <1>6 DEF PRInv, GreenIsCarried

LEMMA WorkerStepPR ==
  ASSUME Inv, PRInv, WorkerStep
  PROVE  PRInv'
  <1> PICK w \in Workers : WorkerAdvances(w) \/ Raise(w) \/ WorkerCrashes(w)
    BY DEF WorkerStep
  <1> QED
    BY UnknownAssumption, TakeTaskPR, QuietWorkersPR, EndingWorkersPR,
       RejectPatchPR, PushPatchPR, StartGreenPR, FetchInternalPR,
       PushCleanPR, OpenPRPR
    DEF WorkerAdvances

-----------------------------------------------------------------------------
(* GitHub, the router and the API *)

LEMMA GitHubStepPR ==
  ASSUME Inv, PRInv, GitHubStep
  PROVE  PRInv'
  <1>1. /\ UNCHANGED <<queue, worker, patches, tip, clean, prs>>
        /\ green \subseteq green'
        /\ running' \union green' \subseteq running \union green
    BY DEF GitHubStep, DevRunFails, RunEnds, Redeliver, LoseHook, redisVars,
           repoVars
  <1> QED BY <1>1, QueueStaysTrue, WorkersStayPR

\* The router passes the conclusion of the run on as it is.
LEMMA ReceiveCompletionPR ==
  ASSUME Inv, PRInv, NEW r \in Ended, ReceiveCompletion(r)
  PROVE  PRInv'
  <1>1. UNCHANGED <<worker, patches, tip, clean, prs, running, green>>
    BY DEF ReceiveCompletion, repoVars
  <1>2. CASE UNCHANGED queue
    BY <1>1, <1>2, QueueStaysTrue, WorkersStayPR
  <1>3. CASE queue' = Append(queue, CompletionTask(r.job, r, Conclusion(r)))
    <2>1. /\ r \in RunIds /\ r.job \in Jobs
          /\ Conclusion(r) \in Conclusions
      BY DEF Ended, Inv, TypeOK, RunIds, Conclusion, Conclusions
    <2>2. /\ CompletionTask(r.job, r, Conclusion(r)) \in Tasks
          /\ Truthful(CompletionTask(r.job, r, Conclusion(r)))
      BY <2>1, CompletionTaskIsTask
      DEF Truthful, GreenTask, CompletionTask, Conclusion
    <2>3. TasksAreTrue'
      BY <1>1, <1>3, <2>2, EnqueuedIsTrue
    <2> QED BY <1>1, <2>3, WorkersStayPR
  <1> QED BY <1>2, <1>3 DEF ReceiveCompletion, redisVars

\* A first repair has no verdict to be true.
LEMMA InitialEnqueued ==
  ASSUME Inv, PRInv, NEW j \in Jobs, queue' = Append(queue, InitialTask(j)),
         UNCHANGED green
  PROVE  TasksAreTrue'
  <1>1. InitialTask(j) \in Tasks /\ Truthful(InitialTask(j))
    BY InitialTaskIsTask DEF Truthful, GreenTask
  <1> QED BY <1>1, EnqueuedIsTrue

LEMMA RouterStepPR ==
  ASSUME Inv, PRInv, RouterStep
  PROVE  PRInv'
  <1>1. ASSUME DeliverCompletion PROVE PRInv'
    BY <1>1, ReceiveCompletionPR DEF DeliverCompletion
  <1>2. ASSUME NEW h \in Handlers, EnqueueInitial(h) PROVE PRInv'
    <2>1. UNCHANGED <<worker, patches, tip, clean, prs, running, green>>
      BY <1>2 DEF EnqueueInitial, repoVars, ciVars
    <2>2. /\ router[h].job \in Jobs
          /\ queue' = Append(queue, InitialTask(router[h].job))
      BY <1>2 DEF EnqueueInitial, HandlerAt, Inv, NothingDangles,
                  HandlersHaveJobs
    <2> QED BY <2>1, <2>2, InitialEnqueued, WorkersStayPR
  <1>3. ASSUME UNCHANGED <<queue, worker, repoVars, running, green>>
        PROVE  PRInv'
    BY <1>3, QueueStaysTrue, WorkersStayPR DEF repoVars
  <1>4. ASSUME NEW h \in Handlers, NEW d,
               \/ ReceiveFailure(h, d) \/ SelectExisting(h) \/ InsertJob(h)
               \/ IntakeRaises(h) \/ HandlerCrashes(h) \/ LockExpires(d)
        PROVE  UNCHANGED <<queue, worker, repoVars, running, green>>
    BY <1>4 DEF ReceiveFailure, SelectExisting, InsertJob, IntakeRaises,
                HandlerCrashes, LockExpires, redisVars, ciVars
  <1>5. ASSUME NEW r \in locks, LockExpires(r) PROVE PRInv'
    BY <1>3, <1>5 DEF LockExpires, ciVars
  <1> QED BY <1>1, <1>2, <1>3, <1>4, <1>5 DEF RouterStep

LEMMA ApiStepPR ==
  ASSUME Inv, PRInv, ApiStep
  PROVE  PRInv'
  <1>1. UNCHANGED <<worker, patches, tip, clean, prs, running, green>>
    BY DEF ApiStep, RetryReads, RetryCommits, RetryEnqueues, RetryFails,
           repoVars, ciVars
  <1>2. CASE UNCHANGED queue
    BY <1>1, <1>2, QueueStaysTrue, WorkersStayPR
  <1>3. CASE \E c \in Clients : RetryEnqueues(c)
    <2>1. PICK c \in Clients : RetryEnqueues(c)
      BY <1>3
    <2>2. /\ client[c].job \in Jobs
          /\ queue' = Append(queue, InitialTask(client[c].job))
      BY <2>1 DEF RetryEnqueues, Inv, NothingDangles, ClientsHaveJobs
    <2> QED BY <1>1, <2>2, InitialEnqueued, WorkersStayPR
  <1> QED
    BY <1>2, <1>3 DEF ApiStep, RetryReads, RetryCommits, RetryFails, redisVars

-----------------------------------------------------------------------------
(* The theorems *)

LEMMA InitPR == Init => PRInv
  <1> SUFFICES ASSUME Init PROVE PRInv
    OBVIOUS
  <1>1. RunsAreOnBranch /\ TasksAreTrue /\ PRBacked
    BY DEF Init, RunsAreOnBranch, TasksAreTrue, PRBacked
  <1>2. \A w \in Workers : WorkerIsBacked(w)
    BY DEF Init, WorkerIsBacked, IdleWorker
  <1> QED BY <1>1, <1>2 DEF PRInv, GreenIsCarried

LEMMA StutterPR == Inv /\ PRInv /\ UNCHANGED vars => PRInv'
  BY QueueStaysTrue, WorkersStayPR DEF vars, redisVars, repoVars, ciVars

LEMMA NextPR == Inv /\ PRInv /\ [Next]_vars => PRInv'
  BY GitHubStepPR, RouterStepPR, ApiStepPR, WorkerStepPR, StutterPR DEF Next

\* PRInv holds in every reachable state, as every action keeps it.
THEOREM PRInvHolds == Spec => []PRInv
  BY InitPR, NextPR, InvHolds, PTL DEF Spec

\* orchestrator.py:350-378 and git_ops.py: a pull request opens only behind a
\* green CI run of its job, whichever repairs overlap, whatever is delivered
\* twice or lost, and whatever fails or dies on the way.
THEOREM PullRequestsBacked == Spec => []PRBacked
  <1>1. PRInv => PRBacked
    BY DEF PRInv
  <1> QED BY <1>1, PRInvHolds, PTL

\* router.py:219-251 and orchestrator.py:149-378: a success verdict that
\* waits in the queue or has reached a worker is that of a green run of its
\* job, and what the worker fetches and pushes is no older than that run.
THEOREM GreenReachesPR == Spec => []GreenIsCarried
  <1>1. PRInv => GreenIsCarried
    BY DEF PRInv
  <1> QED BY <1>1, PRInvHolds, PTL

-----------------------------------------------------------------------------
(* The pull request a job names *)

\* A session that has read a pull request in its job's row was not the last
\* to read one: the row keeps naming one.
SessionKnowsPR(w) ==
  /\ worker[w].pc \in TryPoints =>
       (worker[w].loaded # None /\ worker[w].loaded.pr # None =>
          job[JobOf(w)].pr # None)
  /\ worker[w].pc = "opened" =>
       worker[w].loaded # None /\ HeadBranch(w) \in prs

\* The inductive invariant, relative to Inv and PRInv.
PrUrlInv == PrUrlIsReal /\ \A w \in Workers : SessionKnowsPR(w)

\* Pull requests stay open, and no job stops naming its own.
PRsKept ==
  /\ prs \subseteq prs'
  /\ \A j \in Jobs : Exists(j) =>
       job'[j] # None /\ (job[j].pr # None => job'[j].pr # None)

\* A session that does not read the row again still knows what it knew.
LEMMA SessionKeepsPR ==
  ASSUME Inv, NEW v \in Workers, SessionKnowsPR(v), PRsKept,
         worker'[v].pc \in TryPoints => worker[v].pc \in TryPoints,
         worker'[v].pc = "opened" => worker[v].pc = "opened",
         worker'[v].task = worker[v].task,
         worker'[v].loaded = worker[v].loaded
  PROVE  SessionKnowsPR(v)'
  <1>1. ASSUME worker'[v].pc \in TryPoints, worker[v].loaded # None,
               worker[v].loaded.pr # None
        PROVE  job'[worker'[v].task.job].pr # None
    <2>1. worker[v].pc \in TryPoints
      BY <1>1
    <2>2. JobOf(v) \in Jobs /\ Exists(JobOf(v))
      BY <2>1, WorkersJob
      DEF Inv, NothingDangles, WorkersHaveJobs, JobOf, TryPoints
    <2>3. job[JobOf(v)].pr # None
      BY <1>1, <2>1 DEF SessionKnowsPR
    <2> QED BY <2>2, <2>3 DEF PRsKept, JobOf
  <1>2. ASSUME worker'[v].pc = "opened"
        PROVE  worker'[v].loaded # None /\ HeadBranch(v)' \in prs'
    <2>1. worker[v].loaded # None /\ HeadBranch(v) \in prs
      BY <1>2 DEF SessionKnowsPR
    <2>2. HeadBranch(v)' = HeadBranch(v)
      BY <2>1 DEF HeadBranch, JobOf, CleanType, JobRow
    <2> QED BY <2>1, <2>2 DEF PRsKept
  <1> QED BY <1>1, <1>2 DEF SessionKnowsPR, JobOf

\* A session that has just read the row.
LEMMA FreshSession ==
  ASSUME NEW w \in Workers, worker'[w].pc # "opened",
         worker'[w].loaded # None =>
           \/ worker'[w].loaded.pr = None
           \/ worker'[w].loaded.pr = job'[worker'[w].task.job].pr
  PROVE  SessionKnowsPR(w)'
  BY DEF SessionKnowsPR, JobOf

\* A step of one worker; the others keep what they know.
LEMMA WorkerStepsPrUrl ==
  ASSUME Inv, PrUrlInv, NEW w \in Workers, PRsKept, PrUrlIsReal',
         SessionKnowsPR(w)',
         \A v \in Workers : v # w => worker'[v] = worker[v]
  PROVE  PrUrlInv'
  <1>1. ASSUME NEW v \in Workers PROVE SessionKnowsPR(v)'
    <2>1. CASE v = w
      BY <2>1
    <2>2. CASE v # w
      BY <2>2, SessionKeepsPR DEF PrUrlInv
    <2> QED BY <2>1, <2>2
  <1> QED BY <1>1 DEF PrUrlInv

\* Where the columns stay, so does the link.
LEMMA LinksStay ==
  ASSUME Inv, PrUrlIsReal, prs \subseteq prs', RunsStay, PRsStay, NoneInserted
  PROVE  PrUrlIsReal' /\ PRsKept
  <1>1. PRsKept
    BY DEF RunsStay, PRsStay, PRsKept
  <1>2. ASSUME NEW j \in Jobs, job'[j] # None
        PROVE  /\ job'[j].pr # None => <<j, job'[j].pr>> \in prs'
               /\ job'[j].status = "pr_opened" => job'[j].pr # None
    <2>1. Exists(j)
      BY <1>2 DEF NoneInserted, Exists
    <2>2. job'[j].pr = job[j].pr
      BY <2>1 DEF PRsStay
    <2>3. job'[j].status = "pr_opened" => job[j].status = "pr_opened"
      BY <2>1 DEF PRsStay
    <2> QED BY <2>1, <2>2, <2>3 DEF PrUrlIsReal
  <1> QED BY <1>1, <1>2 DEF PrUrlIsReal, Exists

\* The commit that announces the pull request: the column keeps one that is
\* open, or gets the one that the worker has opened.
LEMMA CommitPRPrUrl ==
  ASSUME Inv, PrUrlInv, NEW w \in Workers, CommitPR(w)
  PROVE  PrUrlIsReal' /\ PRsKept
  <1> DEFINE j == JobOf(w)
             new == [JobRow(w) EXCEPT !.status = "pr_opened",
                                      !.pr = CleanType(w)]
  <1>1. /\ worker[w].pc = "opened" /\ Commits(w, new) /\ UNCHANGED prs
    BY DEF CommitPR, At, repoVars
  <1>2. JobRow(w) \in Row /\ CleanType(w) \in FailureTypes
    BY <1>1, WorkersJob, CleanTypeIsType DEF Inv
  <1>3. /\ new \in Row /\ new.run = JobRow(w).run
        /\ new.status = "pr_opened" /\ new.pr = CleanType(w)
    BY <1>2 DEF Row, Statuses
  <1> HIDE DEF new
  <1>4. /\ j \in Jobs /\ Exists(j) /\ job[j] \in Row
        /\ job'[j] = Flush(job[j], JobRow(w), new)
        /\ job'[j] # None
        /\ \A k \in Jobs : k # j => job'[k] = job[k]
    BY <1>1, <1>3, CommitOfRow
  <1>5. /\ job'[j].pr = IF CleanType(w) = JobRow(w).pr THEN job[j].pr
                                                       ELSE CleanType(w)
    BY <1>2, <1>3, <1>4, ColumnsOfFlush
  <1>6. CleanType(w) # None /\ <<j, CleanType(w)>> \in prs
    BY <1>1, <1>2, NoneIsNoType DEF PrUrlInv, SessionKnowsPR, HeadBranch
  <1>7. job'[j].pr # None /\ <<j, job'[j].pr>> \in prs
    <2>1. CASE CleanType(w) = JobRow(w).pr
      <3>1. worker[w].loaded # None /\ worker[w].loaded.pr # None
        BY <1>1, <1>6, <2>1 DEF PrUrlInv, SessionKnowsPR, JobRow
      <3>2. job[j].pr # None
        BY <1>1, <3>1 DEF PrUrlInv, SessionKnowsPR, TryPoints, WorkerPCs
      <3> QED BY <1>4, <1>5, <2>1, <3>2 DEF PrUrlInv, PrUrlIsReal
    <2>2. CASE CleanType(w) # JobRow(w).pr
      BY <1>5, <1>6, <2>2
    <2> QED BY <2>1, <2>2
  <1>8. PRsKept
    BY <1>1, <1>4, <1>7 DEF PRsKept, Exists
  <1>9. PrUrlIsReal'
    BY <1>1, <1>4, <1>7 DEF PrUrlInv, PrUrlIsReal, Exists
  <1> QED BY <1>8, <1>9

LEMMA AnyStepPrUrl ==
  ASSUME Inv, PRInv, PrUrlInv, NEW w \in Workers, AnyStep(w)
  PROVE  PrUrlInv'
  <1>1. prs \subseteq prs'
    BY DEF AnyStep, WorkerAdvances, TakeTask, StartInitial, StartGreen,
           StartExhausted, StartRed, StampRed, ReadRetries, BumpRetry, DropOut,
           PushPatch,
           RecordAttempt, RejectPatch, FetchInternal, PushClean, OpenPR,
           CommitPR, Escalate, Raise, WorkerCrashes, repoVars
  <1>2. PrUrlIsReal' /\ PRsKept
    BY <1>1, CommitPRPrUrl, LinksStay, WorkerColumns DEF PrUrlInv
  <1>3. /\ \A v \in Workers : v # w => worker'[v] = worker[v]
        /\ worker' = [worker EXCEPT ![w] = worker'[w]]
        /\ TakeTask(w) \/ GoesOn(w) \/ Done(w)
    BY StepShape
  <1>4. worker \in [Workers -> WorkerStates] /\ worker[w] \in WorkerStates
    BY DEF Inv, TypeOK
  <1>5. SessionKnowsPR(w)'
    <2>1. CASE TakeTask(w)
      <3>1. worker'[w].pc = "start"
        BY <1>4, <2>1 DEF TakeTask, WorkerStates
      <3> QED BY <3>1 DEF SessionKnowsPR, TryPoints
    <2>2. CASE Done(w)
      BY <2>2, DoneMoves DEF SessionKnowsPR, TryPoints
    <2>3. CASE StartInitial(w) \/ StartGreen(w) \/ StartRed(w)
      <3>1. worker[w].pc = "start"
        BY <2>3 DEF StartInitial, StartGreen, StartRed, Completes, At
      <3>2. JobOf(w) \in Jobs /\ job[JobOf(w)] \in Row
        BY <3>1, WorkersJob DEF Inv
      <3>3. /\ worker'[w].pc \in {"graph", "green", "red"}
            /\ worker'[w].task = worker[w].task
            /\ worker'[w].loaded = job'[JobOf(w)]
        <4>1. job \in [Jobs -> Row \union {None}]
          BY DEF Inv, TypeOK
        <4>2. CASE StartInitial(w)
          BY <1>4, <3>2, <4>1, <4>2 DEF StartInitial, WorkerStates
        <4>3. CASE StartGreen(w)
          BY <1>4, <4>3 DEF StartGreen, WorkerStates
        <4>4. CASE StartRed(w)
          BY <1>4, <4>4 DEF StartRed, WorkerStates, dbVars
        <4> QED BY <2>3, <4>2, <4>3, <4>4
      <3> QED BY <3>3, FreshSession DEF JobOf
    <2>4. CASE BumpRetry(w)
      <3>1. /\ worker'[w].pc = "graph"
            /\ worker'[w].task = worker[w].task
            /\ worker'[w].loaded = job'[JobOf(w)]
        BY <2>4, BumpRetryShape
      <3> QED BY <3>1, FreshSession DEF JobOf
    <2>8. CASE ReadRetries(w)
      <3>1. /\ worker[w].pc \in TryPoints /\ worker'[w].pc = "count"
            /\ worker'[w].task = worker[w].task
            /\ JobOf(w) \in Jobs /\ Exists(JobOf(w))
            /\ worker'[w].loaded.pr = JobRow(w).pr /\ UNCHANGED job
        BY <2>8, ReadRetriesShape, NoneIsNoRow
        DEF TryPoints, WorkerPCs, Exists, dbVars
      <3>2. worker'[w].loaded.pr # None => job[JobOf(w)].pr # None
        BY <3>1 DEF PrUrlInv, SessionKnowsPR, JobRow
      <3> QED BY <3>1, <3>2 DEF SessionKnowsPR, JobOf
    <2>5. CASE StartExhausted(w)
      <3>1. worker'[w].pc = "escalate"
        BY <1>4, <2>5 DEF StartExhausted, Goto, WorkerStates
      <3> QED BY <3>1 DEF SessionKnowsPR, TryPoints
    <2>6. CASE OpenPR(w)
      <3>1. worker[w].pc = "cleaned" /\ prs' = prs \union {HeadBranch(w)}
        BY <2>6 DEF OpenPR, At
      <3>2. /\ worker'[w].pc = "opened"
            /\ worker'[w].task = worker[w].task
            /\ worker'[w].loaded = worker[w].loaded
        BY <1>4, <2>6 DEF OpenPR, Goto, WorkerStates
      <3>3. worker[w].loaded # None
        BY <3>1 DEF PRInv, GreenIsCarried, WorkerIsBacked
      <3>4. HeadBranch(w)' = HeadBranch(w)
        BY <3>2, <3>3 DEF HeadBranch, JobOf, CleanType, JobRow
      <3>5. JobOf(w) \in Jobs /\ Exists(JobOf(w))
        BY <3>1, WorkersJob DEF Inv, NothingDangles, WorkersHaveJobs, JobOf
      <3>6. worker[w].loaded.pr # None => job[JobOf(w)].pr # None
        BY <3>1, <3>3 DEF PrUrlInv, SessionKnowsPR, TryPoints, WorkerPCs
      <3> QED BY <1>2, <3>1, <3>2, <3>3, <3>4, <3>5, <3>6
              DEF SessionKnowsPR, PRsKept, JobOf
    <2>7. CASE \/ StampRed(w) \/ FetchInternal(w) \/ PushClean(w)
               \/ \E ft \in FailureTypes : PushPatch(w, ft)
      <3>1. /\ worker[w].pc \in TryPoints
            /\ worker'[w].pc # "opened"
            /\ worker'[w].task = worker[w].task
            /\ worker'[w].loaded \in {worker[w].loaded, None}
        <4>1. CASE FetchInternal(w) \/ PushClean(w)
          BY <1>4, <4>1 DEF FetchInternal, PushClean, Goto, At, TryPoints,
                            WorkerPCs, WorkerStates
        <4>2. ASSUME NEW ft \in FailureTypes, PushPatch(w, ft)
              PROVE  /\ worker[w].pc \in TryPoints
                     /\ worker'[w].pc # "opened"
                     /\ worker'[w].task = worker[w].task
                     /\ worker'[w].loaded \in {worker[w].loaded, None}
          BY <1>4, <4>2 DEF PushPatch, At, TryPoints, WorkerPCs, WorkerStates
        <4>3. CASE StampRed(w)
          <5>1. worker[w].pc = "red"
            BY <4>3 DEF StampRed, At
          <5>2. CASE Goto(w, "bump")
            BY <1>4, <5>1, <5>2 DEF Goto, TryPoints, WorkerPCs, WorkerStates
          <5>3. CASE ~Goto(w, "bump")
            <6>1. PICK i \in LatestAttempts(attempts[JobOf(w)]) :
                    worker' = [worker EXCEPT
                      ![w].pc = "bump", ![w].loaded = None,
                      ![w].prev = attempts[JobOf(w)][i].patch]
              BY <4>3, <5>3 DEF StampRed
            <6> QED BY <1>4, <5>1, <6>1 DEF TryPoints, WorkerPCs, WorkerStates
          <5> QED BY <5>2, <5>3
        <4> QED BY <2>7, <4>1, <4>2, <4>3
      <3>2. CASE worker'[w].loaded = None
        BY <3>1, <3>2 DEF SessionKnowsPR
      <3>3. CASE worker'[w].loaded = worker[w].loaded
        BY <1>2, <3>1, <3>3, SessionKeepsPR DEF PrUrlInv
      <3> QED BY <3>1, <3>2, <3>3
    <2> QED BY <1>3, <2>1, <2>2, <2>3, <2>4, <2>5, <2>6, <2>7, <2>8 DEF GoesOn
  <1> QED BY <1>2, <1>3, <1>5, WorkerStepsPrUrl

LEMMA OtherStepsPrUrl ==
  ASSUME Inv, PrUrlInv, GitHubStep \/ RouterStep \/ ApiStep
  PROVE  PrUrlInv'
  <1>1. UNCHANGED <<worker, prs>>
    BY OtherSteps
  <1>2. PrUrlIsReal' /\ PRsKept
    <2>1. CASE UNCHANGED job
      BY <1>1, <2>1, TableStaysColumns, LinksStay DEF PrUrlInv
    <2>2. ASSUME NEW h \in Handlers, InsertJob(h), ~UNCHANGED job
          PROVE  PrUrlIsReal' /\ PRsKept
      <3>1. PICK j \in Jobs :
              /\ job[j] = None
              /\ job'[j] = NewRow(router[h].run)
              /\ job'[j] \in Row
              /\ \A k \in Jobs : k # j => job'[k] = job[k]
        BY <2>2, InsertedRow
      <3>2. job'[j].pr = None /\ job'[j].status = "queued" /\ job'[j] # None
        <4>1. job'[j].pr = None /\ job'[j].status = "queued"
          BY <3>1 DEF NewRow
        <4>2. job'[j] # None
          BY <3>1, NoneIsNoRow
        <4> QED BY <4>1, <4>2
      <3> QED BY <1>1, <3>1, <3>2 DEF PrUrlInv, PrUrlIsReal, PRsKept, Exists
    <2>3. ASSUME NEW c \in Clients, RetryCommits(c)
          PROVE  PrUrlIsReal' /\ PRsKept
      <3> DEFINE j == client[c].job
      <3>1. /\ j \in Jobs /\ Exists(j) /\ job'[j] \in Row
            /\ job'[j].pr = job[j].pr
            /\ job'[j].status = "queued" \/ job'[j].status = job[j].status
            /\ \A k \in Jobs : k # j => job'[k] = job[k]
        BY <2>3, RetryRow
      <3>2. job'[j] # None
        BY <3>1, NoneIsNoRow
      <3> HIDE DEF j
      <3>3. PRsKept
        BY <1>1, <3>1, <3>2 DEF PRsKept, Exists
      <3>4. PrUrlIsReal'
        BY <1>1, <3>1, <3>2 DEF PrUrlInv, PrUrlIsReal, Exists
      <3> QED BY <3>3, <3>4
    <2> QED BY <2>1, <2>2, <2>3, OtherSteps
  <1>3. ASSUME NEW v \in Workers PROVE SessionKnowsPR(v)'
    BY <1>1, <1>2, SessionKeepsPR DEF PrUrlInv
  <1> QED BY <1>2, <1>3 DEF PrUrlInv

LEMMA InitPrUrl ==
  ASSUME Init
  PROVE  PrUrlInv
  BY DEF Init, PrUrlInv, PrUrlIsReal, SessionKnowsPR, IdleWorker, TryPoints,
         Exists

LEMMA NextPrUrl ==
  ASSUME Inv, PRInv, PrUrlInv, [Next]_vars
  PROVE  PrUrlInv'
  <1>1. CASE GitHubStep \/ RouterStep \/ ApiStep
    BY <1>1, OtherStepsPrUrl
  <1>2. CASE WorkerStep
    BY <1>2, AnyStepPrUrl DEF WorkerStep, AnyStep
  <1>3. CASE UNCHANGED vars
    <2>1. UNCHANGED <<job, prs, worker>>
      BY <1>3 DEF vars, dbVars, repoVars
    <2>2. PrUrlIsReal' /\ PRsKept
      BY <2>1, TableStaysColumns, LinksStay DEF PrUrlInv
    <2> QED BY <2>1, <2>2, SessionKeepsPR DEF PrUrlInv
  <1> QED BY <1>1, <1>2, <1>3 DEF Next

\* PrUrlInv holds in every reachable state, as every action keeps it.
THEOREM PrUrlInvHolds == Spec => []PrUrlInv
  <1>1. Init => PrUrlInv
    BY InitPrUrl
  <1>2. Inv /\ PRInv /\ PrUrlInv /\ [Next]_vars => PrUrlInv'
    BY NextPrUrl
  <1> QED BY <1>1, <1>2, InvHolds, PRInvHolds, PTL DEF Spec

\* orchestrator.py:379-380, the pr_url of a job is that of a pull request that
\* exists, and no job is shown as pr_opened without one, whichever sessions
\* commit what they read before another worker's pull request.
THEOREM LinksAreReal == Spec => []PrUrlIsReal
  <1>1. PrUrlInv => PrUrlIsReal
    BY DEF PrUrlInv
  <1> QED BY <1>1, PrUrlInvHolds, PTL

-----------------------------------------------------------------------------
(* The branches *)
\* What worker w has fetched for the clean branch of j and ft.
FetchedBy(w, j, ft) ==
  IF At(w, "fetched") /\ HeadBranch(w) = <<j, ft>>
  THEN worker[w].patch ELSE None

\* The invariants that the refinement rests on.
BranchInv == Inv /\ PRInv /\ AttemptInv

\* A step of the branches of j and ft, or none.
BranchStep(j, ft) ==
  \/ AsBranches(j, ft)!BranchNext
  \/ UNCHANGED AsBranches(j, ft)!branchVars

-----------------------------------------------------------------------------
(* What a worker has fetched *)

\* The head branch of a worker with a green run comes from its own session,
\* so nobody else's commit can change it.
LEMMA HeadStays ==
  ASSUME NEW w \in Workers, worker[w].loaded # None,
         worker'[w].loaded = worker[w].loaded,
         worker'[w].task = worker[w].task
  PROVE  HeadBranch(w)' = HeadBranch(w)
  BY DEF HeadBranch, CleanType, JobRow, JobOf

LEMMA FetchedStays ==
  ASSUME BranchInv, NEW w \in Workers, worker'[w] = worker[w],
         NEW j \in Jobs, NEW ft \in FailureTypes
  PROVE  FetchedBy(w, j, ft)' = FetchedBy(w, j, ft)
  <1>1. CASE worker[w].pc = "fetched"
    <2>1. worker[w].loaded # None
      BY <1>1 DEF BranchInv, PRInv, GreenIsCarried, WorkerIsBacked
    <2> QED BY <2>1, HeadStays DEF FetchedBy, At
  <1>2. CASE worker[w].pc # "fetched"
    BY <1>2 DEF FetchedBy, At
  <1> QED BY <1>1, <1>2

\* Neither the branches nor what is fetched for them changes.
LEMMA BranchStutter ==
  ASSUME NEW j \in Jobs, NEW ft \in FailureTypes,
         tip'[j] = tip[j], clean'[j][ft] = clean[j][ft],
         \A w \in Workers : FetchedBy(w, j, ft)' = FetchedBy(w, j, ft)
  PROVE  BranchStep(j, ft)
  BY DEF BranchStep, AsBranches!branchVars, FetchedBy

\* A step of worker w changes at most what w has fetched.
LEMMA OthersFetched ==
  ASSUME BranchInv, NEW w \in Workers, NEW j \in Jobs, NEW ft \in FailureTypes,
         worker' = [worker EXCEPT ![w] = worker'[w]]
  PROVE  \A v \in Workers \ {w} : FetchedBy(v, j, ft)' = FetchedBy(v, j, ft)
  <1>1. \A v \in Workers \ {w} : worker'[v] = worker[v]
    BY DEF BranchInv, Inv, TypeOK
  <1> QED BY <1>1, FetchedStays

-----------------------------------------------------------------------------
(* The steps of a worker *)

\* A worker that is not in the middle of it afterwards, whether it was or not:
\* what it had fetched is given up.
LEMMA GivesUp ==
  ASSUME BranchInv, NEW w \in Workers, NEW j \in Jobs, NEW ft \in FailureTypes,
         worker' = [worker EXCEPT ![w] = worker'[w]],
         worker'[w].pc # "fetched", UNCHANGED <<tip, clean>>
  PROVE  BranchStep(j, ft)
  <1>1. \A v \in Workers \ {w} : FetchedBy(v, j, ft)' = FetchedBy(v, j, ft)
    BY OthersFetched
  <1>2. FetchedBy(w, j, ft)' = None
    BY DEF FetchedBy, At
  <1>3. CASE FetchedBy(w, j, ft) = None
    BY <1>1, <1>2, <1>3, BranchStutter
  <1>4. CASE FetchedBy(w, j, ft) # None
    <2>1. AsBranches(j, ft)!PushFetched(w)
      BY <1>1, <1>2, <1>4 DEF AsBranches!PushFetched, FetchedBy
    <2> QED BY <2>1 DEF BranchStep, AsBranches!BranchNext
  <1> QED BY <1>3, <1>4

LEMMA PushPatchBranch ==
  ASSUME BranchInv, NEW w \in Workers, NEW j \in Jobs, NEW ft \in FailureTypes,
         NEW t \in FailureTypes, PushPatch(w, t)
  PROVE  BranchStep(j, ft)
  <1>1. worker[w].pc = "graph" /\ UNCHANGED clean
    BY DEF PushPatch, At
  <1>2. /\ JobOf(w) \in Jobs
        /\ patches[JobOf(w)] + 1 \in Nat \ {0}
        /\ tip' = [tip EXCEPT ![JobOf(w)] = patches[JobOf(w)] + 1]
        /\ tip \in [Jobs -> Nat]
    <2>1. JobOf(w) \in Jobs
      BY <1>1, WorkersJob DEF BranchInv, Inv
    <2>2. patches \in [Jobs -> Nat] /\ tip \in [Jobs -> Nat]
      BY DEF BranchInv, Inv, TypeOK
    <2>3. tip' = [tip EXCEPT ![JobOf(w)] = patches[JobOf(w)] + 1]
      BY DEF PushPatch
    <2> QED BY <2>1, <2>2, <2>3
  <1>3. \A v \in Workers : FetchedBy(v, j, ft)' = FetchedBy(v, j, ft)
    <2>1. /\ worker' = [worker EXCEPT ![w] = worker'[w]]
          /\ worker'[w].pc = "pushed"
      <3>1. worker \in [Workers -> WorkerStates] /\ worker[w] \in WorkerStates
        BY DEF BranchInv, Inv, TypeOK
      <3> QED BY <3>1 DEF PushPatch, WorkerStates
    <2>2. FetchedBy(w, j, ft)' = FetchedBy(w, j, ft)
      BY <1>1, <2>1 DEF FetchedBy, At
    <2> QED BY <2>1, <2>2, OthersFetched
  <1>4. CASE j = JobOf(w)
    <2>1. tip'[j] \in Nat \ {0}
      BY <1>2, <1>4
    <2>2. AsBranches(j, ft)!PushInternal
      BY <1>1, <1>3, <2>1 DEF AsBranches!PushInternal, FetchedBy
    <2> QED BY <2>2 DEF BranchStep, AsBranches!BranchNext
  <1>5. CASE j # JobOf(w)
    BY <1>1, <1>2, <1>3, <1>5, BranchStutter
  <1> QED BY <1>4, <1>5

LEMMA FetchInternalBranch ==
  ASSUME BranchInv, NEW w \in Workers, NEW j \in Jobs, NEW ft \in FailureTypes,
         FetchInternal(w)
  PROVE  BranchStep(j, ft)
  <1>1. worker[w].pc = "green" /\ UNCHANGED <<tip, clean>>
    BY DEF FetchInternal, At, repoVars
  <1>2. /\ worker[w].loaded # None
        /\ tip[JobOf(w)] # 0
        /\ tip[JobOf(w)] \in Nat
    <2>1. worker[w].loaded # None
      BY <1>1 DEF BranchInv, PRInv, GreenIsCarried, WorkerIsBacked
    <2>2. OnBranch(JobOf(w))
      BY <1>1 DEF BranchInv, AttemptInv, WorkerHasBranch, AfterCI
    <2>3. JobOf(w) \in Jobs
      BY <1>1, WorkersJob DEF BranchInv, Inv
    <2> QED BY <2>1, <2>2, <2>3 DEF OnBranch, BranchInv, Inv, TypeOK
  <1>3. /\ worker' = [worker EXCEPT ![w] = worker'[w]]
        /\ worker'[w].pc = "fetched"
        /\ worker'[w].patch = tip[JobOf(w)]
        /\ worker'[w].task = worker[w].task
        /\ worker'[w].loaded = worker[w].loaded
    <2>1. worker \in [Workers -> WorkerStates] /\ worker[w] \in WorkerStates
      BY DEF BranchInv, Inv, TypeOK
    <2> QED BY <2>1 DEF FetchInternal, WorkerStates
  <1>4. \A v \in Workers \ {w} : FetchedBy(v, j, ft)' = FetchedBy(v, j, ft)
    BY <1>3, OthersFetched
  <1>5. HeadBranch(w)' = HeadBranch(w) /\ FetchedBy(w, j, ft) = None
    BY <1>1, <1>2, <1>3, HeadStays DEF FetchedBy, At
  <1>6. CASE HeadBranch(w) = <<j, ft>>
    <2>1. JobOf(w) = j
      BY <1>6 DEF HeadBranch
    <2>2. FetchedBy(w, j, ft)' = tip[j]
      BY <1>3, <1>5, <1>6, <2>1 DEF FetchedBy, At
    <2>3. AsBranches(j, ft)!Fetch(w)
      BY <1>1, <1>2, <1>4, <1>5, <2>1, <2>2, NoneIsNoNumber
      DEF AsBranches!Fetch, FetchedBy
    <2> QED BY <2>3 DEF BranchStep, AsBranches!BranchNext
  <1>7. CASE HeadBranch(w) # <<j, ft>>
    <2>1. FetchedBy(w, j, ft)' = FetchedBy(w, j, ft)
      BY <1>5, <1>7 DEF FetchedBy
    <2> QED BY <1>1, <1>4, <2>1, BranchStutter
  <1> QED BY <1>6, <1>7

LEMMA PushCleanBranch ==
  ASSUME BranchInv, NEW w \in Workers, NEW j \in Jobs, NEW ft \in FailureTypes,
         PushClean(w)
  PROVE  BranchStep(j, ft)
  <1>1. worker[w].pc = "fetched" /\ UNCHANGED tip
    BY DEF PushClean, At
  <1>2. /\ worker[w].patch \in Nat \ {0}
        /\ HeadBranch(w) = <<JobOf(w), CleanType(w)>>
        /\ JobOf(w) \in Jobs /\ CleanType(w) \in FailureTypes
    BY <1>1, WorkersJob, CleanTypeIsType
    DEF BranchInv, Inv, AttemptInv, WorkerHasBranch, WorkerStates, HeadBranch
  <1>3. /\ worker' = [worker EXCEPT ![w] = worker'[w]]
        /\ worker'[w].pc = "cleaned"
    <2>1. worker \in [Workers -> WorkerStates] /\ worker[w] \in WorkerStates
      BY DEF BranchInv, Inv, TypeOK
    <2> QED BY <2>1 DEF PushClean, Goto, WorkerStates
  <1>4. \A v \in Workers \ {w} : FetchedBy(v, j, ft)' = FetchedBy(v, j, ft)
    BY <1>3, OthersFetched
  <1>5. FetchedBy(w, j, ft)' = None
    BY <1>3 DEF FetchedBy, At
  <1>6. clean' = [clean EXCEPT ![JobOf(w)][CleanType(w)] = worker[w].patch]
        /\ clean \in [Jobs -> [FailureTypes -> Nat]]
    BY DEF PushClean, BranchInv, Inv, TypeOK
  <1>7. CASE HeadBranch(w) = <<j, ft>>
    <2>1. JobOf(w) = j /\ CleanType(w) = ft
      BY <1>2, <1>7
    <2>2. clean'[j][ft] = worker[w].patch
      BY <1>2, <1>6, <2>1
    <2>3. FetchedBy(w, j, ft) = worker[w].patch
      BY <1>1, <1>7 DEF FetchedBy, At
    <2>4. AsBranches(j, ft)!PushFetched(w)
      BY <1>1, <1>2, <1>4, <1>5, <2>2, <2>3, NoneIsNoNumber
      DEF AsBranches!PushFetched, FetchedBy
    <2> QED BY <2>4 DEF BranchStep, AsBranches!BranchNext
  <1>8. CASE HeadBranch(w) # <<j, ft>>
    <2>1. clean'[j][ft] = clean[j][ft]
      BY <1>2, <1>6, <1>8
    <2>2. FetchedBy(w, j, ft) = None
      BY <1>8 DEF FetchedBy
    <2> QED BY <1>1, <1>4, <1>5, <2>1, <2>2, BranchStutter
  <1> QED BY <1>7, <1>8

\* Every other step of a worker leaves tip and clean and ends elsewhere.
LEMMA WorkerGivesUp ==
  ASSUME BranchInv, NEW w \in Workers, NEW j \in Jobs, NEW ft \in FailureTypes,
         WorkerAdvances(w) \/ Raise(w) \/ WorkerCrashes(w),
         ~FetchInternal(w), ~PushClean(w),
         \A t \in FailureTypes : ~PushPatch(w, t)
  PROVE  BranchStep(j, ft)
  <1>1. worker \in [Workers -> WorkerStates] /\ worker[w] \in WorkerStates
    BY DEF BranchInv, Inv, TypeOK
  <1>2. ASSUME UNCHANGED <<tip, clean>>,
               worker' = [worker EXCEPT ![w] = worker'[w]],
               worker'[w].pc # "fetched"
        PROVE  BranchStep(j, ft)
    BY <1>2, GivesUp
  <1>3. ASSUME UNCHANGED <<tip, clean>>, Done(w) PROVE BranchStep(j, ft)
    BY <1>2, <1>3, DoneMoves DEF BranchInv
  <1>4. CASE TakeTask(w) \/ StartInitial(w) \/ StartGreen(w) \/ StartRed(w)
    <2>1. UNCHANGED <<tip, clean>>
      BY <1>4 DEF TakeTask, StartInitial, StartGreen, StartRed, repoVars
    <2>2. worker' = [worker EXCEPT ![w] = worker'[w]]
          /\ worker'[w].pc \in {"start", "graph", "green", "red"}
      <3>1. CASE TakeTask(w)
        BY <1>1, <3>1 DEF TakeTask, WorkerStates
      <3>2. CASE StartInitial(w)
        BY <1>1, <3>2 DEF StartInitial, WorkerStates
      <3>3. CASE StartGreen(w) \/ StartRed(w)
        BY <1>1, <3>3 DEF StartGreen, StartRed, WorkerStates
      <3> QED BY <1>4, <3>1, <3>2, <3>3
    <2> QED BY <1>2, <2>1, <2>2
  <1>5. CASE StartExhausted(w) \/ OpenPR(w)
    <2>1. UNCHANGED <<tip, clean>>
      BY <1>5 DEF StartExhausted, OpenPR, repoVars
    <2>2. worker' = [worker EXCEPT ![w] = worker'[w]]
          /\ worker'[w].pc # "fetched"
      BY <1>1, <1>5 DEF StartExhausted, OpenPR, Goto, WorkerStates
    <2> QED BY <1>2, <2>1, <2>2
  <1>6. CASE StampRed(w)
    <2>1. UNCHANGED <<tip, clean>>
      BY <1>6 DEF StampRed, repoVars
    <2>2. worker' = [worker EXCEPT ![w] = worker'[w]]
          /\ worker'[w].pc # "fetched"
      BY <1>1, <1>6 DEF StampRed, Goto, WorkerStates
    <2> QED BY <1>2, <2>1, <2>2
  <1>7. CASE ReadRetries(w) \/ BumpRetry(w)
    <2>1. UNCHANGED <<tip, clean>>
      BY <1>7 DEF ReadRetries, BumpRetry, repoVars
    <2>2. worker' = [worker EXCEPT ![w] = worker'[w]]
          /\ worker'[w].pc # "fetched"
      BY <1>7, ReadRetriesShape, BumpRetryShape DEF BranchInv
    <2> QED BY <1>2, <2>1, <2>2
  <1>8. CASE \E t \in FailureTypes : DropOut(w, t) \/ RejectPatch(w, t)
    BY <1>3, <1>8 DEF DropOut, RejectPatch, repoVars
  <1>9. CASE RecordAttempt(w) \/ CommitPR(w) \/ Escalate(w)
    BY <1>3, <1>9 DEF RecordAttempt, CommitPR, Escalate, repoVars
  <1>10. CASE Raise(w) \/ WorkerCrashes(w)
    BY <1>3, <1>10 DEF Raise, WorkerCrashes, repoVars
  <1> QED BY <1>4, <1>5, <1>6, <1>7, <1>8, <1>9, <1>10 DEF WorkerAdvances

-----------------------------------------------------------------------------
(* The theorem *)

LEMMA NextBranch ==
  ASSUME BranchInv, [Next]_vars, NEW j \in Jobs, NEW ft \in FailureTypes
  PROVE  BranchStep(j, ft)
  <1>1. CASE WorkerStep
    <2> PICK w \in Workers : WorkerAdvances(w) \/ Raise(w) \/ WorkerCrashes(w)
      BY <1>1 DEF WorkerStep
    <2> QED BY PushPatchBranch, FetchInternalBranch, PushCleanBranch,
               WorkerGivesUp
  <1>2. CASE UNCHANGED <<worker, tip, clean>>
    <2>1. \A w \in Workers : FetchedBy(w, j, ft)' = FetchedBy(w, j, ft)
      BY <1>2, FetchedStays
    <2> QED BY <1>2, <2>1, BranchStutter
  <1>3. GitHubStep \/ RouterStep \/ ApiStep \/ UNCHANGED vars =>
          UNCHANGED <<worker, tip, clean>>
    BY DEF GitHubStep, DevRunFails, RunEnds, Redeliver, LoseHook, RouterStep,
           ReceiveFailure, SelectExisting, InsertJob, EnqueueInitial,
           IntakeRaises, HandlerCrashes, DeliverCompletion, ReceiveCompletion,
           LockExpires, ApiStep, RetryReads, RetryCommits, RetryEnqueues,
           RetryFails, vars, repoVars
  <1> QED BY <1>1, <1>2, <1>3 DEF Next

LEMMA InitBranch ==
  ASSUME Init, NEW j \in Jobs, NEW ft \in FailureTypes
  PROVE  AsBranches(j, ft)!BranchInit
  <1>1. tip[j] = 0 /\ clean[j][ft] = 0
    BY DEF Init
  <1>2. \A w \in Workers : ~At(w, "fetched")
    BY DEF Init, IdleWorker, At
  <1> QED BY <1>1, <1>2 DEF AsBranches!BranchInit

\* orchestrator.py:286-378 and git_ops.py:198-449, whatever repairs overlap,
\* are repeated, time out or die, the branches of every job go through the
\* steps of Branches: nothing reaches a clean branch that its internal branch
\* has not held when a worker fetched it.
THEOREM BranchesImplemented == Spec => WorkersImplementBranches
  <1>1. Init => \A j \in Jobs, ft \in FailureTypes :
                  AsBranches(j, ft)!BranchInit
    BY InitBranch
  <1>2. Inv /\ PRInv /\ AttemptInv /\ [Next]_vars =>
          \A j \in Jobs, ft \in FailureTypes :
            \/ AsBranches(j, ft)!BranchNext
            \/ UNCHANGED AsBranches(j, ft)!branchVars
    BY NextBranch DEF BranchInv, BranchStep
  <1> QED BY <1>1, <1>2, InvHolds, PRInvHolds, AttemptInvHolds, PTL
          DEF Spec, WorkersImplementBranches
=============================================================================
