------------------------------- MODULE HealX -------------------------------
(***************************************************************************)
(* The whole system: GitHub, the webhook router, the retry endpoint and    *)
(* the RQ workers over the state of RepairState, and what makes it correct.*)
(*                                                                         *)
(* The properties come in two groups.  The first holds whatever the        *)
(* environment does.  The second describes the protocol README.md draws:   *)
(* one worker, one workflow and no fault, and says which of its parts the  *)
(* environment can break.                                                  *)
(***************************************************************************)
EXTENDS GitHub, WebhookRouter, JobsApi, Orchestrator

Init ==
  /\ job = [j \in Jobs |-> None]
  /\ attempts = [j \in Jobs |-> <<>>]
  /\ locks = {}
  /\ queue = <<>>
  /\ patches = [j \in Jobs |-> 0]
  /\ tip = [j \in Jobs |-> 0]
  /\ clean = [j \in Jobs |-> [ft \in FailureTypes |-> 0]]
  /\ prs = {}
  /\ escalated = {}
  /\ running = {}
  /\ green = {}
  /\ red = {}
  /\ devFailed = {}
  /\ hooks = {}
  /\ redeliveries = 0
  /\ worker = [w \in Workers |-> IdleWorker]
  /\ router = [h \in Handlers |-> IdleHandler]
  /\ client = [c \in Clients |-> IdleClient]
  /\ retryCalls = 0

\* A completed run of an internal branch, the origin of a delivery.
Ended == green \union red

GitHubStep ==
  \/ \E d \in DevRuns : DevRunFails(d)
  \/ \E r \in running : RunEnds(r)
  \/ \E e \in devFailed \union Ended : Redeliver(e)
  \/ \E e \in hooks : LoseHook(e)

DeliverCompletion == \E r \in hooks \intersect Ended : ReceiveCompletion(r)

RouterStep ==
  \/ \E h \in Handlers :
       \/ \E d \in hooks \intersect devFailed : ReceiveFailure(h, d)
       \/ SelectExisting(h)
       \/ InsertJob(h)
       \/ EnqueueInitial(h)
       \/ IntakeRaises(h)
       \/ HandlerCrashes(h)
  \/ DeliverCompletion
  \/ \E r \in locks : LockExpires(r)

ApiStep ==
  \E c \in Clients :
    \/ \E j \in Jobs : RetryReads(c, j)
    \/ RetryCommits(c)
    \/ RetryEnqueues(c)
    \/ RetryFails(c)

\* What a worker does as long as nothing goes wrong.
WorkerAdvances(w) ==
  \/ TakeTask(w)
  \/ StartInitial(w)
  \/ StartGreen(w)
  \/ StartExhausted(w)
  \/ StartRed(w)
  \/ StampRed(w)
  \/ ReadRetries(w)
  \/ BumpRetry(w)
  \/ \E ft \in FailureTypes : DropOut(w, ft)
  \/ \E ft \in FailureTypes : PushPatch(w, ft)
  \/ RecordAttempt(w)
  \/ \E ft \in FailureTypes : RejectPatch(w, ft)
  \/ FetchInternal(w)
  \/ PushClean(w)
  \/ OpenPR(w)
  \/ CommitPR(w)
  \/ Escalate(w)

WorkerStep ==
  \E w \in Workers : WorkerAdvances(w) \/ Raise(w) \/ WorkerCrashes(w)

Next == GitHubStep \/ RouterStep \/ ApiStep \/ WorkerStep

Spec == Init /\ [][Next]_vars

\* Every process that can take a step takes one in the end: RQ's job_timeout
\* bounds each call of a worker, GitHub ends every run, delivers every event
\* it does not lose, and the handlers run until they return.
Fairness ==
  /\ \A w \in Workers : WF_vars(WorkerAdvances(w) \/ Raise(w))
  /\ WF_vars(\E r \in running : RunEnds(r))
  /\ WF_vars(DeliverCompletion)
  /\ \A h \in Handlers :
       /\ WF_vars(\E d \in hooks \intersect devFailed : ReceiveFailure(h, d))
       /\ WF_vars(SelectExisting(h) \/ InsertJob(h) \/ EnqueueInitial(h))
  /\ \A c \in Clients : WF_vars(RetryCommits(c) \/ RetryEnqueues(c))

FairSpec == Spec /\ Fairness

TypeOK ==
  /\ job \in [Jobs -> Row \union {None}]
  /\ attempts \in [Jobs -> Seq(Attempt)]
  /\ locks \subseteq DevRuns \union RunIds
  /\ queue \in Seq(Tasks)
  /\ patches \in [Jobs -> Nat]
  /\ tip \in [Jobs -> Nat]
  /\ clean \in [Jobs -> [FailureTypes -> Nat]]
  /\ prs \subseteq Jobs \X FailureTypes
  /\ escalated \subseteq Jobs
  /\ running \subseteq RunIds
  /\ green \subseteq RunIds
  /\ red \subseteq RunIds
  /\ devFailed \subseteq DevRuns
  /\ hooks \subseteq DevRuns \union RunIds
  /\ redeliveries \in 0 .. MaxRedeliveries
  /\ worker \in [Workers -> WorkerStates]
  /\ router \in [Handlers -> HandlerStates]
  /\ client \in [Clients -> ClientStates]
  /\ retryCalls \in 0 .. MaxManualRetries

-----------------------------------------------------------------------------
(* Whatever the environment does *)

Exists(j) == job[j] # None

QueueHasJobs == \A i \in DOMAIN queue : Exists(queue[i].job)

WorkersHaveJobs ==
  \A w \in Workers : worker[w].pc # "idle" =>
    worker[w].task \in Tasks /\ Exists(worker[w].task.job)

HandlersHaveJobs ==
  \A h \in Handlers :
    /\ router[h].pc # "idle" => router[h].run \in DevRuns
    /\ router[h].pc = "enqueue" => router[h].job \in Jobs /\ Exists(router[h].job)

ClientsHaveJobs ==
  \A c \in Clients :
    /\ client[c].pc # "idle" => client[c].job \in Jobs /\ Exists(client[c].job)
    /\ client[c].pc = "read" => client[c].loaded \in Row

\* orchestrator.py:71-74 and 140-143, no task is about a job that does not
\* exist, so the branches for a job that is not found never run; the same
\* goes for what the handlers and the clients hold.
NothingDangles ==
  QueueHasJobs /\ WorkersHaveJobs /\ HandlersHaveJobs /\ ClientsHaveJobs

\* Where a first repair of a job is under way or about to be.
InitialRepairs(j) ==
  {<<"handler", h>> : h \in {h \in Handlers :
       router[h].pc = "enqueue" /\ router[h].job = j}}
  \union {<<"task", i>> : i \in {i \in DOMAIN queue :
       queue[i] = InitialTask(j)}}
  \union {<<"worker", w>> : w \in {w \in Workers :
       worker[w].task = InitialTask(j)}}

\* README.md:90, duplicate deliveries cannot fire duplicate jobs: the failed
\* run has one job, and but for manual retries it is being repaired for the
\* first time in at most one place, whichever deliveries race, locks expire
\* and handlers fail.
OneRepairPerFailure ==
  /\ \A i, j \in Jobs :
       Exists(i) /\ Exists(j) /\ job[i].run = job[j].run => i = j
  /\ retryCalls = 0 => \A j \in Jobs : Cardinality(InitialRepairs(j)) <= 1

\* A job has passed CI with patch p or with one before it.
Backed(j, p) == \E r \in green : r.job = j /\ r.patch <= p

\* README.md:3, a pull request opens only after CI: behind each one there is
\* a green run of its job, on a patch no newer than the one it offers.
PRBacked == \A pr \in prs : Backed(pr[1], clean[pr[1]][pr[2]])

GreenTask(t) == t.fn = "completion" /\ t.concl = "success"

Truthful(t) == GreenTask(t) => t.run \in green /\ t.run.job = t.job

TasksAreTrue == \A i \in DOMAIN queue : Truthful(queue[i])

\* A worker on its way to a pull request has a green verdict on its job, and
\* the tree it has fetched or pushed is no older than that verdict.
WorkerIsBacked(w) ==
  /\ worker[w].pc # "idle" => Truthful(worker[w].task)
  /\ worker[w].pc \in {"green", "fetched", "cleaned"} =>
       GreenTask(worker[w].task) /\ worker[w].loaded # None
  /\ worker[w].pc = "fetched" => Backed(JobOf(w), worker[w].patch)
  /\ worker[w].pc = "cleaned" =>
       Backed(JobOf(w), clean[JobOf(w)][CleanType(w)])

\* The internal branch is never behind a patch that CI has seen.
RunsAreOnBranch ==
  /\ \A j \in Jobs : tip[j] <= patches[j]
  /\ \A r \in running \union green : r.patch <= tip[r.job]

\* router.py:219-251 and orchestrator.py:149-378, the green verdict travels
\* from the run through the queue to the worker without changing its job or
\* its meaning, while branches are pushed over and other workers are at it.
GreenIsCarried ==
  /\ RunsAreOnBranch
  /\ TasksAreTrue
  /\ \A w \in Workers : WorkerIsBacked(w)

\* The pr_url that the dashboard links to is a pull request that exists, and
\* pr_opened is never shown without one.
PrUrlIsReal ==
  \A j \in Jobs : Exists(j) =>
    /\ job[j].pr # None => <<j, job[j].pr>> \in prs
    /\ job[j].status = "pr_opened" => job[j].pr # None

\* orchestrator.py:159-169, a completion finds the attempt it is about: rows
\* and current_internal_branch are committed together, so the guards against
\* a missing last attempt never matter.
CompletionHasAttempt ==
  /\ \A j \in Jobs : Exists(j) /\ job[j].tracked => attempts[j] # <<>>
  /\ \A i \in DOMAIN queue :
       queue[i].fn = "completion" => attempts[queue[i].job] # <<>>
  /\ \A w \in Workers : worker[w].pc \in {"red", "bump", "count", "green"} =>
       attempts[JobOf(w)] # <<>>

\* A worker between the comparison with the limit and the commit of its retry.
Compared(w) == worker[w].pc \in {"red", "bump", "count"}

\* Workers that have found retries left for j and have not counted theirs.
Racers(j) == {w \in Workers : Compared(w) /\ JobOf(w) = j}

\* How far the counter can pass the limit: every worker but one can have
\* compared it before the others incremented it.
Overrun == IF Workers = {} THEN 0 ELSE Cardinality(Workers) - 1

\* orchestrator.py:153 and 176, the comparison with the limit, the read of the
\* counter and the UPDATE of it are three statements without a lock.  Of two
\* workers on one job, both can count the same retry, but what is counted and
\* what they are about to count together exceed the limit by at most one.  It
\* takes a third worker, or a manual retry between two of the statements, to
\* bring an old counter back after the others have been compared.
RetriesBounded ==
  \A j \in Jobs : Exists(j) =>
    job[j].retries + Cardinality(Racers(j)) <= MaxRetries + Overrun

\* db.py:123 with the code's reading of the limit, for one worker: one first
\* attempt and at most MaxRetries more per start of the job, whatever is
\* delivered twice, expires or dies, and wherever a retry by hand resets the
\* counter under the worker.  Two workers that count the same retry both push,
\* so with them the limit bounds the counter but not the attempts.
AttemptBudget ==
  \A j \in Jobs :
    /\ Exists(j) => job[j].retries <= MaxRetries
    /\ patches[j] <= (MaxRetries + 1) * (retryCalls + 1)

RedRuns(j) == {r \in red : r.job = j}

\* README.md:89, the escalation comment is earned: more red runs of the job
\* than there are retries.  A lock that expires is the exception: then one
\* run can be counted twice.
EscalationEarned ==
  \A j \in escalated : Cardinality(RedRuns(j)) > MaxRetries

-----------------------------------------------------------------------------
(* One worker, one workflow, no fault *)

Settled(j) == Exists(j) /\ job[j].status \in Terminal

\* What can still move a job: a request that will enqueue, a task, a worker
\* before it has handed over to CI, a CI run, or its undelivered webhook.
Drivers(j) ==
  {<<"handler", h>> : h \in {h \in Handlers :
       router[h].pc = "enqueue" /\ router[h].job = j}}
  \union {<<"client", c>> : c \in {c \in Clients :
       client[c].pc = "enqueue" /\ client[c].job = j}}
  \union {<<"task", i>> : i \in {i \in DOMAIN queue : queue[i].job = j}}
  \union {<<"worker", w>> : w \in {w \in Workers :
       /\ worker[w].pc \notin {"idle", "pushed", "escalate"}
       /\ JobOf(w) = j}}
  \union {<<"run", r>> : r \in {r \in running : r.job = j}}
  \union {<<"hook", r>> : r \in {r \in hooks \intersect Ended :
       r.job = j /\ r \notin locks}}

\* A worker whose session has read a settled job.  If it ends with the status
\* it has read, its UPDATE does not name the status, and the job keeps the one
\* that another process has given it since.
Stale(w) == worker[w].loaded # None /\ worker[w].loaded.status \in Terminal

\* The drivers that are sure to move the job on.
Movers(j) == Drivers(j) \ {<<"worker", w>> : w \in {w \in Workers : Stale(w)}}

Stranded(j) == Exists(j) /\ ~Settled(j) /\ Movers(j) = {}

\* orchestrator.py:63-64, control always comes back: an unsettled job has
\* something that will move it on.
NoStrandedJob == \A j \in Jobs : ~Stranded(j)

\* The steps that drop what would have moved j: a task that is not enqueued
\* after the commit or the lock, a process that dies, a webhook that is lost,
\* or one that comes while current_internal_branch is not committed.
Drops(j) ==
  \/ \E h \in Handlers : router[h].job = j /\ (IntakeRaises(h) \/ HandlerCrashes(h))
  \/ \E c \in Clients : client[c].job = j /\ RetryFails(c)
  \/ \E w \in Workers : ~At(w, "idle") /\ JobOf(w) = j /\ WorkerCrashes(w)
  \/ \E r \in hooks \intersect Ended : r.job = j /\
       \/ LoseHook(r)
       \/ ReceiveCompletion(r) /\ ~job[j].tracked
       \/ ReceiveCompletion(r) /\ r \in locks' /\ queue' = queue

\* router.py:188 and 240, jobs.py:164, orchestrator.py:333 and 538: nothing
\* else strands a job.  Neither an exception or a timeout wherever it comes, nor
\* verdicts that contradict each other, nor repeated deliveries, nor repairs
\* that overlap leave a job that is not settled and that nothing will move.
OnlyFaultsStrand ==
  [][\A j \in Jobs : ~Stranded(j) /\ Stranded(j)' => Drops(j)]_vars

\* A job is moved by one thing at a time, and a settled one by nothing.
OneDriver ==
  \A j \in Jobs : Exists(j) =>
    Cardinality(Drivers(j)) <= (IF Settled(j) THEN 0 ELSE 1)

\* db.py:60, a terminal status is terminal until somebody asks for a retry.
TerminalIsFinal ==
  [][\A j \in Jobs :
       Settled(j) /\ job'[j].status # job[j].status =>
         \E c \in Clients : client[c].pc = "read" /\ client[c].job = j]_vars

\* README.md:3 and 16, the tree a pull request offers is one all of the
\* repository's CI has passed.
VerifiedPR ==
  \A pr \in prs : \A f \in Workflows :
    [job |-> pr[1], patch |-> clean[pr[1]][pr[2]], wf |-> f] \in green

\* README.md:283 and 287, the run stamped on an attempt is a run of that
\* attempt's patch, and success means that it was green.
StampsAreTrue ==
  \A j \in Jobs : \A i \in DOMAIN attempts[j] :
    LET a == attempts[j][i] IN
    /\ a.ciRun # None => a.ciRun.patch = a.patch
    /\ a.success <=> a.ciRun # None /\ a.ciRun \in green

\* README.md:108, a retry is primed with the patch that failed and with the
\* logs of the run in which it failed.
PrimedWithFailedPatch ==
  \A w \in Workers :
    At(w, "graph") /\ worker[w].task.fn = "completion" =>
      worker[w].prev = worker[w].task.run.patch

\* README.md:282, the attempts of a job are numbered 1, 2, 3 without gaps.
AttemptsNumbered ==
  \A j \in Jobs : \A i \in DOMAIN attempts[j] : attempts[j][i].num = i

\* README.md:89, every developer failure gets a job, and a job, started by a
\* failure or started again by hand, is settled in the end.
EveryFailureResolved ==
  /\ \A d \in DevRuns :
       d \in devFailed ~> \E j \in Jobs : Exists(j) /\ job[j].run = d
  /\ \A j \in Jobs : Exists(j) ~> Settled(j)

-----------------------------------------------------------------------------
(* The lifecycle that HealX implements *)

\* A job that is neither queued nor settled is in the hands of the agents or
\* of CI; the verdict is that of the patch on its internal branch.
Verdicts(j, runs) == \E r \in runs : r.job = j /\ r.patch = tip[j]

PhaseOf(j) ==
  IF ~Exists(j) THEN "none"
  ELSE IF job[j].status \notin {"repairing", "retrying"} THEN job[j].status
  ELSE IF \E w \in Workers : At(w, "graph") /\ JobOf(w) = j THEN "writing"
  ELSE IF Verdicts(j, green) THEN "green"
  ELSE IF Verdicts(j, red) THEN "red"
  ELSE "testing"

RoundOf(j) ==
  IF Exists(j) /\ job[j].status \in {"repairing", "retrying"}
  THEN job[j].retries + 1 ELSE 0

Lifecycle == INSTANCE RepairLifecycle WITH
  phase <- [j \in Jobs |-> PhaseOf(j)],
  round <- [j \in Jobs |-> RoundOf(j)]

\* README.md:36-82 and db.py:60, a job goes through the rounds and ends of
\* RepairLifecycle whatever the processes in between do.
ImplementsLifecycle == Lifecycle!LifecycleSpec

-----------------------------------------------------------------------------
(* The branches as HealX uses them *)

\* The internal branch of job j and its clean branch for failure type ft.
AsBranches(j, ft) == INSTANCE Branches WITH
  Ops <- Workers,
  Contents <- Nat \ {0},
  internal <- IF tip[j] = 0 THEN None ELSE tip[j],
  clean <- IF clean[j][ft] = 0 THEN None ELSE clean[j][ft],
  fetched <- [w \in Workers |->
    IF At(w, "fetched") /\ HeadBranch(w) = <<j, ft>>
    THEN worker[w].patch ELSE None]

\* orchestrator.py:286-378, the workers use the branches of a job as Branches
\* has it, as the commands of GitOps implement it: no repair that overlaps, is
\* timed out or is repeated makes a clean branch of anything but a patch that
\* the internal branch has held.
WorkersImplementBranches ==
  /\ \A j \in Jobs, ft \in FailureTypes : AsBranches(j, ft)!BranchInit
  /\ [][\A j \in Jobs, ft \in FailureTypes :
          \/ AsBranches(j, ft)!BranchNext
          \/ UNCHANGED AsBranches(j, ft)!branchVars]_vars
=============================================================================
