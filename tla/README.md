# HealX in TLA+

HealX repairs failed CI runs: a webhook reports a failed GitHub Actions run, two
LLM agents diagnose it and write a patch, the patch is force-pushed to an
internal branch, and the webhook of the CI run on that branch decides whether a
pull request is opened, another attempt is made, or a human is asked. Nothing
polls. The state lives in PostgreSQL, Redis and on GitHub, and three kinds of
process change it without a common lock. This directory models that protocol,
checks it with TLC, and proves most of its safety properties with TLAPS.

## 1. The system

| Component | State | Operations | Talks to |
|---|---|---|---|
| Endpoint (`app/webhook/validator.py`, `router.py:67-123`) | none | check the signature, parse, ignore or hand over | GitHub (webhooks) |
| Webhook router (`app/webhook/router.py`) | Redis locks `healx:lock:*` (TTL 600 s / 1800 s), rows of `repair_jobs` | developer failure: lock, SELECT, INSERT, enqueue; internal completion: SELECT by branch, lock, enqueue | PostgreSQL, Redis, RQ |
| Orchestrator (`app/pipeline/orchestrator.py`) in RQ workers (`app/worker.py`) | `repair_jobs`, `patch_attempts`, a SQLAlchemy session per task | `handle_initial_failure`, `handle_internal_branch_completion` and their ends | agents, git, GitHub API, PostgreSQL |
| Git operations (`app/pipeline/git_ops.py`) | a temporary clone; branches on GitHub | `push_patch_to_internal_branch`, `open_clean_fix_pr`, `post_escalation_comment` | GitHub |
| Agents (`app/agents/*`) | the state of one graph invocation | triage, repair, `_extract_diff`, `_validate_patch` | model API, GitHub files, Langfuse (`app/observability/*`) |
| Jobs API (`app/api/jobs.py`) | `repair_jobs` | `retry_job`; `list_jobs` and two more reads | PostgreSQL, RQ |
| Timeline and statistics (`app/api/timeline.py`, `stats.py`) | none | reads of several statements | PostgreSQL |
| Dashboard (`app/static/*.js`, `app/templates/*`) | what the page shows, requests under way | poll the statistics, load the filtered table | jobs API, statistics, timeline |
| GitHub client, database models, settings, migrations, shell | see `PROJECT.json` | | |

What is hard here, and what makes each part correct:

* **The endpoint.** GitHub sends much more than completions, about the same runs.
  What passes must be exactly what the protocol waits for, with the verdict of the
  run (`EntryIsExact`).
* **Intake.** Two guards, a lock with a TTL and a unique constraint, must turn any
  number of racing and repeated deliveries into one job and one first repair
  (`OneRepairPerFailure`), although every step between them can fail.
* **The loop.** It is driven by one webhook per CI run. A job that is not settled
  must always have something that will move it (`NoStrandedJob`), exactly one
  such thing (`OneDriver`), and be settled in the end (`EveryFailureResolved`). In a
  worse environment some jobs are stranded; only the steps that really lose a
  message or a process may do that (`OnlyFaultsStrand`).
* **The verdict.** What CI says of a patch must be applied to that patch: to the
  attempt that is stamped (`StampsAreTrue`), to the patch a retry is primed with
  (`PrimedWithFailedPatch`) and to the tree a pull request offers (`VerifiedPR`,
  `PRBacked`, `GreenIsCarried`).
* **The counter.** `retry_count` bounds the attempts, ends the loop, numbers the
  attempts and feeds the statistics (`AttemptBudget`, `EscalationEarned`,
  `AttemptsNumbered`, `AttemptsCounted`). It is compared, read and written back in
  three statements without a lock, so two workers on one job can count the same
  retry, and the limit holds strictly only of one worker (`AttemptBudget`); two pass
  it by one at most (`RetriesBounded`).
* **Stale sessions.** A worker reads the job, spends minutes with agents and git,
  and then writes the columns it changed over what others have committed
  (`PrUrlIsReal`).
* **Branches.** Operations on the same branches run in separate clones at the same
  time, and any command can fail (`NoAccumulation`, `OnlyPushMoves`). What the workers
  rely on and what the commands do is one abstract specification (`WorkersImplementBranches`, `CommandsImplementBranches`).
* **Agents' output.** Whatever the models answer, the dispatcher gets a state it can
  use (`OutcomeIsDispatchable`). The patch is checked by searching its text, while
  `git apply` acts on what it parses; each limit is kept where the two agree
  (`ReadyPatchIsSafe`, `ExactOnOrdinary`). The prompt is bounded (`PromptIsBounded`).
* **Reads of several statements.** The timeline, the statistics and the pages of the
  list are put together from statements between which workers commit
  (`TimelineExplains`, `TimelineChronological`, `StatsAgree`, `PagingSkipsNothing`,
  `TotalIsKept`).
* **The page.** Its requests fail and their answers overtake each other
  (`StripNeverGoesBack`, `StripCatchesUp`, `TableCatchesUp`).

`PROJECT.json` lists these hazards one by one, each at its line.

## 2. The modules

```
 RepairState ── GitHub, WebhookRouter, JobsApi, Orchestrator ── HealX ─┬─ MCHealX
                                                                       ├─ WebhookEntry ── IntakeProofs
           RepairLifecycle, Branches <── refined by ───────────────────┼─ Reporting
                       Branches <── refined by ── GitOps ─┬─ MCGitOps  └─ HealXProofs ─┬─ PRProofs
                                                          └─ GitOpsProofs              └─ LoopProofs ── TurnProofs
 AgentGraph, PatchCheck ── Agents ── AgentProofs            Dashboard ── DashboardProofs
```

(`IntakeProofs` also extends `HealXProofs`, and `TurnProofs` extends `Reporting`.)

* **RepairState**: constants with their assumptions, variables, rows, tasks.
  `job` is `repair_jobs`, `attempts` is `patch_attempts`, `locks` and `queue` are
  Redis, `tip`, `clean` and `prs` are GitHub. A patch is its serial number, a
  branch is the number of the patch it holds. The internal branch of a job is a
  function of its id, so `tracked` stands for `current_internal_branch`; the clean
  branch is a function of id and failure type, which is why `clean` and `prs` are
  indexed by both. `Flush` is SQLAlchemy's commit: it writes the columns that
  differ from what was loaded.
* **GitHub** (external): runs end, webhooks are delivered, repeated or lost.
* **WebhookRouter**: `ReceiveFailure`, `SelectExisting`, `InsertJob`,
  `EnqueueInitial` are the code between the awaits of
  `_handle_developer_failure_event`; `ReceiveCompletion` is all of
  `_handle_internal_branch_event` from its SELECT on.
* **JobsApi**: `RetryReads`, `RetryCommits`, `RetryEnqueues` of `retry_job`.
* **Orchestrator**: a worker with a program counter. A step ends at each commit,
  each call of agents, git or GitHub, and each return. `loaded` holds the job as
  the session last read it. A retry is counted in three steps: the comparison
  (`StartRed`), the SELECT by which `retry_count += 1` refreshes the expired row
  (`ReadRetries`), and the UPDATE with the value so computed (`BumpRetry`), whatever
  the row holds by then. `Raise` is every exception that ends in
  `_mark_job_error`; `WorkerCrashes` is a dead process, or a failed commit, after
  which `_mark_job_error` fails on the same session and the job stays as it is.
* **WebhookEntry** puts the endpoint in front of HealX. `HealX` has in `hooks` the
  completions its router acts on; here GitHub sends requests of several types,
  actions and conclusions, intact or not, and the endpoint finds the completions
  among them. `Passes` is what reaches a handler. From the checks to the first await
  of a handler nothing else runs, so checks and handler are one step.
* **HealX** composes them: `Next` is a disjunction of GitHub, the router, the API
  and the workers. It states the properties.
* **RepairLifecycle**: the abstract specification, a job in rounds of a patch and a
  CI run. `HealX` maps its state to it with `PhaseOf` and `RoundOf`
  (`ImplementsLifecycle`).
* **Branches**: the abstract specification of the internal and the clean branch of
  a job: an attempt replaces the first as a whole, the second gets as a whole what
  was fetched from the first. A fetch and the push that follows it are two steps.
* **GitOps**: the git commands of the two operations in their clones, with the
  working tree, the patch file in it, and `finally`. Its operations are what
  `PushPatch`, `FetchInternal` and `PushClean` of Orchestrator do in one step. That
  this is a sound summary is what `Branches` is for: the contents of a branch are
  patch numbers for the workers (`WorkersImplementBranches`) and trees for the
  commands (`CommandsImplementBranches`).
* **AgentGraph**: one invocation of the graph; every answer of the models and of
  GitHub is possible, and every set-up of the traces. Orchestrator sees only its
  three outcomes and its exceptions.
* **PatchCheck**: `_validate_patch` on all diffs up to a length. The two actions
  write a diff and keep what `git apply` makes of it: the files, the changed lines and
  the paths, less the first component of their names, whatever that is. The operators
  of the check see the text alone and count in it as the code does.
* **Agents** composes the two: the repair model writes the diff, the graph reads it.
* **Reporting**: the timeline, the success count, the mean number of attempts and the
  number the page shows. A request reads the jobs first (`ReadJobs`, which keeps them in
  `seen`) and the rest in later statements, from the state HealX is in by then. A
  timeline is a set of events with the order the answer lists them in (`Listed`), which
  leaves open what ORDER BY leaves open.
* **Dashboard**: the table of jobs as its readers see it, reduced to ids, statuses
  and commits: somebody who reads page after page of `list_jobs`, the table of the
  page in the browser, or its strip of counts. The three share nothing but the table,
  so a behaviour has one of them. A page of the list is the set of rows whose `Place` in
  the order of the list is within OFFSET and LIMIT.

The faults are a constant, so that a run says in which environment it holds:
`error` (a call fails before it has an effect), `timeout` (RQ's `job_timeout`, or a
reply lost after the effect), `crash`, `redis` (an enqueue raises), `expiry` (a
lock outlives its TTL), `loss` (a webhook is never delivered), `fastCI` (a CI run
ends before the worker that pushed has committed).

Definitions marked "Variant with a bug" are not part of any specification; each is
what its neighbour would be with a plausible mistake, and each property is violated
when the variant takes the neighbour's place.

## 3. The runs

`CHECK_DEADLOCK FALSE` everywhere: HealX rests when every job is settled, and the
bounded modules stop at their bounds. That it does not stop too early is what
`NoStrandedJob` and `EveryFailureResolved` say.

| Run | Instance | Shows |
|---|---|---|
| `nominal` | 1 job, 1 worker, 1 workflow, 3 retries, 2 repeated deliveries, failing calls, a reader of two statements at any time | the protocol of the repository's README: one driver per job, true stamps, verified pull requests, attempts numbered without gaps, a timeline and statistics that tell what happened |
| `lifecycle` | 2 jobs on one queue and worker, 1 retry, 1 manual retry, failing calls, fair processes | implements `RepairLifecycle`; a terminal status changes only by a manual retry; every failure gets a job and every job is settled |
| `intake` | 1 developer run that can fail twice, 2 ids, 2 handlers, 2 repeated deliveries; redis, crash, expiry, loss | the endpoint acts on the right requests; one job and one first repair per failure |
| `adverse` | 1 job, 1 worker, 1 retry, 1 repeated delivery, 1 manual retry; every fault but timeout | types, nothing dangling, completions that find their attempt, the budget of attempts of one worker; only faults strand a job |
| `workflows` | 2 workflows on every push, 2 workers, 1 retry; error, timeout | verdicts that contradict each other and are handled at once, each worker comparing, reading and writing the counter in steps of its own: increments can be lost, the counter passes its limit by one at most, an escalation is earned, no job is stranded |
| `workers` | 2 users retry at once, 2 workers, 2 failure types; every fault but expiry and loss | pull requests are backed, green verdicts are carried intact, `pr_url` is real and the branches are used as `Branches` has it even when repairs of one job overlap |
| `gitops` | 2 operations at once, 3 in all, 2 paths, 2 patches | branches hold one whole attempt; the commands implement `Branches` |
| `agents` | 2 files, 1 read at most, 2 types, diffs of 4 lines, limits 1 file and 1 line | the outcome is one the dispatcher can use; the checks are exact on diffs whose text tells what they do, and what each of them is worth on the others |
| `dashboard` | 3 jobs, pages of 1, a table of 2, 2 requests at once, 4 commits, 1 change of the filter, 1 lost request | no job is missed by paging, the page ends with what the table holds |

**Bounds.** The number of retries is the code's 3 where the number matters and 1
(one retry and then the end) where a run adds faults or processes; `workers`, whose
repairs overlap because users start them, and `intake`, which is about the first
repair, need none. One redelivery is a duplicate; two let a duplicate race with
another. Two workers, handlers, clients, jobs and workflows are enough for each race,
as every race described in section 1 is between two. The failure type names the clean
branch and decides nothing else, so only the runs where two repairs can disagree about
it have two. `MaxRedeliveries` and `MaxManualRetries` bound counters that are unbounded
in the world; `MaxOps`, `MaxLength`, `MaxCommits`, `MaxEdits` and `MaxErrors` those of
the small modules. The limits of `PatchCheck` (1 file, 1 line instead of 3 and
50), of `AgentGraph` (1 file instead of 5) and the sizes of `Dashboard` (1 and 2 rows
instead of 20 and 50) are chosen so that the limit is passed within the bound.

**Fairness** (`Fairness` in `HealX`, used by `lifecycle`; `DashFairness` in
`Dashboard`). Each worker, as RQ hands it tasks and `job_timeout` ends every call that
hangs; the end of CI runs, as GitHub limits their time; the delivery of webhooks that
are not lost; each handler and each client request between its awaits. All of it is
weak: none of these steps is disabled by another process once it is enabled, and the
queue is first in first out. Nothing is assumed of the faults, of redeliveries or of
users. For the page: its timers fire, the server answers each request, and the browser
takes the answer; that a request fails is bounded and never required, and whether the
jobs come to rest is the bound on commits.

**Deviations.** Three runs each refute one statement of the repository; the
counterexample is the evidence of a finding in `PROJECT.json`:

| Run | Statement | What happens |
|---|---|---|
| `claim_verified` | README.md:16, no pull request that CI has not verified | with two workflows one green run is enough |
| `claim_stamps` | README.md:283, success means that this attempt passed | after a manual retry the stamp goes to an attempt of the earlier start, and the next retry is primed with its patch |
| `claim_attempt_only` | git_ops.py:130-131, the internal branch holds exactly the attempt | it also holds `.healx.patch` |

Other statements the code does not keep, met while modelling and left without a run
of their own:

* db.py:123 and README.md:278 allow three attempts; the limit counts retries, so
  there are four (`AttemptBudget`). With several workers on one job there can be
  more: two of them read the same counter, both write the same value back and both
  push, so that two workers and two workflows come to 1 + 2 * 3 = 7 patches; the
  counter passes 3 by one at most (`RetriesBounded`). With a third worker, or with a
  manual retry between the read and the write, the counter itself can be taken back.
* git_ops.py:427 promises every CI output in the escalation comment; the last red
  run is neither stamped nor are its logs stored (orchestrator.py:153).
* db.py:60 ends the lifecycle with terminal statuses; with two workflows the second
  verdict moves a job on from `pr_opened` (`TerminalIsFinal` holds with one).
* router.py:236 ignores duplicate deliveries; not after the lock's 1800 s.
* router.py:5-7 makes a job and a task of a failed run; if the enqueue fails after
  the commit, the job stays `queued` for ever, because every later delivery finds
  the row. `queued` is not a status `retry_job` accepts. `Drops` in `HealX` lists
  this and every other step after which a job can be stranded.
* orchestrator.py:63-64 relies on a webhook that is ignored if the CI run ends
  before `current_internal_branch` is committed.
* README.md:332 accepts a retry only in terminal states; the second of two
  simultaneous requests is accepted in any.
* repair.py:340-341 limits a patch to 3 files and 50 lines. Files are not counted that
  are new or whose headers do not begin with `a/`, nor are changed lines that begin
  with `+++` or `---`.
* README.md:107 and repair.py:343 keep patches out of `infra/` and three more
  directories. The check looks for `a/infra/` and `b/infra/` anywhere in the text
  (repair.py:368), while `git apply` strips any first component (git_ops.py:252): a
  header `--- x/infra/f` passes and the file in `infra/` is changed, and so does
  `--- a/app/migrations/f`, if the promise is meant of nested directories too. On the
  other side a change of `a/data/infra/f`, or any line with `a/infra/` in it, is
  refused. `ReadyPatchIsSafe` and `ExactOnOrdinary` state the conditions
  (`Conventional`, `OldFilesOnly`, `PlainMarks`, `NamedWhereChanged`) under which each
  limit is kept and the checks are exact.
* README.md:330 calls the timeline chronological; after a manual retry attempts are
  interleaved by their numbers.

## 4. The proofs

Everything below is proved for every number of jobs, failures, workflows, workers,
handlers and clients, every `MaxRetries` and, where nothing else is said, every set of
faults; the runs say it of their instances. The modules of single components are
proved for every size of theirs: any number of operations and paths, any limits,
diffs of any length, any number of jobs in the list and any page size.

| Module | Theorem | Statement |
|---|---|---|
| `HealXProofs` | `TypeCorrect` | `Spec => []TypeOK` |
| | `TasksHaveJobs` | `Spec => []NothingDangles` |
| | `CompletionsFindAttempt` | `Spec => []CompletionHasAttempt` |
| `PRProofs` | `GreenReachesPR` | `Spec => []GreenIsCarried` |
| | `PullRequestsBacked` | `Spec => []PRBacked` |
| | `LinksAreReal` | `Spec => []PrUrlIsReal` |
| | `BranchesImplemented` | `Spec => WorkersImplementBranches` |
| `LoopProofs` | `RetriesStayBounded` | `FewHands`: `Spec => []RetriesBounded` |
| | `EscalationsAreEarned` | without `expiry`: `Spec => []EscalationEarned` |
| | `PatchesStayBounded` | `OneWorker`: `Spec => []AttemptBudget` |
| | `OnlyDropsStrand` | `Spec => OnlyFaultsStrand` |
| | `NothingLostStrands` | without `crash`, `redis`, `loss`, `fastCI`: `Spec => []NoStrandedJob` |
| `TurnProofs` | `OneDriverHolds` | `Orderly`: `Spec => []OneDriver` |
| | `PRsAreVerified` | `Orderly`: `Spec => []VerifiedPR` |
| | `SettledIsFinal` | `Orderly`: `Spec => TerminalIsFinal` |
| | `LifecycleImplemented` | `Orderly`: `Spec => ImplementsLifecycle` |
| | `StatisticsAgree` | `Orderly`: `ReportingSpec => []StatsAgree` |
| | `AttemptsAreNumbered` | `Orderly`, `Unretried`: `Spec => []AttemptsNumbered` |
| | `StampsTrue` | `Orderly`, `Unretried`: `Spec => []StampsAreTrue` |
| | `RetriesPrimed` | `Orderly`, `Unretried`: `Spec => []PrimedWithFailedPatch` |
| | `TimelinesChronological` | `Orderly`, `Unretried`: `ReportingSpec => []TimelineChronological` |
| | `TimelinesExplain` | `Orderly`, `Unretried`: `ReportingSpec => []TimelineExplains` |
| | `AttemptsAreCounted` | `Orderly`, `Unretried`: `Spec => []AttemptsCounted` |
| `IntakeProofs` | `FailuresRepairedOnce` | `Spec => []OneRepairPerFailure` |
| | `EntryImplementsHealX` | `EntrySpec => Spec /\ [](Inv /\ RunsInv)` |
| | `EntryExact` | `EntrySpec => []EntryIsExact` |
| `GitOpsProofs` | `GitTypesHold` | `GitSpec => []GitTypeOK` |
| | `NothingAccumulates` | `GitSpec => []NoAccumulation` |
| | `PushesMoveInternal` | `GitSpec => OnlyPushMoves` |
| | `CommandsRefineBranches` | `GitSpec => CommandsImplementBranches` |
| `AgentProofs` | `OutcomesDispatchable` | `AgentSpec => []OutcomeIsDispatchable` |
| | `PromptsBounded` | `AgentSpec => []PromptIsBounded` |
| | `ChecksExact` | `AgentSpec => []ExactOnOrdinary` |
| | `ReadyPatchesSafe` | `AgentSpec => []ReadyPatchIsSafe` |
| `DashboardProofs` | `PagingMissesNothing` | `DashSpec => []PagingSkipsNothing` |
| | `PagesKeepTotal` | `DashSpec => []TotalIsKept` |
| | `StripOnlyAdvances` | `DashSpec => StripNeverGoesBack` |

`Orderly` is the environment the protocol of the repository's README is drawn for: CI
has one workflow, one user asks for retries, and calls may fail, but no process dies,
nothing is lost or comes too early, and no lock expires. `Unretried` says that nobody
retries by hand. `FewHands` is one worker, or two and no user who retries, and
`OneWorker` at most one; beyond them what the two theorems say is false, as section 3
tells. Where a theorem has such a hypothesis, the runs show why
(`workflows`, `workers`, `claim_*`).

**Types and rows.** Neither `TypeOK` nor `NothingDangles` is inductive alone. A
worker or a client that commits writes `Flush` of the row in the table, so the row
must exist for the result to be one; and that the job of a task exists can only be
said of tasks that are tasks. `Inv` is their conjunction. The argument is that a row,
once inserted, is only replaced by a row (`JobsRemain`, `CommitsRow`), so what a
task, worker, handler or client is about stays there, and each of them gets its job
from a place where it exists: a worker from the queue, the queue from a handler that
has inserted the row, from a client that has read it or from a lookup by branch.
There is one lemma per action; `WorkerMoves`, `HandlerMoves` and `ClientMoves` say
once what a step of each kind of process leaves intact.

The second half of `HealXProofs` is what the other modules share: what a step does to
each column of the table (`WorkerColumns`, `CommitOfRow`), to the workers
(`StepShape`, `GoesOnShape`), to the queue (`TakenTask`, `AppendedTask`,
`EnqueueSteps`), and `RunsInv`: a CI run ends once, on a patch that was written, and
no webhook comes before its run has ended.

**Pull requests.** `PRBacked` needs the path of the verdict. `GreenIsCarried` follows
it: CI only runs patches that are, or were, on the internal branch, whose tip only
moves to later patches (`RunsAreOnBranch`); a task with the verdict success names a
green run of its job (`TasksAreTrue`); a worker in `_finalize_success` holds such a
task, has fetched a tree no older than that run, and has pushed it to its clean branch
(`WorkerIsBacked`). The delicate steps are those of other workers. One may push over
the clean branch of a pull request, or of a worker about to open one: then it has a
green run of its own (`PushCleanPR`). One may change `failure_type`, which names the
clean branch: the session of the first has read the job and does not see it
(`BystanderBacked`, where `loaded # None` is needed). `PRInv`, the conjunction with
`PRBacked`, is inductive relative to `Inv`.

What `PRBacked` does not say is that the green run is of the very tree offered:
`VerifiedPR` says so, holds with one workflow (`PRsAreVerified`) and fails with two
(`claim_verified`).

`PrUrlIsReal` is about sessions that have read the row before somebody else's pull
request. Pull requests are never closed, so the link stays true; what has to be
excluded is a commit that writes `pr_opened` without the link, or an older link.
`PrUrlInv` adds `SessionKnowsPR`: while a worker is inside the try block, a link that
its session has read from the row is still in the table, and a worker at `opened` has
a session loaded and the pull request of its head branch is open on GitHub.

**Attempts.** `CompletionHasAttempt` is not inductive: that a job with
`current_internal_branch` set has an attempt says nothing of a worker whose session
is about to set it, nor of a completion that was enqueued before a retry cleared it.
`AttemptInv` says that the branch of a tracked job exists and that an attempt is
recorded, the same for the job of every completion in the queue or in a worker, and
that a worker between the push and the commit has pushed. Branches and attempts only
accumulate (`BranchesStay`), so a completion keeps what it had when it was enqueued.
The commits of sessions that have read an older row are `CommitTracks`: the UPDATE
names the columns that changed, so a stale session keeps what is in the table, and
only `RecordAttempt` turns the column on, in the commit that adds the attempt.

**The counter.** `RetriesBounded` counts, for each job, the workers between the
comparison and the UPDATE together with the counter. A worker joins them only if
the counter is below the limit, when at most all the others are among them. The UPDATE
writes what the worker has read plus one, which may be less than the counter plus
one, or more. `BoundInv` therefore bounds what a worker has read as it bounds the
counter, and says that it is no more than the counter unless it is below the limit
(`ReadIsBounded`); with two workers that is inductive. With three, the old value of
one can undo what another has counted after the third has compared, which is why
`FewHands` is assumed. `RetryInv` says that the session of a worker at `bump` has
expired, so that the row is read again, and that at `count` it holds the row.

`EscalationEarned` charges each increment to a CI run of its own. `OnceInv` says that a
red run is in one place: its lock is held from its delivery on, and there is one task
of it in the queue or one worker that has it. In `EscalationInv` the counter is at most
the number of red runs that are locked and no longer pending (`Counted`), so a worker
that finds the limit reached has one more in its hands. The hypothesis
that no lock expires is needed: TLC finds the job that is escalated early with it. A
lost update only lowers the counter, so this holds of any number of workers.

`AttemptBudget`, for one worker, is a potential. `Used` is the patches written
for a job, the places that will write one more (`Claims`), and the retries that are left. A patch turns a
claim into a patch, counting a retry turns a retry that is left into a claim, and faults
only lower it; a start, the first or one by `retry_job`, adds at most
`MaxRetries + 1`. `retryCalls` counts those, less the requests that have read
and not committed. A retry that is counted uses one up only if the worker writes more
than the row holds: `ReadsHold` says that what the only worker has read is no less than
the counter, since nobody else raises it and `retry_job` only takes it to 0.

**What strands a job.** `Moved` says, for each of the six things that can move a job,
where it is. A step that takes one of them away hands the job to another or settles it:
a task goes to a worker, a worker's push starts a run (for which some workflow has to
exist), a run that ends leaves its webhook, which no lock keeps out (`LocksEnded`), and
a webhook becomes a task. The hard ends are those of a worker. It means to settle the
job, but its UPDATE names the status only if it differs from what the session has read
(`CommitSettles`); so a worker whose session has read a settled job cannot be relied on.
`Movers` leaves such workers (`Stale`) out. An earlier form of `OnlyFaultsStrand`
counted them, and the attempt to prove it found that it is false in an environment
without crashes: a worker reads `failed` in `_finalize_success`, the user retries and
the enqueue fails, and then the worker fails and writes nothing. With crashes that step
is also one of a dying worker, which is why the runs did not show it.
`SessionInv` says that the workers that run the agents have read an unsettled job.

`NoStrandedJob` follows where `crash`, `redis`, `loss` and `fastCI` are excluded, for
any number of workers and manual retries. What is left of the steps in `Drops` are
webhooks that are ignored: of a run whose lock is held, which moved nothing, or of a
job that `retry_job` has untracked. For the latter `UntrackedRestart` says that whoever
untracked an unsettled job has something under way that will track it again or settle
it, and `PushedRun` that a patch that is not yet recorded is still being tested.

**One hand at a time.** The theorems of `TurnProofs` share one invariant, `TurnInv`.
For each job it says that at most one thing drives it (`OneHand`) and, for each thing
that can be that one, what it holds: a handler, a client or the queue has the first
task of a job that is `queued` or a completion whose run is of the patch on the branch
and has ended as the task says (`Answered`); a worker with the job has read the row as
it still is, has a counter below the limit if it is about to retry, and between fetch
and pull request holds the tree that passed (`WorkerInTurn`); a run under way or
reported is of the patch on the branch (`RunsInTurn`). `OneDriver` alone is not
inductive: that a completion is the only driver when it arrives needs that its run was
the only one, which needs one workflow, that the job is tracked, and that the worker
who pushed has gone (`OnePush`; with `fastCI` excluded, a worker between push and
commit still has its run ahead). `VerdictsKept` adds that a run has one verdict and is
reported or locked.

The steps are then few. Whoever takes the next step of a job is its only driver
(`WorkerAlone`), so it disturbs nobody; for every other job the step is `Untouched`,
and one lemma says that `InTurn` survives that (`UntouchedTurn`). What remains is one
lemma per action about the job it is about. `VerifiedPR` is a part of `TurnInv`: a pull
request that is open belongs to a settled job or to the worker about to settle it.
`SettledStays` says that a settled job, its branches and its attempts stay as they are
unless a user retries it; from it follow `TerminalIsFinal` and `StatsAgree`, whose
statements may have any number of steps between them.

The refinement of `RepairLifecycle` reads the phase of a job off its driver
(`HandPhase`, `PhaseIs`): a step that hands the job on within a phase is a stutter, the
others are one step of the lifecycle each. With one workflow a patch has one run
(`OneRunPerPatch`), so a run that ends is the verdict of the round.

The attempts need more: `RowsInv` says that a job under repair has one attempt for
each retry and one more, unless a worker is just making it (`LatestInTurn`), that they
are numbered in order and truly stamped (`Numbered`), and that the worker that makes
the next one holds its number and the previous patch (`HolderInTurn`). Then the latest
attempt is the patch on the branch, which is what `_stamp` and the retry rely on.
Manual retries are excluded because `retry_job` sets `retry_count` back to 0, after
which attempts are numbered from 1 once more beside the old ones. `CountInv` carries
the numbers over the step that settles the job (`SettlingCounted`): a job with a pull
request has one attempt more than retries, and only a repair that ended before its
commit leaves as many as retries. This gives `AttemptsCounted`.

The timeline is read in two statements and dated by rows. `StampsInv` says that every
attempt but the latest has a red stamp, the latest too while the next one is made, and
a green one if the job is on its way to a pull request or has it. `SeenStays` says that
what a request has read of a settled job still holds when it reads the attempts. Then
numbers and dates agree (`EventDates`), so what is listed first is not later, and the
result of the last attempt is right before the end (`ResultFollows`).

**Lists and counts.** `PlacesAre`: the places of n jobs in the list are exactly
1 .. n (`Place` is injective, and there is no more room); hence a page that is not full is the last (`SliceHas`). A job that is added moves others down
and none up (`PlaceGrows`), so what the consumer has not read when it turns the page
is still ahead of it: `PagingInv`. `StripInv` says why the strip needs no sequence
numbers: it has one request under way at a time, and an answer is no older than what is
shown. The table has several, and no such theorem.

**Intake.** `FailuresRepairedOnce`: two jobs of one failure are excluded by the unique
constraint alone; for first repairs `HeldOnce` says that the repair is with one handler, at
one place of the queue or with one worker, and `IntakeInv` that a step moves it from one
of these places to the next. A handler asks only for a job it has inserted itself, so
neither half needs the lock. `EntryImplementsHealX` maps each step of the endpoint to
one of `HealX`, so that everything proved of `Spec` holds behind the endpoint;
`EntryExact` needs that what `hooks` contains was sent and is yet to be answered.

**Branches.** For every job and failure type, each step of `Spec` is a step of
`Branches` or leaves its three variables alone. A push of a patch is `PushInternal`; a
fetch is `Fetch`, for which the branch has to exist (`AttemptInv`); a push of the clean
branch is `PushFetched`, and so is every way a worker leaves that point without
pushing (`GivesUp`). What a worker has fetched is bound to the clean branch that its
session names: no other commit changes that name (`FetchedStays`, which needs
`loaded # None` from `PRInv`). `CommandsRefineBranches` is the same for the git
commands: `GitInv` says of every point of an operation what its index and its head
hold, one patch on the failing commit at most.

**Agents.** `AgentInv` follows the state of one invocation from node to node: what
triage has named, what the prompt holds, and that a `patch_ready` has passed `Valid`
and was not changed after. What a diff does and what the check sees of it are
compared through its lines: `PatchInv` says that the files are as many as the old sides
of headers, the changed lines as many as the marked lines of hunks, and the paths those
that headers name. It grows with the lines as they are written, so no induction over
sequences is needed. From there each check has its own argument and its own condition
(`FilesCounted`, `LinesCounted`, `ForbiddenFound`): a line of the one count is one of
the other. `ExactOnOrdinary` and the three parts of `ReadyPatchIsSafe` put them together.

**Assumptions** are those of the modules' constants: `Unknown` is a failure type;
`None` is no type, number, row, task, run, reply, commit, tree or status; the bounds are natural
numbers and the faults known ones; there are finitely many processes and files; some
workflow runs on a push; a run on a developer branch is not one on an internal branch;
pages have room for a row. `Orderly`, `Unretried`, `FewHands` and `OneWorker` are
hypotheses of the theorems that name them and of no other; `nominal` is an instance
that satisfies all, `lifecycle` all but `Unretried`, `adverse` the last two, `workflows`
only `FewHands`.

**What stays with TLC.** Liveness (`EveryFailureResolved`, `StripCatchesUp`,
`TableCatchesUp`) and everything about ENABLED, which the prover does not do. Every
other property that a passing run checks is a theorem, with the hypotheses of the table. That the claims of section 3 fail
is shown by their runs alone, as a counterexample needs no proof.

## 5. What is left out

* Comments on commits other than the escalation, their texts, commit messages and
  PR bodies: they change nothing HealX reads.
* How the digest of a signature is computed, and the texts of requests: a request is
  intact or not. A CI run on a branch `healx/fix-*` is for the router a run on a
  developer branch, so `DevRuns` includes those.
* Payloads without a run id. A developer run that is started again under its id is
  modelled; a run of an internal branch that is started again by hand is not: within
  1800 s the router takes its completion for a duplicate (router.py:239).
* Pull requests that are merged or closed; a branch deleted by hand.
* Readers that trust more than the code promises: with a filter on the status, a job
  that leaves it moves the later ones up a page, and one of them can be missed; a
  reader who stops at `total` instead of at a page that is not full misses what has
  been added since.
* `mean_seconds_to_pr`, the top repositories and the distribution of types in
  `get_stats`: single aggregates over columns the models leave out.
* `patch_feedback`, which no code writes; `create_branch` and `commit_file` of the
  GitHub client, which no code calls; `get_job` and `get_job_attempts`, single reads;
  the detail page, which asks three times once; what is traced.
* The application shell (creates missing tables before anything runs, mounts routers)
  and the migrations (single transactions of ADD COLUMN IF NOT EXISTS run by hand):
  neither takes a step while the system runs.
* What happens between a read and a commit that follows at once. The counter and
  the request of `retry_job` are read and written in steps of their own; the statuses
  set by `StartInitial` and `StartExhausted`, the stamps, and the read after the commit
  of a retry are one step with their neighbour, as what is written does not depend on
  what was read. A timeout between `retry_count += 1` and its commit leaves what one
  right after the read leaves.
* `ReceiveCompletion` uses the id it selects in the step that selects it. In the code a
  user may retry the job before the handler resumes; the completion is then enqueued
  although the job is no longer tracked, and possibly after the task of the retry.
* In diffs: renames, changes of modes, binary patches, and headers without a slash, for
  which git guesses how much to strip.
* A timeout between `session.add(attempt)` and the commit that follows it, where
  autoflush would save the row with the status `failed`.

## 6. Plan

Written so far: everything in section 2 and the proofs of section 4. Still open:

1. what holds with several users: two who retry at once give a job two hands, so that
   one repair works on a job another has settled, and `OneDriver` and `TerminalIsFinal`
   need weaker forms; `PRBacked` is what is proved of its pull requests so far;
2. the attempts of a job that is retried by hand: their numbers start again, so
   `AttemptsNumbered` would have to be stated per round of repairs.
