---------------------------- MODULE RepairState ----------------------------
(***************************************************************************)
(* The state that the parts of HealX share: the two PostgreSQL tables, the *)
(* Redis keys and the RQ queue, the branches and pull requests on GitHub,  *)
(* the CI runs and their webhooks, and what the three kinds of process     *)
(* (webhook handlers, API clients, RQ workers) hold in their local         *)
(* variables between two steps.                                            *)
(*                                                                         *)
(* Names follow the code: `job` is the table repair_jobs, `attempts` the   *)
(* table patch_attempts, `locks` the keys healx:lock:*, `queue` the RQ     *)
(* queue healx-jobs.                                                       *)
(***************************************************************************)
EXTENDS Integers, Sequences, FiniteSets

CONSTANTS
  Jobs,             \* the UUIDs a repair job can get
  DevRuns,          \* workflow_run ids of CI runs on developer branches
  Workflows,        \* the repository's workflows triggered by a push
  Workers,          \* RQ worker processes
  Handlers,         \* webhook requests the web process serves at once
  Clients,          \* users of POST /jobs/{id}/retry
  FailureTypes,     \* what triage can answer
  Unknown,          \* its answer when it recognises nothing
  None,             \* Python's None, SQL's NULL
  MaxRetries,       \* MAX_RETRIES of the orchestrator
  MaxRedeliveries,  \* bound: webhook deliveries beyond the first
  MaxManualRetries, \* bound: calls of the retry endpoint
  Faults            \* what the environment may do, see FaultKinds

\* "error": a call of a model or of git fails before it has an effect.
\* "timeout": RQ's job_timeout, or a reply lost after the effect.
\* "crash": a process dies, or its database commit fails.
\* "redis": an enqueue raises.    "expiry": a lock outlives its TTL.
\* "loss": a webhook is never delivered.
\* "fastCI": a CI run ends before the worker that pushed it has committed.
FaultKinds ==
  {"error", "timeout", "crash", "redis", "expiry", "loss", "fastCI"}

ASSUME UnknownAssumption == Unknown \in FailureTypes
ASSUME NoneIsNoType == None \notin FailureTypes
ASSUME NoneIsNoNumber == None \notin Nat
ASSUME RetriesAssumption == MaxRetries \in Nat
ASSUME BoundsAssumption == MaxRedeliveries \in Nat /\ MaxManualRetries \in Nat
ASSUME FaultsAssumption == Faults \subseteq FaultKinds
\* HealX waits for CI on the branch it pushes, so something has to run there.
ASSUME WorkflowsAssumption == Workflows # {}
ASSUME ProcessesAssumption ==
  IsFiniteSet(Workers) /\ IsFiniteSet(Handlers) /\ IsFiniteSet(Clients)

VARIABLES
  job,          \* repair_jobs: a row or None for every id
  attempts,     \* patch_attempts: the rows of every job, in insertion order
  locks,        \* the run ids whose Redis lock is held
  queue,        \* the tasks of the RQ queue
  patches,      \* how many patches the agents have written for a job
  tip,          \* the patch the job's internal branch holds, 0: no branch
  clean,        \* the patch the clean branch of a failure type holds
  prs,          \* the open pull requests, by their head <<job, failure type>>
  escalated,    \* the jobs that got the escalation comment
  running,      \* CI runs on internal branches that have not ended
  green,        \* those that ended with conclusion "success"
  red,          \* those that ended otherwise
  devFailed,    \* the developer runs that have failed
  hooks,        \* the runs with a workflow_run.completed on its way
  redeliveries, \* deliveries repeated so far
  worker,       \* the task each RQ worker executes, and how far it is
  router,       \* the developer failure each webhook handler serves
  client,       \* the retry request each API client has in the server
  retryCalls    \* retry requests so far

dbVars == <<job, attempts>>
redisVars == <<locks, queue>>
repoVars == <<patches, tip, clean, prs, escalated>>
ciVars == <<running, green, red, devFailed, hooks, redeliveries>>
apiVars == <<client, retryCalls>>
vars == <<dbVars, redisVars, repoVars, ciVars, worker, router, apiVars>>

-----------------------------------------------------------------------------
(* Rows *)

Statuses == {"queued", "repairing", "retrying", "pr_opened", "failed",
             "needs-human-review", "undiagnosable"}

\* The states from which no webhook is expected to move the job.
Terminal == {"pr_opened", "failed", "needs-human-review", "undiagnosable"}

\* The states retry_job accepts.
Retryable == {"failed", "needs-human-review", "undiagnosable"}

\* A CI run on an internal branch: the run of one workflow on one patch.
RunIds == [job : Jobs, patch : Nat, wf : Workflows]

\* GitHub numbers all runs in one sequence, and a run is on one branch.
ASSUME RunsApart == \A d \in DevRuns : d \notin RunIds
ASSUME NoneIsNoRun == None \notin RunIds

\* repair_jobs.  `run` is workflow_run_id, `tracked` tells whether
\* current_internal_branch is set (its only possible value is a function of
\* the id), `pr` is the failure type that names the branch behind pr_url.
Row == [run : DevRuns, status : Statuses, retries : Nat, tracked : BOOLEAN,
        failure : FailureTypes \union {None}, pr : FailureTypes \union {None}]

\* patch_attempts.  `pushed` tells whether internal_branch is set, `output`
\* whether ci_output is.
Attempt == [num : Nat, patch : Nat, pushed : BOOLEAN, success : BOOLEAN,
            ciRun : RunIds \union {None}, output : BOOLEAN]

ASSUME NoneIsNoRow == None \notin Row

NewRow(d) == [run |-> d, status |-> "queued", retries |-> 0, tracked |-> FALSE,
              failure |-> None, pr |-> None]

\* The row after a commit of an object that was read as `loaded` and now
\* reads `new`: SQLAlchemy's UPDATE names only the columns that changed.
Flush(row, loaded, new) ==
  LET col(c) == IF new[c] = loaded[c] THEN row[c] ELSE new[c]
  IN  [run |-> col("run"), status |-> col("status"),
       retries |-> col("retries"), tracked |-> col("tracked"),
       failure |-> col("failure"), pr |-> col("pr")]

\* Variant with a bug: the order of the query is forgotten.
EarliestAttempts(rows) ==
  {i \in DOMAIN rows : \A k \in DOMAIN rows : rows[i].num <= rows[k].num}

\* ORDER BY attempt_number DESC, first(): any row of the highest number.
LatestAttempts(rows) ==
  {i \in DOMAIN rows : \A k \in DOMAIN rows : rows[k].num <= rows[i].num}

-----------------------------------------------------------------------------
(* Tasks and processes *)

InitialTask(j) ==
  [fn |-> "initial", job |-> j, concl |-> None, run |-> None]

CompletionTask(j, r, c) ==
  [fn |-> "completion", job |-> j, concl |-> c, run |-> r]

Conclusions == {"success", "failure"}

Tasks == {InitialTask(j) : j \in Jobs}
  \union [fn : {"completion"}, job : Jobs, concl : Conclusions, run : RunIds]

ASSUME NoneIsNoTask == None \notin Tasks

\* Between two steps a worker has ...
WorkerPCs ==
  {"idle",     \* no task
   "start",    \* a task it has not looked at
   "graph",    \* the job and the logs, and runs the agents
   "pushed",   \* pushed a patch it has not recorded
   "red",      \* a red run, and fetches its logs
   "bump",     \* stamped the last attempt with the red run
   "count",    \* read the counter of retries, to write it back
   "green",    \* stamped the last attempt with the green run
   "fetched",  \* read the tree of the internal branch
   "cleaned",  \* pushed the clean branch
   "opened",   \* opened the pull request
   "escalate"} \* marked the job failed and not posted the comment

IdleWorker == [pc |-> "idle", task |-> None, loaded |-> None, num |-> 0,
               prev |-> None, patch |-> 0, ft |-> None]

WorkerStates ==
  [pc : WorkerPCs, task : Tasks \union {None}, loaded : Row \union {None},
   num : Nat, prev : Nat \union {None}, patch : Nat,
   ft : FailureTypes \union {None}]

IdleHandler == [pc |-> "idle", run |-> None, job |-> None]

HandlerStates ==
  [pc : {"idle", "select", "insert", "enqueue"},
   run : DevRuns \union {None}, job : Jobs \union {None}]

IdleClient == [pc |-> "idle", job |-> None, loaded |-> None]

ClientStates ==
  [pc : {"idle", "read", "enqueue"}, job : Jobs \union {None},
   loaded : Row \union {None}]
=============================================================================
