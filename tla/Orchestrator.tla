---------------------------- MODULE Orchestrator ----------------------------
(***************************************************************************)
(* app/pipeline/orchestrator.py with the branch operations of git_ops.py:  *)
(* what an RQ worker does with an initial task and with a completion task. *)
(*                                                                         *)
(* A step ends where the code commits, calls the agents, git or GitHub, or *)
(* returns.  `loaded` is the job object of the worker's session: the       *)
(* columns as they were last read.  A commit expires it, and the first     *)
(* access reads the row again; where the next statement accesses it, the   *)
(* commit and the read are one step.  The read of the counter and the      *)
(* commit that writes it back are two: no lock keeps others out.           *)
(***************************************************************************)
EXTENDS RepairState

At(w, pc) == worker[w].pc = pc

JobOf(w) == worker[w].task.job

Goto(w, pc) == worker' = [worker EXCEPT ![w].pc = pc]

Done(w) == worker' = [worker EXCEPT ![w] = IdleWorker]

\* The job as the session sees it; an expired object is read again.
JobRow(w) ==
  IF worker[w].loaded = None THEN job[JobOf(w)] ELSE worker[w].loaded

\* A commit of the session with the job's columns changed to `new`.
Commits(w, new) ==
  job' = [job EXCEPT ![JobOf(w)] = Flush(job[JobOf(w)], JobRow(w), new)]

\* RQ hands a task to a worker, and forgets it if the worker dies.
TakeTask(w) ==
  /\ At(w, "idle")
  /\ queue # <<>>
  /\ worker' = [worker EXCEPT ![w].pc = "start", ![w].task = Head(queue)]
  /\ queue' = Tail(queue)
  /\ UNCHANGED <<dbVars, locks, repoVars, ciVars, router, apiVars>>

-----------------------------------------------------------------------------
(* Entry points *)

\* handle_initial_failure, up to the call of the agents.
StartInitial(w) ==
  LET j == JobOf(w)
      row == [job[j] EXCEPT !.status = "repairing"] IN
  /\ At(w, "start") /\ worker[w].task.fn = "initial"
  /\ job' = [job EXCEPT ![j] = row]
  /\ worker' = [worker EXCEPT ![w].pc = "graph", ![w].loaded = row,
                              ![w].num = 1, ![w].prev = None]
  /\ UNCHANGED <<attempts, redisVars, repoVars, ciVars, router, apiVars>>

Completes(w, c) ==
  At(w, "start") /\ worker[w].task.fn = "completion"
                 /\ worker[w].task.concl = c

\* Variants with a bug: one retry too many, one too few.
RetriesOverrun(row) == row.retries > MaxRetries
RetriesCutShort(row) == row.retries + 1 >= MaxRetries

\* retry_count >= MAX_RETRIES
RetriesExhausted(row) == row.retries >= MaxRetries

\* A stamp of the latest attempt with the run that ended.
StampLatest(rows, i, r, success) ==
  [rows EXCEPT ![i].ciRun = r, ![i].success = success,
               ![i].output = @ \/ ~success]

Stamps(w, success) ==
  LET j == JobOf(w) IN
  IF attempts[j] = <<>> THEN UNCHANGED attempts
  ELSE \E i \in LatestAttempts(attempts[j]) :
         attempts' = [attempts EXCEPT ![j] =
                        StampLatest(@, i, worker[w].task.run, success)]

\* handle_internal_branch_completion of a green run: _finalize_success
\* stamps the latest attempt and reads the job again.
StartGreen(w) ==
  /\ Completes(w, "success")
  /\ Stamps(w, TRUE)
  /\ worker' = [worker EXCEPT ![w].pc = "green", ![w].loaded = job[JobOf(w)]]
  /\ UNCHANGED <<job, redisVars, repoVars, ciVars, router, apiVars>>

\* A red run and no retries left: _finalize_failure commits.
StartExhausted(w) ==
  /\ Completes(w, "failure")
  /\ RetriesExhausted(job[JobOf(w)])
  /\ job' = [job EXCEPT ![JobOf(w)].status = "failed"]
  /\ Goto(w, "escalate")
  /\ UNCHANGED <<attempts, redisVars, repoVars, ciVars, router, apiVars>>

\* A red run with retries left: the job is read, its logs are fetched.
StartRed(w) ==
  /\ Completes(w, "failure")
  /\ ~RetriesExhausted(job[JobOf(w)])
  /\ worker' = [worker EXCEPT ![w].pc = "red", ![w].loaded = job[JobOf(w)]]
  /\ UNCHANGED <<dbVars, redisVars, repoVars, ciVars, router, apiVars>>

\* The latest attempt is the previous patch, and gets the red run's stamp.
StampRed(w) ==
  LET j == JobOf(w) IN
  /\ At(w, "red")
  /\ \/ /\ attempts[j] = <<>>
        /\ Goto(w, "bump")
        /\ UNCHANGED attempts
     \/ \E i \in LatestAttempts(attempts[j]) :
          /\ attempts' = [attempts EXCEPT ![j] =
                            StampLatest(@, i, worker[w].task.run, FALSE)]
          /\ worker' = [worker EXCEPT ![w].pc = "bump", ![w].loaded = None,
                                      ![w].prev = attempts[j][i].patch]
  /\ UNCHANGED <<job, redisVars, repoVars, ciVars, router, apiVars>>

\* `job.retry_count += 1` reads the counter again, as the stamp's commit has
\* expired the object, whose status has been assigned already.
ReadRetries(w) ==
  /\ At(w, "bump")
  /\ worker' = [worker EXCEPT
       ![w].pc = "count", ![w].loaded = [JobRow(w) EXCEPT !.status = "retrying"]]
  /\ UNCHANGED <<dbVars, redisVars, repoVars, ciVars, router, apiVars>>

\* Variants with a bug: the retry is not counted; its status is misspelt.
RetryingUncounted(row, read) == [row EXCEPT !.status = "retrying"]
RetryingMisspelt(row, read) ==
  [row EXCEPT !.status = "retry", !.retries = read.retries + 1]

\* The UPDATE of a retry: both columns, whatever the row holds by now.  The
\* counter is the one that was read, plus one.
Retrying(row, read) ==
  [row EXCEPT !.status = "retrying", !.retries = read.retries + 1]

\* The retry is committed, and the agents are called with the new logs.
BumpRetry(w) ==
  /\ At(w, "count")
  /\ job' = [job EXCEPT ![JobOf(w)] = Retrying(@, JobRow(w))]
  /\ worker' = [worker EXCEPT ![w].pc = "graph",
                              ![w].loaded = job'[JobOf(w)],
                              ![w].num = job'[JobOf(w)].retries + 1]
  /\ UNCHANGED <<attempts, redisVars, repoVars, ciVars, router, apiVars>>

-----------------------------------------------------------------------------
(* _post_graph_dispatch: what the agents came to *)

\* Variant with a bug: no return after the comment.
DropOutContinues(w, ft) ==
  /\ At(w, "graph")
  /\ \E status \in {"undiagnosable", "needs-human-review"} :
       /\ status = "undiagnosable" => ft = Unknown
       /\ Commits(w, [JobRow(w) EXCEPT !.status = status, !.failure = ft])
  /\ worker' = [worker EXCEPT ![w].loaded = None]
  /\ UNCHANGED <<attempts, redisVars, repoVars, ciVars, router, apiVars>>

\* Triage found neither a file nor a type, or the model said cannot_fix.
DropOut(w, ft) ==
  /\ At(w, "graph")
  /\ \E status \in {"undiagnosable", "needs-human-review"} :
       /\ status = "undiagnosable" => ft = Unknown
       /\ Commits(w, [JobRow(w) EXCEPT !.status = status, !.failure = ft])
  /\ Done(w)
  /\ UNCHANGED <<attempts, redisVars, repoVars, ciVars, router, apiVars>>

\* push_patch_to_internal_branch: the branch is reset to the failing commit
\* plus this patch and force-pushed, and CI starts on it.
PushPatch(w, ft) ==
  LET j == JobOf(w)
      p == patches[j] + 1 IN
  /\ At(w, "graph")
  /\ patches' = [patches EXCEPT ![j] = p]
  /\ tip' = [tip EXCEPT ![j] = p]
  /\ running' = running \union
                  {[job |-> j, patch |-> p, wf |-> f] : f \in Workflows}
  /\ worker' = [worker EXCEPT ![w].pc = "pushed", ![w].patch = p, ![w].ft = ft]
  /\ UNCHANGED <<dbVars, redisVars, clean, prs, escalated, green, red,
                 devFailed, hooks, redeliveries, router, apiVars>>

\* The row of a patch that was pushed, before its CI run has ended.
PushedAttempt(w) ==
  [num |-> worker[w].num, patch |-> worker[w].patch, pushed |-> TRUE,
   success |-> FALSE, ciRun |-> None, output |-> FALSE]

\* What the push changes in the job.
Dispatched(row, ft) ==
  [row EXCEPT !.tracked = TRUE, !.failure = ft,
              !.status = IF @ = "retrying" THEN @ ELSE "repairing"]

\* The attempt and the branch are committed after the push.
RecordAttempt(w) ==
  LET j == JobOf(w) IN
  /\ At(w, "pushed")
  /\ attempts' = [attempts EXCEPT ![j] = Append(@, PushedAttempt(w))]
  /\ Commits(w, Dispatched(JobRow(w), worker[w].ft))
  /\ Done(w)
  /\ UNCHANGED <<redisVars, repoVars, ciVars, router, apiVars>>

\* _record_apply_failure: git rejects the patch, nothing is pushed.
RejectPatch(w, ft) ==
  LET j == JobOf(w)
      p == patches[j] + 1 IN
  /\ At(w, "graph")
  /\ patches' = [patches EXCEPT ![j] = p]
  /\ attempts' = [attempts EXCEPT ![j] = Append(@,
       [num |-> worker[w].num, patch |-> p, pushed |-> FALSE,
        success |-> FALSE, ciRun |-> None, output |-> TRUE])]
  /\ Commits(w, [JobRow(w) EXCEPT !.status = "needs-human-review",
                                  !.failure = ft])
  /\ Done(w)
  /\ UNCHANGED <<redisVars, tip, clean, prs, escalated, ciVars, router,
                 apiVars>>

-----------------------------------------------------------------------------
(* _finalize_success and open_clean_fix_pr *)

\* failure_type or "Unknown"; it names the clean branch.
CleanType(w) == IF JobRow(w).failure = None THEN Unknown ELSE JobRow(w).failure

HeadBranch(w) == <<JobOf(w), CleanType(w)>>

\* Variant with a bug: the tree of the base commit is taken.
FetchBase(w) ==
  /\ At(w, "green")
  /\ JobRow(w).tracked
  /\ worker' = [worker EXCEPT ![w].pc = "fetched", ![w].patch = 0]
  /\ UNCHANGED <<dbVars, redisVars, repoVars, ciVars, router, apiVars>>

\* The clone fetches the internal branch: its tip, whatever run was green.
FetchInternal(w) ==
  /\ At(w, "green")
  /\ JobRow(w).tracked
  /\ worker' = [worker EXCEPT ![w].pc = "fetched", ![w].patch = tip[JobOf(w)]]
  /\ UNCHANGED <<dbVars, redisVars, repoVars, ciVars, router, apiVars>>

\* Variant with a bug: the push of the clean branch is taken for the pull
\* request.
PushCleanOnly(w) ==
  /\ At(w, "fetched")
  /\ clean' = [clean EXCEPT ![JobOf(w)][CleanType(w)] = worker[w].patch]
  /\ Goto(w, "opened")
  /\ UNCHANGED <<dbVars, redisVars, patches, tip, prs, escalated, ciVars,
                 router, apiVars>>

\* One commit with that tree is force-pushed to the clean branch.
PushClean(w) ==
  /\ At(w, "fetched")
  /\ clean' = [clean EXCEPT ![JobOf(w)][CleanType(w)] = worker[w].patch]
  /\ Goto(w, "cleaned")
  /\ UNCHANGED <<dbVars, redisVars, patches, tip, prs, escalated, ciVars,
                 router, apiVars>>

\* GitHub opens a pull request from the clean branch, if it has none.
OpenPR(w) ==
  /\ At(w, "cleaned")
  /\ HeadBranch(w) \notin prs
  /\ prs' = prs \union {HeadBranch(w)}
  /\ Goto(w, "opened")
  /\ UNCHANGED <<dbVars, redisVars, patches, tip, clean, escalated, ciVars,
                 router, apiVars>>

CommitPR(w) ==
  /\ At(w, "opened")
  /\ Commits(w, [JobRow(w) EXCEPT !.status = "pr_opened", !.pr = CleanType(w)])
  /\ Done(w)
  /\ UNCHANGED <<attempts, redisVars, repoVars, ciVars, router, apiVars>>

-----------------------------------------------------------------------------
(* Failures *)

\* _finalize_failure posts the escalation comment; a post that fails is
\* logged and forgotten.
Escalate(w) ==
  /\ At(w, "escalate")
  /\ \/ escalated' = escalated \union {JobOf(w)}
     \/ {"error", "timeout"} \intersect Faults # {} /\ UNCHANGED escalated
  /\ Done(w)
  /\ UNCHANGED <<dbVars, redisVars, patches, tip, clean, prs, ciVars, router,
                 apiVars>>

\* The calls that can raise before they have an effect.
CallPoints == {"graph", "green", "fetched", "cleaned"}

\* Everything the try blocks of the entry points enclose.
TryPoints == WorkerPCs \ {"idle", "start", "escalate"}

\* An exception: git fetches a branch None, GitHub refuses a second pull
\* request from the same branch, a call fails, the job times out.
\* _mark_job_error sets the status and commits.
Raise(w) ==
  /\ \/ At(w, "green") /\ ~JobRow(w).tracked
     \/ At(w, "cleaned") /\ HeadBranch(w) \in prs
     \/ "error" \in Faults /\ worker[w].pc \in CallPoints
     \/ "timeout" \in Faults /\ worker[w].pc \in TryPoints
  /\ Commits(w, [JobRow(w) EXCEPT !.status = "failed"])
  /\ Done(w)
  /\ UNCHANGED <<attempts, redisVars, repoVars, ciVars, router, apiVars>>

\* The worker dies, or a commit fails and _mark_job_error with it.
WorkerCrashes(w) ==
  /\ "crash" \in Faults
  /\ ~At(w, "idle")
  /\ Done(w)
  /\ UNCHANGED <<dbVars, redisVars, repoVars, ciVars, router, apiVars>>
=============================================================================
