------------------------------ MODULE JobsApi ------------------------------
(***************************************************************************)
(* app/api/jobs.py, retry_job: the one API operation that changes state.   *)
(* It reads the job, decides, commits and enqueues with an await between,  *)
(* and nothing holds the row from the read to the commit.                  *)
(***************************************************************************)
EXTENDS RepairState

ClientEnds(c) == client' = [client EXCEPT ![c] = IdleClient]

\* The statuses for which retry_job does not answer 400.
CanRetry(row) == row.status \in Retryable

RetryReads(c, j) ==
  /\ client[c].pc = "idle"
  /\ retryCalls < MaxManualRetries
  /\ job[j] # None
  /\ CanRetry(job[j])
  /\ client' = [client EXCEPT ![c] =
                  [pc |-> "read", job |-> j, loaded |-> job[j]]]
  /\ retryCalls' = retryCalls + 1
  /\ UNCHANGED <<dbVars, redisVars, repoVars, ciVars, worker, router>>

\* What the endpoint assigns to the job it has read.
Requeued(row) ==
  [row EXCEPT !.status = "queued", !.retries = 0, !.tracked = FALSE]

RetryCommits(c) ==
  LET j == client[c].job
      loaded == client[c].loaded IN
  /\ client[c].pc = "read"
  /\ job' = [job EXCEPT ![j] = Flush(job[j], loaded, Requeued(loaded))]
  /\ client' = [client EXCEPT ![c].pc = "enqueue", ![c].loaded = None]
  /\ UNCHANGED <<attempts, redisVars, repoVars, ciVars, worker, router,
                 retryCalls>>

RetryEnqueues(c) ==
  /\ client[c].pc = "enqueue"
  /\ queue' = Append(queue, InitialTask(client[c].job))
  /\ ClientEnds(c)
  /\ UNCHANGED <<dbVars, locks, repoVars, ciVars, worker, router, retryCalls>>

\* The web process dies, or the enqueue raises.
RetryFails(c) ==
  /\ \/ "crash" \in Faults /\ client[c].pc # "idle"
     \/ "redis" \in Faults /\ client[c].pc = "enqueue"
  /\ ClientEnds(c)
  /\ UNCHANGED <<dbVars, redisVars, repoVars, ciVars, worker, router,
                 retryCalls>>
=============================================================================
