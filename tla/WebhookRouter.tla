--------------------------- MODULE WebhookRouter ---------------------------
(***************************************************************************)
(* app/webhook/router.py: a completed workflow run becomes a repair job and *)
(* a task, or a completion task of the job it belongs to.                  *)
(*                                                                         *)
(* The handlers are coroutines of one process.  A developer failure has a  *)
(* step between any two of its awaits; the internal path does everything   *)
(* after its only await, a SELECT whose result is the job's id, without    *)
(* another one, and is one step.                                           *)
(***************************************************************************)
EXTENDS RepairState

HandlerAt(h, pc) == router[h].pc = pc

HandlerEnds(h) == router' = [router EXCEPT ![h] = IdleHandler]

\* Variant with a bug: the result of SET NX is not looked at.
LockIgnored(r) == r \in hooks

\* SET NX on the lock of a run, True iff nobody holds it.
LockIsFree(r) == r \notin locks

\* Variant with a bug: the table has no UNIQUE constraint.
RunUnchecked(d) == d \in DevRuns

\* The UNIQUE constraint on workflow_run_id lets the insert commit.
RunIsNew(d) == \A j \in Jobs : job[j] # None => job[j].run # d

\* A delivery of a developer failure, up to the first await.
ReceiveFailure(h, d) ==
  /\ HandlerAt(h, "idle")
  /\ d \in hooks
  /\ hooks' = hooks \ {d}
  /\ \/ /\ LockIsFree(d)
        /\ locks' = locks \union {d}
        /\ router' = [router EXCEPT ![h] =
                        [pc |-> "select", run |-> d, job |-> None]]
     \/ /\ ~LockIsFree(d)
        /\ UNCHANGED <<locks, router>>
  /\ UNCHANGED <<dbVars, queue, repoVars, running, green, red, devFailed,
                 redeliveries, worker, apiVars>>

\* SELECT by workflow_run_id; a job that exists already gives the lock back.
SelectExisting(h) ==
  LET d == router[h].run IN
  /\ HandlerAt(h, "select")
  /\ \/ /\ RunIsNew(d)
        /\ router' = [router EXCEPT ![h].pc = "insert"]
        /\ UNCHANGED locks
     \/ /\ ~RunIsNew(d)
        /\ locks' = locks \ {d}
        /\ HandlerEnds(h)
  /\ UNCHANGED <<dbVars, queue, repoVars, ciVars, worker, apiVars>>

\* Variant with a bug: the session ends without a commit.
InsertUncommitted(h) ==
  /\ HandlerAt(h, "insert")
  /\ \E j \in Jobs :
       /\ job[j] = None
       /\ router' = [router EXCEPT ![h].pc = "enqueue", ![h].job = j]
  /\ UNCHANGED <<dbVars, redisVars, repoVars, ciVars, worker, apiVars>>

\* INSERT and commit; a duplicate run id raises, and the lock is deleted.
InsertJob(h) ==
  LET d == router[h].run IN
  /\ HandlerAt(h, "insert")
  /\ \/ /\ RunIsNew(d)
        /\ \E j \in Jobs :
             /\ job[j] = None
             /\ job' = [job EXCEPT ![j] = NewRow(d)]
             /\ router' = [router EXCEPT ![h].pc = "enqueue", ![h].job = j]
        /\ UNCHANGED locks
     \/ /\ ~RunIsNew(d)
        /\ locks' = locks \ {d}
        /\ HandlerEnds(h)
        /\ UNCHANGED job
  /\ UNCHANGED <<attempts, queue, repoVars, ciVars, worker, apiVars>>

EnqueueInitial(h) ==
  /\ HandlerAt(h, "enqueue")
  /\ queue' = Append(queue, InitialTask(router[h].job))
  /\ HandlerEnds(h)
  /\ UNCHANGED <<dbVars, locks, repoVars, ciVars, worker, apiVars>>

\* The database or the enqueue raises: the lock is deleted, a committed job
\* stays.
IntakeRaises(h) ==
  /\ "redis" \in Faults
  /\ router[h].pc \in {"select", "insert", "enqueue"}
  /\ locks' = locks \ {router[h].run}
  /\ HandlerEnds(h)
  /\ UNCHANGED <<dbVars, queue, repoVars, ciVars, worker, apiVars>>

\* The web process dies under the request.
HandlerCrashes(h) ==
  /\ "crash" \in Faults
  /\ router[h].pc # "idle"
  /\ HandlerEnds(h)
  /\ UNCHANGED <<dbVars, redisVars, repoVars, ciVars, worker, apiVars>>

\* Variants with a bug: the id is taken from the name of the branch; jobs are
\* looked for while they are repairing and not while they are retrying.
KnownByName(r) == job[r.job] # None
KnownWhileRepairing(r) ==
  job[r.job] # None /\ job[r.job].tracked /\ job[r.job].status = "repairing"

\* The job whose current_internal_branch the run is on, None: ignored.
KnownBranch(r) == job[r.job] # None /\ job[r.job].tracked

\* Variant with a bug: completed is taken for successful.
ConclusionAssumed(r) == IF r \in green \union red THEN "success" ELSE "failure"

Conclusion(r) == IF r \in green THEN "success" ELSE "failure"

\* A delivery about an internal branch: unknown branches and runs whose lock
\* is held are ignored, and an enqueue that raises leaves the lock held.
ReceiveCompletion(r) ==
  /\ r \in hooks
  /\ hooks' = hooks \ {r}
  /\ \/ /\ ~KnownBranch(r) \/ ~LockIsFree(r)
        /\ UNCHANGED redisVars
     \/ /\ KnownBranch(r) /\ LockIsFree(r)
        /\ locks' = locks \union {r}
        /\ \/ queue' = Append(queue, CompletionTask(r.job, r, Conclusion(r)))
           \/ "redis" \in Faults /\ UNCHANGED queue
  /\ UNCHANGED <<dbVars, repoVars, running, green, red, devFailed,
                 redeliveries, worker, router, apiVars>>

\* The TTL of a lock (600s or 1800s) runs out.
LockExpires(r) ==
  /\ "expiry" \in Faults
  /\ r \in locks
  /\ locks' = locks \ {r}
  /\ UNCHANGED <<dbVars, queue, repoVars, ciVars, worker, router, apiVars>>
=============================================================================
