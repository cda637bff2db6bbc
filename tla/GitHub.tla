------------------------------- MODULE GitHub -------------------------------
(***************************************************************************)
(* GitHub as HealX uses it: CI runs end, webhooks are delivered, lost or   *)
(* repeated.  None of it is code of the repository; the model comes from   *)
(* how app/webhook and app/pipeline use it.                                *)
(***************************************************************************)
EXTENDS RepairState

\* A CI run on a developer branch fails.
DevRunFails(d) ==
  /\ d \notin devFailed
  /\ devFailed' = devFailed \union {d}
  /\ hooks' = hooks \union {d}
  /\ UNCHANGED <<dbVars, redisVars, repoVars, running, green, red,
                 redeliveries, worker, router, apiVars>>

\* A run takes minutes; without "fastCI" it outlasts the commit that follows
\* the push in the worker.
OutlastsCommit(r) ==
  \/ "fastCI" \in Faults
  \/ \A w \in Workers : ~(/\ worker[w].pc = "pushed"
                          /\ worker[w].task.job = r.job
                          /\ worker[w].patch = r.patch)

\* A CI run on an internal branch ends, one way or the other.
RunEnds(r) ==
  /\ r \in running
  /\ OutlastsCommit(r)
  /\ running' = running \ {r}
  /\ hooks' = hooks \union {r}
  /\ \/ green' = green \union {r} /\ UNCHANGED red
     \/ red' = red \union {r} /\ UNCHANGED green
  /\ UNCHANGED <<dbVars, redisVars, repoVars, devFailed, redeliveries,
                 worker, router, apiVars>>

\* GitHub delivers an event once more.
Redeliver(e) ==
  /\ redeliveries < MaxRedeliveries
  /\ e \in devFailed \union green \union red
  /\ e \notin hooks
  /\ hooks' = hooks \union {e}
  /\ redeliveries' = redeliveries + 1
  /\ UNCHANGED <<dbVars, redisVars, repoVars, running, green, red, devFailed,
                 worker, router, apiVars>>

\* A delivery fails, and GitHub does not try again by itself.
LoseHook(e) ==
  /\ "loss" \in Faults
  /\ e \in hooks
  /\ hooks' = hooks \ {e}
  /\ UNCHANGED <<dbVars, redisVars, repoVars, running, green, red, devFailed,
                 redeliveries, worker, router, apiVars>>
=============================================================================
