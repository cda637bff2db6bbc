-------------------------- MODULE RepairLifecycle --------------------------
(***************************************************************************)
(* What HealX promises about a repair job, without the processes, the      *)
(* queue, the locks and the database that bring it about: rounds of a      *)
(* patch and a CI run, a pull request after a green one, an end after the  *)
(* last red one.  README.md:36-82 draws it, db.py:60 writes it as          *)
(* queued, repairing, retrying, pr_opened | failed | undiagnosable.        *)
(***************************************************************************)
EXTENDS Integers

CONSTANTS
  Jobs,       \* the repair jobs
  MaxRetries  \* rounds after the first, a natural number

VARIABLES
  phase,   \* where a job is
  round    \* the round of a job that is being repaired, else 0

Phases == {"none", "queued", "writing", "testing", "green", "red",
           "pr_opened", "failed", "needs-human-review", "undiagnosable"}

LifecycleInit ==
  /\ phase = [j \in Jobs |-> "none"]
  /\ round = [j \in Jobs |-> 0]

\* Job j moves from one of the phases `from` to `to`, in round n.
Moves(j, from, to, n) ==
  /\ phase[j] \in from
  /\ phase' = [phase EXCEPT ![j] = to]
  /\ round' = [round EXCEPT ![j] = n]

Report(j) == Moves(j, {"none"}, "queued", 0)

Begin(j) == Moves(j, {"queued"}, "writing", 1)

Push(j) == Moves(j, {"writing"}, "testing", round[j])

Verdict(j) == \E v \in {"green", "red"} : Moves(j, {"testing"}, v, round[j])

\* Another round follows a red one as long as there are retries.
Again(j) ==
  /\ round[j] <= MaxRetries
  /\ Moves(j, {"red"}, "writing", round[j] + 1)

\* Only a green round ends in a pull request.
Deliver(j) == Moves(j, {"green"}, "pr_opened", 0)

\* Only a red last round exhausts the job.
Exhaust(j) ==
  /\ round[j] > MaxRetries
  /\ Moves(j, {"red"}, "failed", 0)

\* The agents find no patch, or one that does not apply.
GiveUp(j) ==
  \E to \in {"needs-human-review", "undiagnosable"} :
    Moves(j, {"writing"}, to, 0)

\* A call fails while a patch is written or a pull request prepared.
Break(j) == Moves(j, {"writing", "green"}, "failed", 0)

\* Somebody asks for a retry.
Reopen(j) ==
  Moves(j, {"failed", "needs-human-review", "undiagnosable"}, "queued", 0)

LifecycleNext ==
  \E j \in Jobs :
    \/ Report(j) \/ Begin(j) \/ Push(j) \/ Verdict(j) \/ Again(j)
    \/ Deliver(j) \/ Exhaust(j) \/ GiveUp(j) \/ Break(j) \/ Reopen(j)

LifecycleSpec == LifecycleInit /\ [][LifecycleNext]_<<phase, round>>
=============================================================================
