----------------------------- MODULE Reporting -----------------------------
(***************************************************************************)
(* The requests of app/api/timeline.py and app/api/stats.py while HealX    *)
(* goes on, and the numbers that stats.py and the table of dash.js show.   *)
(*                                                                         *)
(* A request is two statements and more, and PostgreSQL shows each of them *)
(* what is committed by then: the first reads jobs, later ones read what   *)
(* the workers have made of them since.                                    *)
(***************************************************************************)
EXTENDS HealX

VARIABLE seen  \* the tables when the first statement of a request ran, or None

reportingVars == <<vars, seen>>

\* The first statement of get_timeline or get_stats.
ReadJobs ==
  /\ seen = None
  /\ seen' = [job |-> job, attempts |-> attempts]
  /\ UNCHANGED vars

\* The later statements and the answer, see Timeline and the statistics.
Respond ==
  /\ seen # None
  /\ seen' = None
  /\ UNCHANGED vars

ReportingInit == Init /\ seen = None

ReportingNext == (Next /\ UNCHANGED seen) \/ ReadJobs \/ Respond

ReportingSpec == ReportingInit /\ [][ReportingNext]_reportingVars

-----------------------------------------------------------------------------
(* The timeline: a set of events, and which of them the answer lists first *)

\* Variant with a bug: the attempts are read before the job.
ReadsAttemptsFirst(j) == [row |-> job[j], rows |-> seen.attempts[j]]

\* What a request for the timeline of j has read: the job first.
RowsRead(j) == [row |-> seen.job[j], rows |-> attempts[j]]

\* The events of the i-th row: pushed, and the CI result if a run is stamped.
\* Both are dated by the creation of the row, the i-th of its job.
AttemptEvents(a, i) ==
  LET kinds == IF a.ciRun = None THEN {"attempt_pushed"}
               ELSE {"attempt_pushed", "ci_result"} IN
  [kind : kinds, at : {i}, ok : {a.success}, num : {a.num}]

\* What a settled job ends with, at its updated_at.
EndEvents(row, updated) ==
  IF row.status = "pr_opened" /\ row.pr # None
  THEN {[kind |-> "pr_opened", at |-> updated]}
  ELSE IF row.status \in Retryable THEN {[kind |-> "terminal", at |-> updated]}
  ELSE {}

\* get_timeline.  A job that was settled when it was read was updated after
\* the attempts there were then.
Timeline(j) ==
  LET read == RowsRead(j) IN
  {[kind |-> "job_created", at |-> 0]}
    \union (UNION {AttemptEvents(read.rows[i], i) : i \in DOMAIN read.rows})
    \union EndEvents(read.row, Len(seen.attempts[j]) + 1)

\* Variant with a bug: the latest attempt comes first.
LatestFirst(e, f) ==
  IF e.at = f.at THEN e.kind = "attempt_pushed" /\ f.kind = "ci_result"
  ELSE e.num >= f.num

\* ORDER BY attempt_number, and the events of a row one after the other; rows
\* of one number come in any order.
AttemptOrder(e, f) ==
  IF e.at = f.at THEN e.kind = "attempt_pushed" /\ f.kind = "ci_result"
  ELSE e.num <= f.num

OfAttempts == {"attempt_pushed", "ci_result"}

\* e is listed before f, or may be.
Listed(e, f) ==
  IF {e.kind, f.kind} \subseteq OfAttempts THEN AttemptOrder(e, f)
  ELSE e # f /\ (e.kind = "job_created" \/ f.kind \in {"pr_opened", "terminal"})

\* Nothing is listed between them.
Follows(events, e, f) ==
  Listed(e, f) /\ ~ \E g \in events : Listed(e, g) /\ Listed(g, f)

-----------------------------------------------------------------------------
(* The numbers *)

\* The status the first statement of get_stats counts as a success.
Succeeded == {j \in Jobs : seen.job[j] # None /\ seen.job[j].status = "pr_opened"}

\* The jobs the later statement averages over, and what it averages.
Averaged == {j \in Jobs : Exists(j) /\ job[j].status = "pr_opened"}
AttemptsToPR(j) == job[j].retries + 1

\* The column "attempts" of dash.js: a job that has ended shows one more.
AttemptsShown(j) ==
  job[j].retries
    + (IF job[j].status \in {"pr_opened", "failed", "needs-human-review"}
       THEN 1 ELSE 0)

-----------------------------------------------------------------------------
(* Properties *)

\* The jobs a request for the timeline has found.
Asked == IF seen = None THEN {} ELSE {j \in Jobs : seen.job[j] # None}

\* README.md:330, the timeline is chronological, whatever is committed
\* between the two statements that it is made of.
TimelineChronological ==
  \A j \in Asked : \A e, f \in Timeline(j) : Listed(e, f) => e.at <= f.at

\* timeline.py:51-61, the timeline explains the end: a pull request comes
\* right after a green result, and every earlier attempt shows its red one.
\* The job is read first, so the attempts are never older than the verdict.
TimelineExplains ==
  \A j \in Asked :
    LET events == Timeline(j)
        results == {e \in events : e.kind = "ci_result"} IN
    \A end \in events : end.kind = "pr_opened" =>
      /\ \E r \in results : r.ok /\ Follows(events, r, end)
      /\ \A p \in events : p.kind = "attempt_pushed" =>
           \E r \in results :
             Follows(events, p, r) /\ (r.ok => Follows(events, r, end))

\* stats.py:39-71, the aggregates of one answer fit together although they
\* are separate statements: no fix rate above zero without a mean.
StatsAgree == seen # None => Succeeded \subseteq Averaged

\* README.md:331 and dash.js:86, retry_count tells how many attempts a job
\* took: as many as its rows if it has a pull request, and never fewer for any
\* settled job, at most one more for a repair that left no row.
AttemptsCounted ==
  \A j \in Jobs : Settled(j) =>
    LET rows == Len(attempts[j]) IN
    /\ job[j].status = "pr_opened" => AttemptsToPR(j) = rows
    /\ AttemptsShown(j) \in {rows, rows + 1}
=============================================================================
