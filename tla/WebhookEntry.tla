---------------------------- MODULE WebhookEntry ----------------------------
(***************************************************************************)
(* The way of a webhook request into HealX: app/webhook/validator.py and   *)
(* handle_github_webhook of app/webhook/router.py, with everything GitHub  *)
(* sends about a run and not only its completion.                          *)
(*                                                                         *)
(* HealX knows only `hooks`, the completions that its router acts on.  Here *)
(* they are requests among others, and the code has to find them: what     *)
(* passes the checks of the endpoint must be what HealX calls a hook.      *)
(* From the checks to the first await of a handler there is no other one,  *)
(* so they are one step with it.                                           *)
(***************************************************************************)
EXTENDS HealX, TLC

VARIABLES
  requests,  \* the webhook requests on their way
  started    \* the CI runs under way on developer branches

entryVars == <<vars, requests, started>>

\* A request.  `intact`: the signature is that of the configured secret, and
\* the body, form-encoded or not, holds JSON.
Sent(event, run, action, conclusion, intact) ==
  [event |-> event, run |-> run, action |-> action,
   conclusion |-> conclusion, intact |-> intact]

Completed(run, conclusion, intact) ==
  Sent("workflow_run", run, "completed", conclusion, intact)

Adds(q) == requests' = requests \union {q}
Takes(q) == requests' = requests \ {q}

\* A request arrives damaged, or signed with a secret that is not, or not
\* yet, the configured one; for HealX it is lost.
Intact == IF "loss" \in Faults THEN BOOLEAN ELSE {TRUE}

-----------------------------------------------------------------------------
(* GitHub *)

EntryInit == Init /\ requests = {Sent("ping", None, None, None, TRUE)}
                  /\ started = {}

\* A run begins, or is run again under its old id.
DevRunStarts(d) ==
  /\ d \notin started
  /\ started' = started \union {d}
  /\ Adds(Sent("workflow_run", d, "in_progress", None, TRUE))
  /\ UNCHANGED vars

\* It ends; a failure under an id that has failed before is one more delivery
\* about the same run.
DevRunEnds(d) ==
  /\ d \in started
  /\ started' = started \ {d}
  /\ \/ /\ DevRunFails(d) \/ Redeliver(d)
        /\ \E i \in Intact : Adds(Completed(d, "failure", i))
     \/ /\ \E c \in {"success", "cancelled"} : Adds(Completed(d, c, TRUE))
        /\ UNCHANGED vars

\* What GitHub tells of a run on an internal branch before it has ended: its
\* progress, and the end of a job in it.
RunIsAnnounced(r) ==
  /\ r \in running
  /\ \/ Adds(Sent("workflow_run", r, "in_progress", None, TRUE))
     \/ Adds(Sent("workflow_job", None, "completed", None, TRUE))
  /\ UNCHANGED <<vars, started>>

\* What GitHub says of a run that has ended.
ConclusionsOf(r) == IF r \in green THEN {"success"} ELSE {"failure", "cancelled"}

RunCompletes(r) ==
  /\ RunEnds(r)
  /\ \E c \in ConclusionsOf(r)', i \in Intact : Adds(Completed(r, c, i))
  /\ UNCHANGED started

EventRepeats(e) ==
  /\ Redeliver(e)
  /\ \E c \in IF e \in DevRuns THEN {"failure"} ELSE ConclusionsOf(e), i \in Intact :
       Adds(Completed(e, c, i))
  /\ UNCHANGED started

GitHubSends ==
  \/ \E d \in DevRuns : DevRunStarts(d) \/ DevRunEnds(d)
  \/ \E r \in running : RunIsAnnounced(r) \/ RunCompletes(r)
  \/ \E e \in devFailed \union Ended : EventRepeats(e)

-----------------------------------------------------------------------------
(* The endpoint *)

\* head_branch starts with healx/internal-.
OnInternalBranch(q) == q.run \in running \union Ended

\* Variant with a bug: what a run does is taken for its end.
AnyAction(q) == q.event = "workflow_run"

\* The type and the action that the endpoint does not ignore.
IsCompletion(q) == q.event = "workflow_run" /\ q.action = "completed"

\* The conclusion of a developer run that it does not ignore.
IsFailure(q) == q.conclusion = "failure"

\* The requests that reach a handler.
Passes(q) ==
  /\ q.intact
  /\ IsCompletion(q)
  /\ OnInternalBranch(q) \/ IsFailure(q)

\* The conclusion a task gets, and what the orchestrator reads in it.
VerdictTold(q) == IF q.conclusion = "success" THEN "success" ELSE "failure"

HandleFailure(h, q) ==
  /\ Passes(q) /\ ~OnInternalBranch(q)
  /\ ReceiveFailure(h, q.run)
  /\ Takes(q)
  /\ UNCHANGED started

HandleCompletion(q) ==
  /\ Passes(q) /\ OnInternalBranch(q)
  /\ ReceiveCompletion(q.run)
  /\ Takes(q)
  /\ UNCHANGED started

\* 200 pong, or 200 ignored.
Ignore(q) ==
  /\ q.intact /\ ~Passes(q)
  /\ Takes(q)
  /\ UNCHANGED <<vars, started>>

\* 401 from the validator, 400 from the parser: GitHub does not try again.
Refuse(q) ==
  /\ ~q.intact
  /\ LoseHook(q.run)
  /\ Takes(q)
  /\ UNCHANGED started

Endpoint ==
  \E q \in requests :
    \/ \E h \in Handlers : HandleFailure(h, q)
    \/ HandleCompletion(q)
    \/ Ignore(q)
    \/ Refuse(q)

\* What goes on inside HealX.
Inside ==
  /\ \/ \E h \in Handlers :
          \/ SelectExisting(h) \/ InsertJob(h) \/ EnqueueInitial(h)
          \/ IntakeRaises(h) \/ HandlerCrashes(h)
     \/ \E r \in locks : LockExpires(r)
     \/ WorkerStep
  /\ UNCHANGED <<requests, started>>

EntryNext == GitHubSends \/ Endpoint \/ Inside

EntrySpec == EntryInit /\ [][EntryNext]_entryVars

-----------------------------------------------------------------------------
(* Properties *)

\* router.py:91-123, the endpoint acts on the completions that HealX needs and
\* on nothing else GitHub sends about the same run, with the verdict of the
\* run: a message of progress, whose conclusion is null, is never read as a
\* red run, and a run that is started again is not taken for its end.
EntryIsExact ==
  LET passing == {q \in requests : Passes(q)}
      refused == {q \in requests : ~q.intact} IN
  /\ {q.run : q \in passing} \subseteq hooks
  /\ hooks \subseteq {q.run : q \in passing \union refused}
  /\ \A q \in passing :
       OnInternalBranch(q) => VerdictTold(q) = Conclusion(q.run)

EntrySymmetry == Permutations(Jobs) \union Permutations(Handlers)
=============================================================================
