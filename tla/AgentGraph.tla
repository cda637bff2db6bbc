----------------------------- MODULE AgentGraph -----------------------------
(***************************************************************************)
(* app/agents: one invocation of the repair graph, from the CI logs to a   *)
(* status and a patch.  What the models answer and which files GitHub has  *)
(* is chosen by the environment; the code is what becomes of the answers.  *)
(* Orchestrator calls it at "graph" and knows only how it can end.         *)
(***************************************************************************)
EXTENDS Integers, FiniteSets

CONSTANTS
  Files,        \* paths the triage model can name
  FailureTypes, \* the valid failure types
  Unknown,
  None,
  MaxFilesRead  \* files_to_read is cut to 5

ASSUME GraphUnknownAssumption == Unknown \in FailureTypes
ASSUME GraphNoneAssumption == None \notin Files
ASSUME FilesAssumption == IsFiniteSet(Files)
ASSUME MaxFilesReadAssumption == MaxFilesRead \in Nat \ {0}

VARIABLES
  node,      \* the node that runs next, "END", or "raised"
  attempt,   \* attempt_number and previous_patch of the invocation
  tracing,   \* the Langfuse set-up of the worker, see Tracings
  triage,    \* failure_type, failing_file and relevant_files of the state
  prompt,    \* the context of the repair prompt: files, previous attempt
  result     \* status, patch_diff and can_fix of the state

graphVars == <<node, attempt, tracing, triage, prompt, result>>

\* What the repair model answers: nothing, prose, a diff over the limits of
\* _validate_patch, or one within.
Replies == {"CANNOT_FIX", "prose", "unsafe diff", "safe diff"}

ASSUME NoneIsNoReply == None \notin Replies

\* No keys; no SDK, or the wrong one; one whose handler takes the identity of
\* the trace; one whose handler refuses it with a TypeError; one whose handler
\* fails in another way.
Tracings == {"no keys", "no SDK", "identity", "bare", "failing"}

NoTriage == [type |-> None, file |-> None, relevant |-> {}]
NoPrompt == [files |-> {}, retry |-> FALSE]
NoResult == [status |-> "running", patch |-> None]

\* _invoke_repair_graph: a first attempt has no previous patch, a later one
\* has the patch of the last attempt.
GraphInit ==
  /\ node = "triage"
  /\ attempt \in {[number |-> 1, previous |-> FALSE],
                  [number |-> 2, previous |-> TRUE]}
  /\ tracing \in Tracings
  /\ triage = NoTriage
  /\ prompt = NoPrompt
  /\ result = NoResult

\* Whether langchain_run_config gives a config, with a handler or an empty
\* one, so that the model can be called.
Callable == tracing # "failing"

\* A type outside valid_types becomes Unknown.
NormalizedType(type) == IF type \in FailureTypes THEN type ELSE Unknown

\* No file and no type: there is nothing to repair.
Undiagnosable(t) == t.file = None /\ t.type = Unknown

\* triage_node with route_after_triage.  An answer that is no JSON is read as
\* Unknown without a file; relevant_files that are no list become empty.
TriageNode(type, file, relevant) ==
  LET t == [type |-> NormalizedType(type), file |-> file,
            relevant |-> relevant] IN
  /\ node = "triage"
  /\ Callable
  /\ triage' = t
  /\ \/ /\ Undiagnosable(t)
        /\ node' = "END"
        /\ result' = [result EXCEPT !.status = "undiagnosable"]
     \/ /\ ~Undiagnosable(t)
        /\ node' = "repair"
        /\ UNCHANGED result
  /\ UNCHANGED <<attempt, tracing, prompt>>

\* Variant with a bug: nothing is cut.
FilesNamed(t) == {t.relevant \union ({t.file} \ {None})}

\* files_to_read: the failing file, then relevant ones, at most MaxFilesRead.
FilesToRead(t) ==
  LET wanted == t.relevant \union ({t.file} \ {None}) IN
  {some \in SUBSET wanted :
     /\ Cardinality(some) <= MaxFilesRead
     /\ Cardinality(some) = MaxFilesRead \/ some = wanted
     /\ t.file # None => t.file \in some}

\* The state after a repair that ended with `status`.
Repaired(status, patch) ==
  /\ node' = "END"
  /\ result' = [status |-> status, patch |-> patch]

\* run_repair up to the call of the model: `found` are the files that GitHub
\* has of those to read; without any there is no call.
GatherContext(found) ==
  /\ node = "repair"
  /\ \E some \in FilesToRead(triage) : found \subseteq some
  /\ \/ /\ found = {}
        /\ Repaired("cannot_fix", None)
        /\ UNCHANGED prompt
     \/ /\ found # {}
        /\ node' = "llm"
        /\ prompt' = [files |-> found,
                      retry |-> attempt.number > 1 /\ attempt.previous]
        /\ UNCHANGED result
  /\ UNCHANGED <<attempt, tracing, triage>>

\* Variant with a bug: a diff is a patch, whatever _validate_patch says.
StatusOfDiff(reply) ==
  IF reply \in {"unsafe diff", "safe diff"} THEN "patch_ready" ELSE "cannot_fix"

\* The status that repair_node derives from the answer.
StatusOf(reply) == IF reply = "safe diff" THEN "patch_ready" ELSE "cannot_fix"

\* The rest of run_repair and of repair_node: _extract_diff finds a diff or
\* not, _validate_patch accepts it or not; a rejected one stays in the state.
ReadReply(reply) ==
  /\ node = "llm"
  /\ Callable
  /\ Repaired(StatusOf(reply),
              IF reply \in {"unsafe diff", "safe diff"} THEN reply ELSE None)
  /\ UNCHANGED <<attempt, tracing, triage, prompt>>

\* The handler or a call of a model raises, or its answer is JSON of another
\* shape.
GraphRaises ==
  /\ node \in {"triage", "llm"}
  /\ node' = "raised"
  /\ UNCHANGED <<attempt, tracing, triage, prompt, result>>

\* Triage, and what repair does before its call of the model.
BeforeReply ==
  \/ \E type \in FailureTypes \union {"other"}, file \in Files \union {None},
        relevant \in SUBSET Files : TriageNode(type, file, relevant)
  \/ \E found \in SUBSET Files : GatherContext(found)

-----------------------------------------------------------------------------
(* Properties *)

\* orchestrator.py:261-288, what _post_graph_dispatch relies on: a graph that
\* ends has one of three statuses and one of the known types; the patch it
\* pushes exists, has passed the checks and was written with a source file in
\* view, and a job that is called undiagnosable has the type Unknown.
OutcomeIsDispatchable ==
  node = "END" =>
    /\ triage.type \in FailureTypes
    /\ \/ result.status = "undiagnosable" /\ triage.type = Unknown
       \/ result.status = "cannot_fix" /\ result.patch # "safe diff"
       \/ result.status = "patch_ready" /\ result.patch = "safe diff"
          /\ prompt.files # {} /\ ~Undiagnosable(triage)

\* README.md:107, a prompt has at most MaxFilesRead files, all of them named
\* by triage.
PromptIsBounded ==
  /\ Cardinality(prompt.files) <= MaxFilesRead
  /\ prompt.files \subseteq triage.relevant \union {triage.file}
=============================================================================
