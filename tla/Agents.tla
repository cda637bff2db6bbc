------------------------------- MODULE Agents -------------------------------
(***************************************************************************)
(* An invocation of the repair graph with the diff the repair model writes: *)
(* AgentGraph takes the answer through run_repair and the graph, PatchCheck *)
(* measures the diff in it.  HealX pushes what comes out as patch_ready.   *)
(***************************************************************************)
EXTENDS AgentGraph, PatchCheck

agentVars == <<graphVars, patchVars>>

AgentInit == GraphInit /\ PatchInit

\* The repair model writes its answer.
Write == node = "llm" /\ PatchNext /\ UNCHANGED graphVars

\* What the answer is for the code: _extract_diff finds no diff in it, or
\* one that _validate_patch accepts or not.
ReplyKinds ==
  IF diff = <<>> THEN {"CANNOT_FIX", "prose"}
  ELSE IF Valid THEN {"safe diff"} ELSE {"unsafe diff"}

AgentNext ==
  \/ (BeforeReply \/ GraphRaises) /\ UNCHANGED patchVars
  \/ Write
  \/ (\E reply \in ReplyKinds : ReadReply(reply)) /\ UNCHANGED patchVars

AgentSpec == AgentInit /\ [][AgentNext]_agentVars

-----------------------------------------------------------------------------
(* Properties *)

\* README.md:107 and repair.py:338-343, what each check is worth for the diff
\* that the graph hands to the orchestrator as patch_ready: it leaves infra/ at
\* the top of the repository alone if its names begin with a/ or b/, as git
\* writes them (git apply accepts others, which the check lets through); it
\* keeps to the number of files if besides none of them is new, and to the
\* number of lines if no line of a hunk looks like a header.
ReadyPatchIsSafe ==
  result.status = "patch_ready" =>
    /\ diff # <<>>
    /\ Conventional => "infra/f" \notin written
    /\ Conventional /\ OldFilesOnly => files <= MaxFiles
    /\ PlainMarks => changed <= MaxLines
=============================================================================
