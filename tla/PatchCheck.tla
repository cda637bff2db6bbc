----------------------------- MODULE PatchCheck -----------------------------
(***************************************************************************)
(* app/agents/repair.py, _validate_patch: the limits on a patch, measured  *)
(* on the text of the diff.  AddFile and AddLine write a diff line by line *)
(* and keep what `git apply` (git_ops.py:252) makes of it; the check sees  *)
(* the lines and does not know which of them git reads as headers.         *)
(***************************************************************************)
EXTENDS Integers, Sequences, FiniteSets

CONSTANTS
  MaxFiles,   \* 3
  MaxLines,   \* 50
  MaxLength   \* bound: lines of a diff

ASSUME LimitsAssumption == MaxFiles \in Nat /\ MaxLines \in Nat
ASSUME LengthAssumption == MaxLength \in Nat

VARIABLES
  diff,     \* the lines
  files,    \* how many files the diff changes
  changed,  \* how many lines it adds or removes
  written   \* the paths it changes

patchVars == <<diff, files, changed, written>>

\* Paths of the repository: one that no rule is about, one in a forbidden
\* directory, and two in a directory of that name further down.
Paths == {"f", "infra/f", "app/infra/f", "data/infra/f"}

\* A name in the text of a diff: what precedes its first slash, if anything,
\* and the rest.
Name(prefix, path) == [prefix |-> prefix, path |-> path]
Null == Name("none", "/dev/null")
Plain == Name("none", "none")

\* The names on the two sides of a file.  git apply takes off whatever comes
\* before the first slash, a and b by convention; a file that is new or
\* deleted has no name on one side.
Sides(path) ==
  {<<Name("a", path), Name("b", path)>>, <<Name("x", path), Name("x", path)>>,
   <<Null, Name("b", path)>>, <<Name("a", path), Null>>}

\* How a line begins: a context, added or removed line, or one that is taken
\* for a header because its own text goes on with "--" or "++".
Marks == {" ", "+", "-", "+++", "---"}

Header(mark, name) == [mark |-> mark, text |-> name, hunk |-> FALSE]
HunkLine(mark, text) == [mark |-> mark, text |-> text, hunk |-> TRUE]

PatchInit == diff = <<>> /\ files = 0 /\ changed = 0 /\ written = {}

\* The agent begins the diff of another file.
AddFile(path, side) ==
  /\ Len(diff) + 2 <= MaxLength
  /\ diff' = diff \o <<Header("---", side[1]), Header("+++", side[2])>>
  /\ files' = files + 1
  /\ written' = written \union {path}
  /\ UNCHANGED changed

\* The agent writes another line of a hunk; its text may have in it the name of
\* a file in a forbidden directory.
AddLine(mark, text) ==
  /\ files > 0
  /\ Len(diff) < MaxLength
  /\ diff' = Append(diff, HunkLine(mark, text))
  /\ changed' = changed + (IF mark = " " THEN 0 ELSE 1)
  /\ UNCHANGED <<files, written>>

HunkTexts == {Plain, Name("a", "infra/f")}

PatchNext ==
  \/ \E path \in Paths : \E side \in Sides(path) : AddFile(path, side)
  \/ \E mark \in Marks, text \in HunkTexts : AddLine(mark, text)

-----------------------------------------------------------------------------
(* What the code counts *)

\* Variant with a bug: a file is counted once for each of its headers.
HeadersSeen ==
  Cardinality({i \in DOMAIN diff : /\ diff[i].mark \in {"---", "+++"}
                                   /\ diff[i].text.prefix \in {"a", "b"}})

\* Occurrences of "--- a/" at the beginning of a line.
FilesSeen ==
  Cardinality({i \in DOMAIN diff : diff[i].mark = "---" /\ diff[i].text.prefix = "a"})

\* Lines with a "+" but no "+++", or with a "-" but no "---".
LinesSeen == Cardinality({i \in DOMAIN diff : diff[i].mark \in {"+", "-"}})

\* Whether "a/infra/" or "b/infra/" is in a text; it is in data/infra/f too.
NamesForbidden(text) ==
  \/ text.prefix \in {"a", "b"} /\ text.path = "infra/f"
  \/ text.path = "data/infra/f"

\* Variant with a bug: only the old side of a file is looked at.
TouchesOldSide ==
  \E i \in DOMAIN diff : diff[i].mark = "---" /\ NamesForbidden(diff[i].text)

\* "a/infra/" or "b/infra/" anywhere in the diff, in headers or not.
TouchesForbidden == \E i \in DOMAIN diff : NamesForbidden(diff[i].text)

Valid == FilesSeen <= MaxFiles /\ LinesSeen <= MaxLines /\ ~TouchesForbidden

-----------------------------------------------------------------------------
(* When the text tells what the diff does *)

\* Every name in a header begins with a/ or b/.
Conventional == \A i \in DOMAIN diff : diff[i].text.prefix # "x"

\* No file is new.
OldFilesOnly ==
  \A i \in DOMAIN diff : diff[i].hunk \/ diff[i] # Header("---", Null)

\* No line of a hunk looks like a header.
PlainMarks == \A i \in DOMAIN diff : diff[i].hunk => diff[i].mark \in {" ", "+", "-"}

\* The name of a forbidden directory is in no line of a hunk, and in no longer
\* path (data/infra/f) that the search takes for it.
NamedWhereChanged ==
  \A i \in DOMAIN diff : /\ diff[i].hunk => diff[i].text = Plain
                         /\ diff[i].text.path # "data/infra/f"

-----------------------------------------------------------------------------
(* Properties *)

WithinLimits == files <= MaxFiles /\ changed <= MaxLines /\ "infra/f" \notin written

\* repair.py:338-343, for a diff whose text tells what it does the three checks
\* are exact: they accept all and only what is within the limits, infra/ being
\* the directory at the top of the repository (app/infra/ is not refused).  Each
\* of the four conditions is needed.
ExactOnOrdinary ==
  Conventional /\ OldFilesOnly /\ PlainMarks /\ NamedWhereChanged =>
    (Valid <=> WithinLimits)
=============================================================================
