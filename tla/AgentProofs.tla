----------------------------- MODULE AgentProofs -----------------------------
(***************************************************************************)
(* The repair graph and the checks on its patch: how a graph can end, what *)
(* its prompt holds, and that a patch it calls ready is within the limits, *)
(* for every number of files and lines and every diff.                     *)
(***************************************************************************)
EXTENDS Agents, FiniteSetTheorems, SequenceTheorems, TLAPS

-----------------------------------------------------------------------------
(* Counting lines *)

\* The lines a diff is made of.
Names == {Plain, Null} \union [prefix : {"a", "b", "x"}, path : Paths]
Lines == [mark : Marks, text : Names, hunk : BOOLEAN]

\* The places of d at which there is one of `lines`, and how many they are.
Places(d, lines) == {i \in DOMAIN d : d[i] \in lines}
CountIn(d, lines) == Cardinality(Places(d, lines))

LEMMA PlacesFinite ==
  ASSUME NEW d \in Seq(Lines), NEW lines
  PROVE  /\ IsFiniteSet(Places(d, lines))
         /\ CountIn(d, lines) \in Nat
         /\ CountIn(d, lines) = 0 <=> Places(d, lines) = {}
  <1>1. Places(d, lines) \subseteq 1 .. Len(d) /\ Len(d) \in Int
    BY DEF Places
  <1>2. IsFiniteSet(1 .. Len(d))
    BY <1>1, FS_Interval
  <1>3. IsFiniteSet(Places(d, lines))
    BY <1>1, <1>2, FS_Subset
  <1> QED BY <1>3, FS_CardinalityType, FS_EmptySet DEF CountIn

\* A line more counts as one more, or not at all.
LEMMA CountOfAppend ==
  ASSUME NEW d \in Seq(Lines), NEW l \in Lines, NEW lines
  PROVE  /\ Append(d, l) \in Seq(Lines)
         /\ CountIn(Append(d, l), lines) =
              CountIn(d, lines) + (IF l \in lines THEN 1 ELSE 0)
  <1> DEFINE new == Len(d) + 1
  <1>1. /\ Append(d, l) \in Seq(Lines)
        /\ DOMAIN Append(d, l) = DOMAIN d \union {new}
        /\ new \notin DOMAIN d
        /\ Append(d, l)[new] = l
        /\ \A i \in DOMAIN d : Append(d, l)[i] = d[i]
    OBVIOUS
  <1> HIDE DEF new
  <1>2. Places(Append(d, l), lines) =
          IF l \in lines THEN Places(d, lines) \union {new} ELSE Places(d, lines)
    BY <1>1 DEF Places
  <1>3. new \notin Places(d, lines) /\ IsFiniteSet(Places(d, lines))
    BY <1>1, PlacesFinite DEF Places
  <1>4. Cardinality(Places(d, lines) \union {new}) =
          Cardinality(Places(d, lines)) + 1
    BY <1>3, FS_AddElement
  <1>5. CountIn(d, lines) \in Nat
    BY PlacesFinite
  <1> QED BY <1>1, <1>2, <1>4, <1>5 DEF CountIn

\* The two lines of a header.
LEMMA CountOfHeader ==
  ASSUME NEW d \in Seq(Lines), NEW a \in Lines, NEW b \in Lines, NEW lines
  PROVE  /\ d \o <<a, b>> \in Seq(Lines)
         /\ CountIn(d \o <<a, b>>, lines) =
              CountIn(d, lines) + (IF a \in lines THEN 1 ELSE 0)
                                + (IF b \in lines THEN 1 ELSE 0)
  <1>1. d \o <<a, b>> = Append(Append(d, a), b)
    OBVIOUS
  <1>2. Append(d, a) \in Seq(Lines)
    OBVIOUS
  <1>3. /\ Append(Append(d, a), b) \in Seq(Lines)
        /\ CountIn(Append(Append(d, a), b), lines) =
             CountIn(Append(d, a), lines) + (IF b \in lines THEN 1 ELSE 0)
    BY <1>2, CountOfAppend
  <1>4. CountIn(Append(d, a), lines) =
          CountIn(d, lines) + (IF a \in lines THEN 1 ELSE 0)
    BY CountOfAppend
  <1> QED BY <1>1, <1>3, <1>4

-----------------------------------------------------------------------------
(* What a diff does, in its own lines *)

OldSides == {l \in Lines : ~l.hunk /\ l.mark = "---"}
ChangedLines == {l \in Lines : l.hunk /\ l.mark # " "}

\* A line is that of a header, whose sides name the file or nothing, or one of
\* a hunk.
WellFormed(l) ==
  \/ l.hunk /\ l.text \in HunkTexts
  \/ /\ ~l.hunk
     /\ \/ l.mark = "---" /\ l.text.prefix \in {"a", "x", "none"}
        \/ l.mark = "+++" /\ l.text.prefix \in {"b", "x", "none"}
     /\ l.text.prefix = "none" => l.text = Null

\* The header of a file that is changed names it.
HeaderOf(l, path) == ~l.hunk /\ l.text.prefix # "none" /\ l.text.path = path

\* Every file has one header line with its old side, and one line that names
\* it; every changed line is one of a hunk.
PatchInv ==
  /\ diff \in Seq(Lines)
  /\ \A i \in DOMAIN diff : WellFormed(diff[i])
  /\ files = CountIn(diff, OldSides)
  /\ changed = CountIn(diff, ChangedLines)
  /\ \A path \in Paths :
       path \in written <=> \E i \in DOMAIN diff : HeaderOf(diff[i], path)

LEMMA PatchInvInit == PatchInit => PatchInv
  <1> SUFFICES ASSUME PatchInit PROVE PatchInv
    OBVIOUS
  <1>1. diff \in Seq(Lines) /\ DOMAIN diff = {}
    BY DEF PatchInit
  <1>2. \A lines : CountIn(diff, lines) = 0
    BY <1>1, FS_EmptySet DEF CountIn, Places
  <1>3. files = CountIn(diff, OldSides) /\ changed = CountIn(diff, ChangedLines)
    BY <1>2 DEF PatchInit
  <1> QED BY <1>1, <1>3 DEF PatchInv, PatchInit

\* A header has the old side of the file first, then the new one, and at least
\* one of them names the file.
LEMMA HeaderLines ==
  ASSUME NEW path \in Paths, NEW side \in Sides(path),
         NEW a, a = Header("---", side[1]), NEW b, b = Header("+++", side[2])
  PROVE  /\ a \in Lines /\ b \in Lines /\ WellFormed(a) /\ WellFormed(b)
         /\ a \in OldSides /\ b \notin OldSides
         /\ a \notin ChangedLines /\ b \notin ChangedLines
         /\ \A p \in Paths : HeaderOf(a, p) \/ HeaderOf(b, p) <=> p = path
  <1>1. PICK old, new :
          /\ side = <<old, new>>
          /\ \/ old = Name("a", path) /\ new = Name("b", path)
             \/ old = Name("x", path) /\ new = Name("x", path)
             \/ old = Null /\ new = Name("b", path)
             \/ old = Name("a", path) /\ new = Null
    BY DEF Sides
  <1>2. a = Header("---", old) /\ b = Header("+++", new)
    BY <1>1
  <1>3. old \in Names /\ new \in Names
    BY <1>1 DEF Names, Name
  <1>4. /\ a \in Lines /\ ~a.hunk /\ a.mark = "---" /\ a.text = old
        /\ b \in Lines /\ ~b.hunk /\ b.mark = "+++" /\ b.text = new
    BY <1>2, <1>3 DEF Header, Lines, Marks
  <1>5. /\ old.prefix \in {"a", "x", "none"} /\ new.prefix \in {"b", "x", "none"}
        /\ old.prefix = "none" => old = Null
        /\ new.prefix = "none" => new = Null
        /\ old.prefix # "none" => old.path = path
        /\ new.prefix # "none" => new.path = path
        /\ old.prefix # "none" \/ new.prefix # "none"
    <2>1. /\ Name("a", path).prefix = "a" /\ Name("a", path).path = path
          /\ Name("b", path).prefix = "b" /\ Name("b", path).path = path
          /\ Name("x", path).prefix = "x" /\ Name("x", path).path = path
          /\ Null.prefix = "none"
      BY DEF Name, Null
    <2> QED BY <1>1, <2>1
  <1>6. WellFormed(a) /\ WellFormed(b)
    BY <1>4, <1>5 DEF WellFormed
  <1>7. \A p \in Paths : HeaderOf(a, p) \/ HeaderOf(b, p) <=> p = path
    BY <1>4, <1>5 DEF HeaderOf
  <1> QED BY <1>4, <1>6, <1>7 DEF OldSides, ChangedLines

LEMMA AddFileCounts ==
  ASSUME PatchInv, NEW path \in Paths, NEW side \in Sides(path), AddFile(path, side)
  PROVE  PatchInv'
  <1> PICK a, b : a = Header("---", side[1]) /\ b = Header("+++", side[2])
    OBVIOUS
  <1>1. /\ a \in Lines /\ b \in Lines /\ WellFormed(a) /\ WellFormed(b)
        /\ a \in OldSides /\ b \notin OldSides
        /\ a \notin ChangedLines /\ b \notin ChangedLines
        /\ \A p \in Paths : HeaderOf(a, p) \/ HeaderOf(b, p) <=> p = path
    BY HeaderLines
  <1>2. diff' = diff \o <<a, b>> /\ diff \in Seq(Lines)
    BY DEF AddFile, PatchInv
  <1>3. \A lines :
          /\ diff' \in Seq(Lines)
          /\ CountIn(diff', lines) =
               CountIn(diff, lines) + (IF a \in lines THEN 1 ELSE 0)
                                    + (IF b \in lines THEN 1 ELSE 0)
    BY <1>1, <1>2, CountOfHeader
  <1>4. \A lines : CountIn(diff, lines) \in Nat
    BY <1>2, PlacesFinite
  <1>5. CountIn(diff', OldSides) = CountIn(diff, OldSides) + 1
    <2>1. CountIn(diff', OldSides) = CountIn(diff, OldSides) + 1 + 0
      BY <1>1, <1>3
    <2> QED BY <2>1, <1>4
  <1>6. CountIn(diff', ChangedLines) = CountIn(diff, ChangedLines)
    <2>1. CountIn(diff', ChangedLines) = CountIn(diff, ChangedLines) + 0 + 0
      BY <1>1, <1>3
    <2> QED BY <2>1, <1>4
  <1>7. PICK m, n :
          /\ DOMAIN diff' = DOMAIN diff \union {m, n}
          /\ diff'[m] = a /\ diff'[n] = b
          /\ \A i \in DOMAIN diff : diff'[i] = diff[i]
    <2>1. /\ DOMAIN diff' = DOMAIN diff \union {Len(diff) + 1, Len(diff) + 2}
          /\ diff'[Len(diff) + 1] = a /\ diff'[Len(diff) + 2] = b
          /\ \A i \in DOMAIN diff : diff'[i] = diff[i]
      BY <1>1, <1>2
    <2> QED BY <2>1
  <1>8. \A i \in DOMAIN diff' : WellFormed(diff'[i])
    BY <1>1, <1>7 DEF PatchInv
  <1>9. ASSUME NEW p \in Paths
        PROVE  p \in written' <=> \E i \in DOMAIN diff' : HeaderOf(diff'[i], p)
    <2>1. p \in written' <=> p \in written \/ p = path
      BY DEF AddFile
    <2>2. (\E i \in DOMAIN diff' : HeaderOf(diff'[i], p)) <=>
            \/ \E i \in DOMAIN diff : HeaderOf(diff[i], p)
            \/ HeaderOf(a, p) \/ HeaderOf(b, p)
      BY <1>7
    <2> QED BY <1>1, <2>1, <2>2 DEF PatchInv
  <1> QED BY <1>3, <1>5, <1>6, <1>8, <1>9 DEF PatchInv, AddFile

LEMMA AddLineCounts ==
  ASSUME PatchInv, NEW mark \in Marks, NEW text \in HunkTexts, AddLine(mark, text)
  PROVE  PatchInv'
  <1> PICK l : l = HunkLine(mark, text)
    OBVIOUS
  <1>1. text \in Names
    BY DEF HunkTexts, Names, Name, Paths
  <1>2. /\ l \in Lines /\ l.hunk /\ WellFormed(l) /\ l \notin OldSides
        /\ l \in ChangedLines <=> mark # " "
        /\ \A p \in Paths : ~HeaderOf(l, p)
    BY <1>1 DEF HunkLine, Lines, WellFormed, OldSides, ChangedLines, HeaderOf
  <1>3. diff' = Append(diff, l) /\ diff \in Seq(Lines)
    BY DEF AddLine, PatchInv
  <1>4. \A lines :
          /\ diff' \in Seq(Lines)
          /\ CountIn(diff', lines) =
               CountIn(diff, lines) + (IF l \in lines THEN 1 ELSE 0)
    BY <1>2, <1>3, CountOfAppend
  <1>5. \A lines : CountIn(diff, lines) \in Nat
    BY <1>3, PlacesFinite
  <1>6. CountIn(diff', OldSides) = CountIn(diff, OldSides)
    <2>1. CountIn(diff', OldSides) = CountIn(diff, OldSides) + 0
      BY <1>2, <1>4
    <2> QED BY <2>1, <1>5
  <1>7. CountIn(diff', ChangedLines) =
          CountIn(diff, ChangedLines) + (IF mark = " " THEN 0 ELSE 1)
    BY <1>2, <1>4
  <1>8. PICK m :
          /\ DOMAIN diff' = DOMAIN diff \union {m} /\ diff'[m] = l
          /\ \A i \in DOMAIN diff : diff'[i] = diff[i]
    <2>1. /\ DOMAIN diff' = DOMAIN diff \union {Len(diff) + 1}
          /\ diff'[Len(diff) + 1] = l
          /\ \A i \in DOMAIN diff : diff'[i] = diff[i]
      <3>1. l \in Lines
        BY <1>2
      <3> QED BY <1>3, <3>1
    <2> QED BY <2>1
  <1>9. \A i \in DOMAIN diff' : WellFormed(diff'[i])
    BY <1>2, <1>8 DEF PatchInv
  <1>10. \A p \in Paths : p \in written' <=>
           \E i \in DOMAIN diff' : HeaderOf(diff'[i], p)
    BY <1>2, <1>8 DEF PatchInv, AddLine
  <1> QED BY <1>4, <1>6, <1>7, <1>9, <1>10 DEF PatchInv, AddLine

LEMMA PatchInvStep == PatchInv /\ [PatchNext]_patchVars => PatchInv'
  <1>1. PatchInv /\ UNCHANGED patchVars => PatchInv'
    BY DEF PatchInv, patchVars
  <1> QED BY <1>1, AddFileCounts, AddLineCounts DEF PatchNext

-----------------------------------------------------------------------------
(* What the code counts *)

\* A "--- a/" is the old side of a file that has one, or a line of a hunk.
LEMMA FilesCounted ==
  ASSUME PatchInv, Conventional, OldFilesOnly
  PROVE  /\ files \in Nat /\ FilesSeen \in Nat /\ files <= FilesSeen
         /\ PlainMarks => files = FilesSeen
  <1> DEFINE seen == {l \in Lines : l.mark = "---" /\ l.text.prefix = "a"}
  <1>1. diff \in Seq(Lines) /\ \A i \in DOMAIN diff : diff[i] \in Lines
    BY DEF PatchInv
  <1>2. Places(diff, seen) =
          {i \in DOMAIN diff : diff[i].mark = "---" /\ diff[i].text.prefix = "a"}
    BY <1>1 DEF Places
  <1>3. FilesSeen = CountIn(diff, seen)
    BY <1>2 DEF FilesSeen, CountIn
  <1>4. \A i \in DOMAIN diff : diff[i] \in OldSides => diff[i] \in seen
    <2> SUFFICES ASSUME NEW i \in DOMAIN diff, diff[i] \in OldSides
                 PROVE  diff[i].text.prefix = "a"
      BY DEF OldSides
    <2> PICK l : l = diff[i]
      OBVIOUS
    <2>1. l \in Lines /\ ~l.hunk /\ l.mark = "---" /\ WellFormed(l)
      BY DEF OldSides, PatchInv
    <2>2. l.text.prefix # "x" /\ l # Header("---", Null)
      BY <2>1 DEF Conventional, OldFilesOnly
    <2>3. l.text # Null
      BY <2>1, <2>2 DEF Lines, Header
    <2> QED BY <2>1, <2>2, <2>3 DEF WellFormed
  <1>5. Places(diff, OldSides) \subseteq Places(diff, seen)
    BY <1>4 DEF Places
  <1>6. CountIn(diff, OldSides) <= CountIn(diff, seen)
    BY <1>1, <1>5, PlacesFinite, FS_Subset DEF CountIn
  <1>7. ASSUME PlainMarks
        PROVE  Places(diff, seen) \subseteq Places(diff, OldSides)
    <2>1. \A i \in DOMAIN diff : diff[i].mark = "---" => ~diff[i].hunk
      BY <1>7 DEF PlainMarks
    <2> QED BY <2>1 DEF Places, OldSides
  <1>8. PlainMarks => CountIn(diff, OldSides) = CountIn(diff, seen)
    BY <1>5, <1>7 DEF CountIn
  <1> QED BY <1>1, <1>3, <1>6, <1>8, PlacesFinite DEF PatchInv

\* Without lines that look like headers, the lines counted are those changed.
LEMMA LinesCounted ==
  ASSUME PatchInv, PlainMarks
  PROVE  changed = LinesSeen
  <1>1. \A i \in DOMAIN diff : diff[i] \in Lines /\ WellFormed(diff[i])
    BY DEF PatchInv
  <1>2. ASSUME NEW i \in DOMAIN diff
        PROVE  diff[i] \in ChangedLines <=> diff[i].mark \in {"+", "-"}
    <2> PICK l : l = diff[i]
      OBVIOUS
    <2>1. l \in Lines /\ WellFormed(l) /\ (l.hunk => l.mark \in {" ", "+", "-"})
      BY <1>1 DEF PlainMarks
    <2>2. l \in ChangedLines <=> l.mark \in {"+", "-"}
      BY <2>1 DEF ChangedLines, WellFormed
    <2> QED BY <2>2
  <1>3. Places(diff, ChangedLines) = {i \in DOMAIN diff : diff[i].mark \in {"+", "-"}}
    BY <1>2 DEF Places
  <1> QED BY <1>3 DEF LinesSeen, PatchInv, CountIn

\* A conventional header of a file in infra/ is found, and without other
\* mentions nothing else is.
LEMMA ForbiddenFound ==
  ASSUME PatchInv, Conventional
  PROVE  /\ "infra/f" \in written => TouchesForbidden
         /\ NamedWhereChanged /\ TouchesForbidden => "infra/f" \in written
  <1>1. /\ \A i \in DOMAIN diff : diff[i] \in Lines /\ WellFormed(diff[i])
        /\ "infra/f" \in written <=>
             \E i \in DOMAIN diff : HeaderOf(diff[i], "infra/f")
    BY DEF PatchInv, Paths
  <1>2. ASSUME NEW i \in DOMAIN diff, HeaderOf(diff[i], "infra/f")
        PROVE  NamesForbidden(diff[i].text)
    <2> PICK l : l = diff[i]
      OBVIOUS
    <2>1. WellFormed(l) /\ HeaderOf(l, "infra/f") /\ l.text.prefix # "x"
      BY <1>1, <1>2 DEF Conventional
    <2>2. NamesForbidden(l.text)
      BY <2>1 DEF WellFormed, HeaderOf, NamesForbidden
    <2> QED BY <2>2
  <1>3. ASSUME NamedWhereChanged, NEW i \in DOMAIN diff, NamesForbidden(diff[i].text)
        PROVE  HeaderOf(diff[i], "infra/f")
    <2> PICK l : l = diff[i]
      OBVIOUS
    <2>1. NamesForbidden(l.text) /\ (l.hunk => l.text = Plain)
          /\ l.text.path # "data/infra/f"
      BY <1>3 DEF NamedWhereChanged
    <2>2. l.text.prefix \in {"a", "b"} /\ l.text.path = "infra/f"
      BY <2>1 DEF NamesForbidden
    <2>3. Plain.prefix = "none"
      BY DEF Plain, Name
    <2>4. HeaderOf(l, "infra/f")
      BY <2>1, <2>2, <2>3 DEF HeaderOf
    <2> QED BY <2>4
  <1> QED BY <1>1, <1>2, <1>3 DEF TouchesForbidden

\* On a diff whose text tells what it does the three checks are exact.
LEMMA OrdinaryIsExact == PatchInv => ExactOnOrdinary
  BY FilesCounted, LinesCounted, ForbiddenFound
     DEF ExactOnOrdinary, Valid, WithinLimits

-----------------------------------------------------------------------------
(* The graph *)

GraphNodes == {"triage", "repair", "llm", "END", "raised"}

\* The prompt holds some of the files that triage has named, and not too many.
PromptInv ==
  /\ triage.relevant \subseteq Files
  /\ triage.file \in Files \union {None}
  /\ prompt.files \subseteq triage.relevant \union {triage.file}
  /\ Cardinality(prompt.files) <= MaxFilesRead
  /\ node = "triage" => prompt.files = {}

\* Nothing is decided before a node decides it: repair has a diagnosis, the
\* repair model has a file in view, and a patch that is ready is the diff that
\* was checked.
DecisionInv ==
  /\ node \in {"triage", "repair", "llm"} => result = NoResult
  /\ node \in {"repair", "llm"} =>
       triage.type \in FailureTypes /\ ~Undiagnosable(triage)
  /\ node = "llm" => prompt.files # {}
  /\ OutcomeIsDispatchable
  /\ result.status = "patch_ready" => node = "END" /\ diff # <<>> /\ Valid

AgentInv == PatchInv /\ node \in GraphNodes /\ PromptInv /\ DecisionInv

\* The checks are functions of the diff.
LEMMA ValidStays == UNCHANGED patchVars => Valid' = Valid
  BY DEF patchVars, Valid, FilesSeen, LinesSeen, TouchesForbidden

LEMMA AgentInvInit == AgentInit => AgentInv
  <1> SUFFICES ASSUME AgentInit PROVE AgentInv
    OBVIOUS
  <1>1. PatchInv
    BY PatchInvInit DEF AgentInit
  <1>2. PromptInv
    BY FS_EmptySet, MaxFilesReadAssumption
       DEF AgentInit, GraphInit, NoTriage, NoPrompt, PromptInv
  <1>3. DecisionInv
    BY DEF AgentInit, GraphInit, NoResult, DecisionInv, OutcomeIsDispatchable
  <1> QED BY <1>1, <1>2, <1>3 DEF AgentInv, AgentInit, GraphInit, GraphNodes

LEMMA TriageKeeps ==
  ASSUME AgentInv, NEW type, NEW file \in Files \union {None},
         NEW relevant \in SUBSET Files,
         TriageNode(type, file, relevant), UNCHANGED patchVars
  PROVE  AgentInv'
  <1> DEFINE t == [type |-> NormalizedType(type), file |-> file,
                   relevant |-> relevant]
  <1>1. /\ triage' = t
        /\ t.type \in FailureTypes /\ t.file = file /\ t.relevant = relevant
    BY GraphUnknownAssumption DEF TriageNode, NormalizedType
  <1>2. node = "triage" /\ result = NoResult /\ prompt' = prompt
    BY DEF TriageNode, AgentInv, DecisionInv
  <1>3. \/ Undiagnosable(t) /\ node' = "END"
             /\ result' = [result EXCEPT !.status = "undiagnosable"]
        \/ ~Undiagnosable(t) /\ node' = "repair" /\ result' = result
    BY DEF TriageNode
  <1>4. PatchInv'
    BY PatchInvStep DEF AgentInv
  <1> HIDE DEF t
  <1>5. PromptInv'
    BY <1>1, <1>2, <1>3 DEF AgentInv, PromptInv
  <1>6. CASE Undiagnosable(t) /\ node' = "END"
             /\ result' = [result EXCEPT !.status = "undiagnosable"]
    <2>1. result'.status = "undiagnosable"
      BY <1>2, <1>6 DEF NoResult
    <2>2. triage'.type = Unknown
      BY <1>1, <1>6 DEF Undiagnosable
    <2>3. DecisionInv'
      BY <1>1, <1>6, <2>1, <2>2 DEF DecisionInv, OutcomeIsDispatchable
    <2> QED BY <1>4, <1>5, <1>6, <2>3 DEF AgentInv, GraphNodes
  <1>7. CASE ~Undiagnosable(t) /\ node' = "repair" /\ result' = result
    <2>1. ~Undiagnosable(triage')
      BY <1>1, <1>7
    <2>2. DecisionInv'
      BY <1>1, <1>2, <1>7, <2>1
         DEF DecisionInv, OutcomeIsDispatchable, NoResult, Undiagnosable
    <2> QED BY <1>4, <1>5, <1>7, <2>2 DEF AgentInv, GraphNodes
  <1> QED BY <1>3, <1>6, <1>7

\* What GitHub has of the files to read is some of those triage named, at most
\* MaxFilesRead.
LEMMA FoundIsBounded ==
  ASSUME AgentInv, NEW some \in FilesToRead(triage), NEW found,
         found \subseteq some
  PROVE  /\ found \subseteq triage.relevant \union {triage.file}
         /\ Cardinality(found) <= MaxFilesRead
  <1> DEFINE wanted == triage.relevant \union ({triage.file} \ {None})
  <1>1. some \subseteq wanted /\ Cardinality(some) <= MaxFilesRead
    BY DEF FilesToRead
  <1>2. wanted \subseteq Files
    BY DEF AgentInv, PromptInv
  <1>3. IsFiniteSet(some)
    BY <1>1, <1>2, FilesAssumption, FS_Subset
  <1>4. IsFiniteSet(found) /\ Cardinality(found) <= Cardinality(some)
    BY <1>3, FS_Subset
  <1>5. Cardinality(found) \in Nat /\ Cardinality(some) \in Nat
    BY <1>3, <1>4, FS_CardinalityType
  <1>6. Cardinality(found) <= MaxFilesRead
    BY <1>1, <1>4, <1>5, MaxFilesReadAssumption
  <1> QED BY <1>1, <1>6

LEMMA GatherKeeps ==
  ASSUME AgentInv, NEW found \in SUBSET Files, GatherContext(found),
         UNCHANGED patchVars
  PROVE  AgentInv'
  <1>1. PICK some \in FilesToRead(triage) : found \subseteq some
    BY DEF GatherContext
  <1>2. /\ found \subseteq triage.relevant \union {triage.file}
        /\ Cardinality(found) <= MaxFilesRead
    BY <1>1, FoundIsBounded
  <1>3. /\ node = "repair" /\ result = NoResult /\ triage' = triage
        /\ triage.type \in FailureTypes /\ ~Undiagnosable(triage)
    BY DEF GatherContext, AgentInv, DecisionInv
  <1>4. PatchInv'
    BY PatchInvStep DEF AgentInv
  <1>5. CASE found = {}
    <2>1. /\ node' = "END" /\ prompt' = prompt
          /\ result'.status = "cannot_fix" /\ result'.patch = None
      BY <1>5 DEF GatherContext, Repaired
    <2>2. PromptInv'
      BY <1>3, <2>1 DEF AgentInv, PromptInv
    <2>3. DecisionInv'
      BY <1>3, <2>1, NoneIsNoReply
         DEF DecisionInv, OutcomeIsDispatchable, Replies
    <2> QED BY <1>4, <2>1, <2>2, <2>3 DEF AgentInv, GraphNodes
  <1>6. CASE found # {}
    <2>1. node' = "llm" /\ result' = result /\ prompt'.files = found
      BY <1>6 DEF GatherContext
    <2>2. PromptInv'
      BY <1>2, <1>3, <2>1 DEF AgentInv, PromptInv
    <2>3. DecisionInv'
      BY <1>3, <1>6, <2>1
         DEF DecisionInv, OutcomeIsDispatchable, NoResult, Undiagnosable
    <2> QED BY <1>4, <2>1, <2>2, <2>3 DEF AgentInv, GraphNodes
  <1> QED BY <1>5, <1>6

\* An answer is called safe only if its diff passes the checks.
LEMMA ReadReplyKeeps ==
  ASSUME AgentInv, NEW reply \in ReplyKinds, ReadReply(reply),
         UNCHANGED patchVars
  PROVE  AgentInv'
  <1>1. /\ node = "llm" /\ node' = "END"
        /\ UNCHANGED <<triage, prompt, diff>>
        /\ triage.type \in FailureTypes /\ ~Undiagnosable(triage)
        /\ prompt.files # {}
    BY DEF ReadReply, Repaired, AgentInv, DecisionInv, patchVars
  <1>2. /\ result'.status = StatusOf(reply)
        /\ result'.patch =
             (IF reply \in {"unsafe diff", "safe diff"} THEN reply ELSE None)
    BY DEF ReadReply, Repaired
  <1>3. reply = "safe diff" => diff # <<>> /\ Valid
    BY DEF ReplyKinds
  <1>4. Valid' = Valid
    BY ValidStays
  <1>5. PatchInv'
    BY PatchInvStep DEF AgentInv
  <1>6. PromptInv'
    BY <1>1 DEF AgentInv, PromptInv
  <1>7. CASE reply = "safe diff"
    <2>1. result'.status = "patch_ready" /\ result'.patch = "safe diff"
      BY <1>2, <1>7 DEF StatusOf
    <2>2. Undiagnosable(triage)' = Undiagnosable(triage)
      BY <1>1 DEF Undiagnosable
    <2>3. OutcomeIsDispatchable'
      BY <1>1, <2>1, <2>2 DEF OutcomeIsDispatchable
    <2>4. DecisionInv'
      BY <1>1, <1>3, <1>4, <1>7, <2>3 DEF DecisionInv
    <2> QED BY <1>1, <1>5, <1>6, <2>4 DEF AgentInv, GraphNodes
  <1>8. CASE reply # "safe diff"
    <2>1. result'.status = "cannot_fix" /\ result'.patch # "safe diff"
      BY <1>2, <1>8, NoneIsNoReply DEF StatusOf, Replies
    <2>2. OutcomeIsDispatchable'
      BY <1>1, <2>1 DEF OutcomeIsDispatchable
    <2>3. DecisionInv'
      BY <1>1, <2>1, <2>2 DEF DecisionInv
    <2> QED BY <1>1, <1>5, <1>6, <2>3 DEF AgentInv, GraphNodes
  <1> QED BY <1>7, <1>8

LEMMA GraphRaisesKeeps ==
  ASSUME AgentInv, GraphRaises, UNCHANGED patchVars
  PROVE  AgentInv'
  <1>1. /\ node \in {"triage", "llm"} /\ node' = "raised"
        /\ UNCHANGED <<triage, prompt, result>>
    BY DEF GraphRaises
  <1>2. result' = NoResult
    BY <1>1 DEF AgentInv, DecisionInv
  <1>3. PatchInv'
    BY PatchInvStep DEF AgentInv
  <1>4. PromptInv'
    BY <1>1 DEF AgentInv, PromptInv
  <1>5. DecisionInv'
    BY <1>1, <1>2 DEF DecisionInv, OutcomeIsDispatchable, NoResult
  <1> QED BY <1>1, <1>3, <1>4, <1>5 DEF AgentInv, GraphNodes

\* The diff is written before anything is decided about it.
LEMMA WriteKeeps ==
  ASSUME AgentInv, Write
  PROVE  AgentInv'
  <1>1. node = "llm" /\ UNCHANGED <<node, triage, prompt, result>>
    BY DEF Write, graphVars
  <1>2. result = NoResult
    BY <1>1 DEF AgentInv, DecisionInv
  <1>3. PatchInv'
    BY PatchInvStep DEF AgentInv, Write
  <1>4. PromptInv'
    BY <1>1 DEF AgentInv, PromptInv
  <1>5. DecisionInv'
    BY <1>1, <1>2
       DEF AgentInv, DecisionInv, OutcomeIsDispatchable, NoResult, Undiagnosable
  <1> QED BY <1>1, <1>3, <1>4, <1>5 DEF AgentInv, GraphNodes

LEMMA AgentInvStep == AgentInv /\ [AgentNext]_agentVars => AgentInv'
  <1> SUFFICES ASSUME AgentInv, [AgentNext]_agentVars
               PROVE  AgentInv'
    OBVIOUS
  <1>1. CASE UNCHANGED agentVars
    <2>1. UNCHANGED <<node, triage, prompt, result>> /\ UNCHANGED patchVars
      BY <1>1 DEF agentVars, graphVars
    <2>2. PatchInv' /\ Valid' = Valid /\ diff' = diff
      BY <2>1, PatchInvStep, ValidStays DEF AgentInv, patchVars
    <2>3. PromptInv' /\ node' \in GraphNodes
      BY <2>1 DEF AgentInv, PromptInv
    <2>4. DecisionInv'
      BY <2>1, <2>2
         DEF AgentInv, DecisionInv, OutcomeIsDispatchable, Undiagnosable
    <2> QED BY <2>2, <2>3, <2>4 DEF AgentInv
  <1>2. CASE BeforeReply /\ UNCHANGED patchVars
    BY <1>2, TriageKeeps, GatherKeeps DEF BeforeReply
  <1>3. CASE GraphRaises /\ UNCHANGED patchVars
    BY <1>3, GraphRaisesKeeps
  <1>4. CASE Write
    BY <1>4, WriteKeeps
  <1>5. CASE (\E reply \in ReplyKinds : ReadReply(reply)) /\ UNCHANGED patchVars
    BY <1>5, ReadReplyKeeps
  <1> QED BY <1>1, <1>2, <1>3, <1>4, <1>5 DEF AgentNext

THEOREM AgentInvHolds == AgentSpec => []AgentInv
  BY AgentInvInit, AgentInvStep, PTL DEF AgentSpec

-----------------------------------------------------------------------------
(* The theorems *)

\* orchestrator.py:261-288, whatever the models answer, a graph that ends has
\* one of three statuses, with what _post_graph_dispatch takes for granted.
THEOREM OutcomesDispatchable == AgentSpec => []OutcomeIsDispatchable
  BY AgentInvHolds, PTL DEF AgentInv, DecisionInv

\* README.md:107, a prompt has at most MaxFilesRead files, named by triage.
THEOREM PromptsBounded == AgentSpec => []PromptIsBounded
  <1>1. AgentInv => PromptIsBounded
    BY DEF AgentInv, PromptInv, PromptIsBounded
  <1> QED BY <1>1, AgentInvHolds, PTL

\* repair.py:338-343, on every diff whose text tells what it does, of any
\* length and for any limits, the checks accept all and only what is within the
\* limits and leaves infra/ at the top of the repository alone.
THEOREM ChecksExact == AgentSpec => []ExactOnOrdinary
  BY OrdinaryIsExact, AgentInvHolds, PTL DEF AgentInv

\* README.md:107, a patch that is ready is the diff that was checked: each of
\* its limits is kept under the condition that makes the check see it.
THEOREM ReadyPatchesSafe == AgentSpec => []ReadyPatchIsSafe
  <1>1. AgentInv => ReadyPatchIsSafe
    <2> SUFFICES ASSUME AgentInv, result.status = "patch_ready"
                 PROVE  /\ diff # <<>>
                        /\ Conventional => "infra/f" \notin written
                        /\ Conventional /\ OldFilesOnly => files <= MaxFiles
                        /\ PlainMarks => changed <= MaxLines
      BY DEF ReadyPatchIsSafe
    <2>1. diff # <<>> /\ Valid /\ PatchInv
      BY DEF AgentInv, DecisionInv
    <2>2. Conventional => "infra/f" \notin written
      BY <2>1, ForbiddenFound DEF Valid
    <2>3. Conventional /\ OldFilesOnly => files <= MaxFiles
      <3> SUFFICES ASSUME Conventional, OldFilesOnly
                   PROVE  files <= MaxFiles
        OBVIOUS
      <3>1. files <= FilesSeen /\ FilesSeen <= MaxFiles
        BY <2>1, FilesCounted DEF Valid
      <3>2. files \in Nat /\ FilesSeen \in Nat
        BY <2>1, FilesCounted
      <3> QED BY <3>1, <3>2, LimitsAssumption
    <2>4. PlainMarks => changed <= MaxLines
      BY <2>1, LinesCounted DEF Valid
    <2> QED BY <2>1, <2>2, <2>3, <2>4
  <1> QED BY <1>1, AgentInvHolds, PTL
=============================================================================
