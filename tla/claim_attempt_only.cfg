SPECIFICATION GitSpec
CONSTANTS
  Ops = {o1, o2}
  Paths = {a, b}
  PatchFile = PatchFile
  Patches = {p1, p2}
  Original = Original
  Absent = Absent
  None = None
  MaxOps = 3
CHECK_DEADLOCK FALSE
SYMMETRY GitSymmetry
INVARIANT OnlyTheAttempt
