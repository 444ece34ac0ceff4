CONSTANTS
  p1 = p1
  p2 = p2
  c1 = c1
  c2 = c2
  s1 = s1
  s2 = s2
  None = None
  Procs = {p1, p2}
  Ops <- Anything
  Chunk = {c1, c2}
  SourceOf <- TwoSources
  MaxCrashes = 1
  MaxFaults = 1
  MaxTurns = 2
  Fresh = {2, 3, 4}
  MaxEvents = 2
SYMMETRY ProcSymmetry
SPECIFICATION AllSpec
CONSTRAINT Followed
INVARIANTS Types AckedIsDurable InitializedIsOpen NoDuplicateRows  ScreenIsTheThread
