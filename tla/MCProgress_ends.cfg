CONSTANTS
  s1 = s1
  s2 = s2
  c1 = c1
  None = None
  Procs = {p1, p2}
  Ops <- Anything
  Chunk = {c1}
  SourceOf <- OneSource
  MaxCrashes = 0
  MaxFaults = 1
SPECIFICATION AllSpec
PROPERTIES EveryCallEnds Implements
