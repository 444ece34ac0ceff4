CONSTANTS
  p1 = p1
  p2 = p2
  s1 = s1
  s2 = s2
  None = None
  Procs = {p1, p2}
  Sources = {s1, s2}
  Ops <- Anything
  MaxAdds = 2
  MaxCrashes = 1
  MaxFaults = 1
SYMMETRY Symmetry
SPECIFICATION Spec
INVARIANTS TypeOK Exclusive Aligned SearchPairs
CONSTRAINT Followed
