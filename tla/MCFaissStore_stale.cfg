CONSTANTS
  p1 = p1
  p2 = p2
  s1 = s1
  s2 = s2
  None = None
  Procs = {p1, p2}
  Sources = {s1, s2}
  Ops <- DeletesAndSearch
  MaxAdds = 0
  MaxCrashes = 0
  MaxFaults = 0
SPECIFICATION Spec
INVARIANT SearchSafeFromDeletes
